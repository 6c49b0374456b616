------------------------- MODULE VarianceAccumulator -------------------------
(***************************************************************************)
(* The variance accumulator (contracts/src/VarianceAccumulator.sol) of one *)
(* series.  Anyone may call checkpoint, in calls of any size up to the     *)
(* limit, while the feed keeps adding rounds and phases; once every sample *)
(* of the window is stored anyone may fix the final variance.              *)
(*                                                                         *)
(* Prices stand in for answers scaled to 18 decimals: the scale is the     *)
(* same for every answer and cancels in a return.                          *)
(***************************************************************************)
EXTENDS RoundSearch

CONSTANTS
    Start, Expiry, SampleInterval,  \* the window of the series' parameters
    MaxSamplesPerCall,
    Year,                           \* seconds of a year
    SquaredReturn(_, _),            \* of two successive sample prices
    Created,                        \* when the series is created
    InitialFeed,                    \* the phases then
    RoundTimes,                     \* when the feed may add rounds
    Answers, Wholeness,             \* what they may be
    NewPhases,                      \* the rounds a new phase may come with
    NotFinal,
    MaxRounds, MaxPhases, MaxTime   \* bounds on the feed and the clock

\* What _validate and the constructor accept.
ASSUME WindowAssumption ==
    /\ Start \in Nat /\ Expiry \in Nat /\ Start < Expiry
    /\ SampleInterval \in Nat \ {0}
    /\ (Expiry - Start) % SampleInterval = 0
    /\ MaxSamplesPerCall \in Nat \ {0}
ASSUME NotFinalAssumption == NotFinal \notin Nat
ASSUME TimeAssumption == MaxTime \in Nat
ASSUME FeedAssumption ==
    /\ Created \in Nat \ {0}
    /\ InitialFeed \in Seq(Seq(Rounds)) \ {<<>>}
    /\ \A p \in DOMAIN InitialFeed :
          \A r \in DOMAIN InitialFeed[p] : InitialFeed[p][r].at <= Created
    /\ NewPhases \subseteq Seq(Rounds) /\ Answers \subseteq Int /\ Wholeness \subseteq BOOLEAN

VARIABLES
    now,    \* block.timestamp
    feed,   \* the feed's round history
    acc,    \* the series' Accumulator
    final   \* the variance the controller was told

vars == <<now, feed, acc, final>>

-----------------------------------------------------------------------------
\* The window's arithmetic; samples are numbered from 1.

SampleTime(i) == Start + (i - 1) * SampleInterval

Total == (Expiry - Start) \div SampleInterval + 1

\* Samples strictly before now: the one just due is left for later.
AvailableBefore ==
    LET limit == IF now < Expiry THEN now ELSE Expiry
    IN  IF limit < Start THEN 0 ELSE (limit - Start) \div SampleInterval

\* Samples whose time has come.
Available ==
    LET limit == IF now < Expiry THEN now ELSE Expiry
        count == (limit - Start) \div SampleInterval + 1
    IN  IF limit < Start THEN 0 ELSE IF count > Total THEN Total ELSE count

Annualize(sum, elapsed) == IF elapsed = 0 THEN 0 ELSE (sum * Year) \div elapsed

\* realizedSoFar, which prices the series before it is final.
RealizedSoFar ==
    LET through == IF acc.processedSamples = 0 THEN Start ELSE acc.processedThrough
    IN  Annualize(acc.sum, through - Start)

-----------------------------------------------------------------------------
\* The calls.

EmptyAccumulator ==
    [processedSamples |-> 0, processedThrough |-> 0, lastRound |-> Cursor(0, 0),
     lastPrice |-> 0, sum |-> 0]

\* The cursors of samples first..last: the first sample of the window is
\* searched from scratch, each other one from its predecessor.
Scan(first, last) ==
    LET next == [x \in [from : Cursors, sample : Nat] |->
                   NextSample(feed, x.from, SampleTime(x.sample))]
        cursor[i \in first - 1 .. last] ==
            IF i < first THEN acc.lastRound
            ELSE IF i = 1 THEN Locate(feed, Start)
            ELSE next[[from |-> cursor[i - 1], sample |-> i]]
    IN  cursor

\* A call with nothing new to do changes nothing; one that meets an answer
\* it cannot use reverts with all its samples.
Checkpoint(maxSamples) ==
    LET first == acc.processedSamples + 1
        last == Min({Available, acc.processedSamples + maxSamples})
        cursor == Scan(first, last)
        Price(i) == IF i < first THEN acc.lastPrice ELSE AnswerAt(feed, cursor[i])
    IN  /\ acc.processedSamples < Available
        /\ HasLatest(feed)
        /\ first = 1 => Located(feed, Start)
        /\ \A i \in first .. last : ValidAnswer(Price(i))
        /\ acc' = [processedSamples |-> last,
                   processedThrough |-> SampleTime(last),
                   lastRound |-> cursor[last],
                   lastPrice |-> Price(last),
                   sum |-> acc.sum +
                       SumFunction([i \in Max({first, 2}) .. last |->
                                        SquaredReturn(Price(i - 1), Price(i))])]
        /\ UNCHANGED <<now, feed, final>>

\* Once the window is over, whatever part of it is stored.
FinalizeIncomplete ==
    /\ now >= Expiry
    /\ final = NotFinal
    /\ final' = Annualize(acc.sum, Expiry - Start)
    /\ UNCHANGED <<now, feed, acc>>

\* The controller's onFinalize accepts one variance per series.
Finalize ==
    /\ now >= Expiry
    /\ acc.processedSamples = Total
    /\ final = NotFinal
    /\ final' = Annualize(acc.sum, Expiry - Start)
    /\ UNCHANGED <<now, feed, acc>>

-----------------------------------------------------------------------------
\* The feed and the clock.

RoundCount == MapThenSumSet(LAMBDA p : Len(feed[p]), DOMAIN feed)

\* The current phase adds a round; a phase without one is always served.
PushRound(answer, whole) ==
    /\ now \in RoundTimes
    /\ RoundCount < MaxRounds \/ ~HasLatest(feed)
    /\ feed' = [feed EXCEPT ![Len(feed)] =
                   Append(@, [at |-> now, answer |-> answer, whole |-> whole])]
    /\ UNCHANGED <<now, acc, final>>

\* The proxy moves on to another aggregator, which may have rounds already.
NewPhase(rounds) ==
    /\ Len(feed) < MaxPhases
    /\ \A r \in DOMAIN rounds : rounds[r].at <= now
    /\ feed' = Append(feed, rounds)
    /\ UNCHANGED <<now, acc, final>>

Tick ==
    /\ now < MaxTime
    /\ now' = now + 1
    /\ UNCHANGED <<feed, acc, final>>

Init ==
    /\ now = Created
    /\ feed = InitialFeed
    /\ acc = EmptyAccumulator
    /\ final = NotFinal

CheckpointAny == \E maxSamples \in 1 .. MaxSamplesPerCall : Checkpoint(maxSamples)
Heartbeat == \E answer \in Answers, whole \in Wholeness : PushRound(answer, whole)

Next ==
    \/ CheckpointAny
    \/ Finalize
    \/ Heartbeat
    \/ \E rounds \in NewPhases : NewPhase(rounds)
    \/ Tick

Spec == Init /\ [][Next]_vars

\* Time passes; anyone who needs the variance may call; a current phase
\* without a round gets one.
FairSpec ==
    /\ Spec
    /\ WF_vars(Tick)
    /\ WF_vars(CheckpointAny)
    /\ WF_vars(Finalize)
    /\ WF_vars(~HasLatest(feed) /\ Heartbeat)

-----------------------------------------------------------------------------
\* Properties.

\* The sum a computation of the first n samples in one go gives on the feed
\* as it is now.
OneShotSum(n) ==
    LET price == [i \in 1 .. n |-> AnswerAt(feed, LatestAt(feed, SampleTime(i)))]
    IN  SumFunction([i \in 2 .. n |-> SquaredReturn(price[i - 1], price[i])])

\* "a checkpointed window and a one-shot RealizedVariance.compute over the
\* same window return the same number": whatever the sizes and times of the
\* checkpoint calls, and whatever the feed has added since.  A final variance
\* rests on this sum (WholeWindow), so it is the one anyone can recompute.
IncrementalIsOneShot ==
    acc.processedSamples > 0 =>
        /\ acc.sum = OneShotSum(acc.processedSamples)
        /\ acc.lastRound = LatestAt(feed, acc.processedThrough)

\* The galloping search (priceAt, beginScan) finds the latest round at or
\* before any time the feed covers.
SearchFindsLatest ==
    HasLatest(feed) =>
        \A t \in 1 .. now : Located(feed, t) => Locate(feed, t) = LatestAt(feed, t)

\* The sample a checkpoint stops at is the latest round at or before its time
\* on the feed of that moment, however the search was resumed (resumeScan,
\* nextSample).
SamplesAreLatest ==
    [][acc' /= acc =>
        acc'.lastRound = LatestAt(feed, SampleTime(acc'.processedSamples))]_vars

\* No checkpoint runs ahead of the clock, the time it reports is that of the
\* last sample stored, and a final variance rests on the whole window: it is
\* what realizedSoFar has reached (checkpoint, finalize).
WholeWindow ==
    /\ acc.processedSamples <= Available
    /\ acc.processedSamples > 0 =>
        acc.processedThrough = SampleTime(acc.processedSamples)
    /\ final /= NotFinal =>
        /\ acc.processedSamples = Total
        /\ final = RealizedSoFar

\* Once final, no call changes the variance or the samples under it.
FinalForever == [][final /= NotFinal => UNCHANGED <<acc, final>>]_vars

\* If the feed keeps answering, the window closes and is finalized, by callers
\* without any privilege.
EventuallyFinalized == <>(final /= NotFinal)
=============================================================================

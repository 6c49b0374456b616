----------------------- MODULE SeriesControllerProofs -----------------------
(***************************************************************************)
(* Theorems about the v2 series controller, for every set of series, all   *)
(* terms it accepts, every scale and any depth of nested swaps: its vault  *)
(* stays solvent, the reserve of every series covers its claims, once it   *)
(* is final what its holders have settles in full, the entities the        *)
(* subgraph folds from the logs are the ledger, and the pages offer what   *)
(* the controller then does.                                               *)
(***************************************************************************)
EXTENDS SeriesPages, SeriesPricingProofs

SeriesState ==
    [created : BOOLEAN, issuanceStopped : BOOLEAN, finalized : BOOLEAN,
     closed : BOOLEAN, outstandingUnits : Nat, lockedLiability : Nat,
     payoutPerUnit : Nat]

\* What the outstanding units of a series r with the terms of s can cost.
Owed(s, r) ==
    IF r.finalized THEN FinalLiability(r.outstandingUnits, r.payoutPerUnit)
    ELSE Liability(s, r.outstandingUnits)

\* What ReserveCoversClaims rests on: the reserve is exactly what is owed.
Reserved(ser) == \A s \in AllSeries : ser[s].lockedLiability = Owed(s, ser[s])

Locks(ser) == [s \in AllSeries |-> ser[s].lockedLiability]

\* The part of the state the vault's solvency rests on, here and in what a
\* revert restores.  The lock is the sum of the reserves.
Ledger(bal, lock, ser, aq, adv) ==
    /\ bal \in Int /\ lock \in Int /\ adv \in Int
    /\ ser \in [AllSeries -> SeriesState]
    /\ aq \in [AllSeries -> [Kinds -> Int]]
    /\ Reserved(ser)
    /\ lock = SumFunction(Locks(ser))

Sound == Ledger(balance, lockedQuote, series, aqua, advance)

Saved(v) == Ledger(v.balance, v.lockedQuote, v.series, v.aqua, v.advance)

\* Frames whose saved state is one of S; of receipts and logs nothing is
\* needed.
Frames(S) ==
    [group : AllSeries, kind : Kinds, side : {"VAR"}, taker : Holders,
     amountIn : Nat, amountOut : Nat, inFirst : BOOLEAN,
     stage : {"first", "second"}, saved : S]

Framed == \E S : (\A v \in S : Saved(v)) /\ stack \in Seq(Frames(S))

LEMMA SoundPrime == Sound' <=> Ledger(balance', lockedQuote', series', aqua', advance')
  BY DEF Sound, Ledger, Reserved, Owed, Liability, Locks

LEMMA FramedPrime == Framed' <=> \E S : (\A v \in S : Saved(v)) /\ stack' \in Seq(Frames(S))
  BY DEF Framed, Saved, Ledger, Reserved, Owed, Liability, Locks, Frames

LEMMA ParamTypes ==
    ASSUME NEW s \in AllSeries
    PROVE  /\ Params[s].notional \in Nat \ {0} /\ Params[s].cap \in Nat \ {0}
           /\ Params[s].slope \in Nat /\ Params[s].maxUnits \in Nat \ {0}
  BY ParamsAssumption DEF ValidParams

LEMMA LiabilityNat ==
    ASSUME NEW s \in AllSeries, NEW units \in Nat
    PROVE  Liability(s, units) \in Nat
  BY ParamTypes, MaxLiabilityNat DEF Liability

LEMMA NoLiability ==
    ASSUME NEW s \in AllSeries
    PROVE  Liability(s, 0) = 0
<1>1. 0 * Params[s].notional = 0 /\ 0 * Params[s].cap = 0 /\ Params[s].cap \in Nat
  BY ParamTypes
<1>2. MulDivUp(0, Params[s].cap, WAD * WAD) = 0
  BY <1>1, Scales, NothingOwed
<1> QED
  BY <1>1, <1>2 DEF Liability, MaxLiability

LEMMA SeriesFields ==
    ASSUME Sound, NEW s \in AllSeries
    PROVE  /\ series[s] \in SeriesState
           /\ series[s].finalized \in BOOLEAN /\ series[s].created \in BOOLEAN
           /\ series[s].outstandingUnits \in Nat
           /\ series[s].lockedLiability \in Nat
           /\ series[s].payoutPerUnit \in Nat
           /\ series[s].lockedLiability = Owed(s, series[s])
           /\ \A k \in Kinds : aqua[s][k] \in Int
           /\ balance \in Int /\ lockedQuote \in Int
  BY DEF Sound, Ledger, Reserved, SeriesState

-----------------------------------------------------------------------------
(* The ledger under each step *)

\* A call that leaves the swaps in flight and the reserves alone.
LEMMA IdleSound ==
    ASSUME Sound, UNCHANGED <<lockedQuote, series, aqua, advance>>, balance' \in Int
    PROVE  Sound'
  BY SoundPrime DEF Sound, Ledger

LEMMA FreeNat ==
    ASSUME Sound
    PROVE  FreeQuote \in Nat
  BY DEF FreeQuote, Sound, Ledger

\* A priced issue has natural units and premium.
LEMMA IssueFillNat ==
    ASSUME Sound, NEW s \in AllSeries, NEW ask \in Nat, NEW exactIn \in BOOLEAN,
           NEW amount \in Nat, IssueFill(s, ask, exactIn, amount).units > 0
    PROVE  /\ IssueFill(s, ask, exactIn, amount).units \in Nat
           /\ IssueFill(s, ask, exactIn, amount).premium \in Nat
<1> DEFINE p     == Params[s]
           limit == IssueLimit(s, ask)
           asked == IF exactIn THEN IssueUnitsFor(ask, p.slope, p.notional, amount)
                    ELSE amount
           units == Least(asked, limit)
<1>1. /\ p.notional \in Nat \ {0} /\ p.cap \in Nat \ {0} /\ p.slope \in Nat
      /\ series[s].outstandingUnits \in Nat /\ series[s].lockedLiability \in Nat
      /\ aqua[s]["ISSUE"] \in Int
  BY ParamTypes, SeriesFields DEF Kinds
<1>2. limit \in Int
  <2>1. IssueUnitsToCollateral(series[s].outstandingUnits, series[s].lockedLiability,
                               FreeQuote, p.notional, p.cap) \in Int
    BY <1>1, FreeNat, CollateralLimitInt
  <2>2. IssueUnitsToCap(ask, p.slope, p.cap) \in Int
    BY <1>1, LimitsInt
  <2> QED
    BY <1>1, <2>1, <2>2, MinInt DEF IssueLimit
<1>3. asked \in Nat
  BY <1>1, IssueUnitsForNat
<1>4. IssueFill(s, ask, exactIn, amount) =
        [units   |-> units,
         premium |-> IF exactIn /\ asked <= limit THEN amount
                     ELSE IssuePremium(ask, p.slope, p.notional, units)]
  BY DEF IssueFill
<1> HIDE DEF limit, asked
<1>5. units \in Nat
  BY <1>2, <1>3, <1>4 DEF Least
<1> HIDE DEF units
<1>6. IssuePremium(ask, p.slope, p.notional, units) \in Nat
  BY <1>1, <1>5, IssuePremiumNat
<1> QED
  BY <1>4, <1>5, <1>6

\* One series changes, and its reserve is what it then owes.
LEMMA SeriesUpdate ==
    ASSUME Sound, NEW s \in AllSeries, NEW r \in SeriesState,
           r.lockedLiability = Owed(s, r),
           series' = [series EXCEPT ![s] = r],
           lockedQuote' = lockedQuote + (r.lockedLiability - series[s].lockedLiability),
           balance' \in Int, advance' \in Int,
           aqua' \in [AllSeries -> [Kinds -> Int]]
    PROVE  Sound'
<1>1. series' \in [AllSeries -> SeriesState]
  BY DEF Sound, Ledger
<1>2. Reserved(series')
  <2>1. SUFFICES ASSUME NEW t \in AllSeries
                 PROVE  series'[t].lockedLiability = Owed(t, series'[t])
    BY DEF Reserved
  <2>2. CASE t = s
    BY <2>2 DEF Sound, Ledger
  <2>3. CASE t # s
    BY <2>3 DEF Sound, Ledger, Reserved
  <2> QED
    BY <2>2, <2>3
<1> DEFINE old == Locks(series)
           new == Locks(series')
<1>3. /\ old \in [AllSeries -> Int] /\ new \in [AllSeries -> Int]
      /\ old[s] = series[s].lockedLiability /\ new[s] = r.lockedLiability
      /\ \A t \in AllSeries \ {s} : new[t] = old[t]
  <2>1. series \in [AllSeries -> SeriesState]
    BY DEF Sound, Ledger
  <2>2. \A v \in [AllSeries -> SeriesState] : Locks(v) \in [AllSeries -> Int]
    BY DEF Locks, SeriesState
  <2>3. \A t \in AllSeries :
          old[t] = series[t].lockedLiability /\ new[t] = series'[t].lockedLiability
    BY DEF Locks
  <2> QED
    BY <1>1, <2>1, <2>2, <2>3
<1> HIDE DEF old, new
<1>4. lockedQuote = SumFunction(old) /\ lockedQuote \in Int
  BY DEF Sound, Ledger, old
<1>5. SumFunction(new) = SumFunction(old) + (new[s] - old[s])
  <2>1. /\ old \in [AllSeries -> Int] /\ new \in [AllSeries -> Int]
    BY <1>3
  <2>2. \A t \in AllSeries \ {s} : new[t] = old[t]
    BY <1>3
  <2> QED
    BY ZenonT(60), <2>1, <2>2, SeriesAssumption, SumExcept
<1>6. lockedQuote' = SumFunction(new) /\ lockedQuote' \in Int
  <2>1. old[s] \in Int /\ new[s] \in Int
    BY <1>3
  <2> QED
    BY <1>3, <1>4, <1>5, <2>1
<1> QED
  BY <1>1, <1>2, <1>6, SoundPrime DEF Ledger, new

LEMMA OnIssueSound ==
    ASSUME Sound, NEW s \in AllSeries, NEW units \in Nat,
           ~series[s].finalized, OnIssue(s, units), UNCHANGED <<aqua, advance>>
    PROVE  /\ Sound'
           /\ UNCHANGED balance
           /\ balance' >= lockedQuote'
<1> DEFINE out == series[s].outstandingUnits + units
           r   == [series[s] EXCEPT !.outstandingUnits = out,
                                    !.lockedLiability = Liability(s, out)]
<1>1. /\ series[s] \in SeriesState
      /\ out \in Nat /\ series[s].lockedLiability \in Nat /\ lockedQuote \in Int
  BY SeriesFields
<1>2. Liability(s, out) \in Nat
  BY <1>1, LiabilityNat
<1> HIDE DEF out
<1>3. r \in SeriesState /\ ~r.finalized
      /\ r.outstandingUnits = out /\ r.lockedLiability = Liability(s, out)
  BY <1>1, <1>2 DEF SeriesState
<1>4. series' = [series EXCEPT ![s] = r]
  BY DEF OnIssue, out, r
<1>5. /\ lockedQuote' = lockedQuote + (Liability(s, out) - series[s].lockedLiability)
      /\ UNCHANGED balance /\ balance' >= lockedQuote'
  BY DEF OnIssue, IncreaseLocked, AssertSolvent, out
<1>6. /\ r.lockedLiability = Owed(s, r)
      /\ lockedQuote' = lockedQuote + (r.lockedLiability - series[s].lockedLiability)
  BY <1>3, <1>5 DEF Owed
<1>7. /\ balance' \in Int /\ advance' \in Int
      /\ aqua' \in [AllSeries -> [Kinds -> Int]]
  BY <1>1, <1>2, <1>5 DEF Sound, Ledger
<1> HIDE DEF r
<1> QED
  BY <1>3, <1>4, <1>5, <1>6, <1>7, SeriesUpdate

LEMMA OnBurnSound ==
    ASSUME Sound, NEW s \in AllSeries, NEW kind \in {"EXIT", "SETTLE"}, NEW units \in Nat,
           NEW amountOut \in Nat, OnBurn(s, kind, units, amountOut),
           UNCHANGED aqua, advance' \in Int
    PROVE  /\ Sound'
           /\ UNCHANGED balance
           /\ lockedQuote' + amountOut <= lockedQuote
<1> DEFINE out  == series[s].outstandingUnits - units
           left == LiabilityAfter(s, kind, out)
           r    == [series[s] EXCEPT !.outstandingUnits = out, !.lockedLiability = left]
<1>1. /\ series[s] \in SeriesState /\ series[s].payoutPerUnit \in Nat
      /\ out \in Nat /\ series[s].lockedLiability \in Nat /\ lockedQuote \in Int
  BY SeriesFields DEF OnBurn
<1>2. /\ series' = [series EXCEPT ![s] = r]
      /\ amountOut <= series[s].lockedLiability - left
      /\ lockedQuote' = lockedQuote - (series[s].lockedLiability - left)
      /\ UNCHANGED balance
      /\ IF kind = "EXIT" THEN ~series[s].finalized ELSE series[s].finalized
  BY DEF OnBurn, DecreaseLocked, ExitOpen
<1> HIDE DEF out
<1>3. left \in Nat
  BY <1>1, LiabilityNat, FinalLiabilityNat DEF LiabilityAfter
<1>4. left = IF series[s].finalized THEN FinalLiability(out, series[s].payoutPerUnit)
             ELSE Liability(s, out)
  BY <1>2 DEF LiabilityAfter
<1> HIDE DEF left
<1>5. r \in SeriesState /\ r.lockedLiability = Owed(s, r) /\ r.lockedLiability = left
  BY <1>1, <1>3, <1>4 DEF SeriesState, Owed
<1> HIDE DEF r
<1>6. /\ lockedQuote' = lockedQuote + (r.lockedLiability - series[s].lockedLiability)
      /\ lockedQuote' + amountOut <= lockedQuote
  BY <1>1, <1>2, <1>3, <1>5
<1>7. balance' \in Int /\ aqua' \in [AllSeries -> [Kinds -> Int]]
  BY <1>2 DEF Sound, Ledger
<1> QED
  BY <1>2, <1>5, <1>6, <1>7, SeriesUpdate

LEMMA FinalizeSound ==
    ASSUME Sound, NEW s \in AllSeries, NEW v \in Variances, Finalize(s, v)
    PROVE  Sound'
<1> DEFINE ppu  == PayoutPerUnit(v, Params[s].cap, Params[s].notional)
           left == FinalLiability(series[s].outstandingUnits, ppu)
           r    == [series[s] EXCEPT !.finalized = TRUE, !.payoutPerUnit = ppu,
                                     !.lockedLiability = left]
<1>1. ppu \in Nat
  BY ParamTypes, InputsAssumption, PayoutPerUnitNat
<1>2. series[s] \in SeriesState /\ series[s].outstandingUnits \in Nat
      /\ series[s].lockedLiability \in Nat
  BY SeriesFields
<1>3. /\ series' = [series EXCEPT ![s] = r]
      /\ \/ lockedQuote' = lockedQuote - (series[s].lockedLiability - left)
         \/ UNCHANGED lockedQuote /\ ~(series[s].lockedLiability - left > 0)
      /\ series[s].lockedLiability - left >= 0
      /\ UNCHANGED <<balance, aqua, advance>>
  BY DEF Finalize, DecreaseLocked, VaultUnchanged
<1> HIDE DEF ppu
<1>4. left \in Nat
  BY <1>1, <1>2, FinalLiabilityNat
<1>5. r \in SeriesState /\ r.lockedLiability = Owed(s, r) /\ r.lockedLiability = left
  BY <1>1, <1>2, <1>4 DEF SeriesState, Owed
<1> HIDE DEF left, r
<1>6. /\ balance' \in Int /\ advance' \in Int
      /\ aqua' \in [AllSeries -> [Kinds -> Int]] /\ lockedQuote \in Int
  BY <1>3 DEF Sound, Ledger
<1>7. lockedQuote' = lockedQuote + (r.lockedLiability - series[s].lockedLiability)
  BY <1>2, <1>3, <1>4, <1>5, <1>6
<1> QED
  BY <1>3, <1>5, <1>6, <1>7, SeriesUpdate

LEMMA CreateSeriesSound ==
    ASSUME Sound, NEW s \in AllSeries, CreateSeries(s)
    PROVE  Sound'
<1> DEFINE r == [series[s] EXCEPT !.created = TRUE]
           shipped == [k \in Kinds |-> IF k = "ISSUE" THEN Params[s].maxUnits
                                       ELSE Liability(s, Params[s].maxUnits)]
<1>1. /\ series' = [series EXCEPT ![s] = r]
      /\ aqua' = [aqua EXCEPT ![s] = shipped]
      /\ UNCHANGED <<balance, lockedQuote, advance>>
  BY DEF CreateSeries, VaultUnchanged
<1>2. /\ r \in SeriesState /\ r.lockedLiability = Owed(s, r)
      /\ r.lockedLiability = series[s].lockedLiability
  BY SeriesFields DEF SeriesState, Owed
<1>3. shipped \in [Kinds -> Int]
  <2>1. Params[s].maxUnits \in Nat /\ Liability(s, Params[s].maxUnits) \in Nat
    BY ParamTypes, LiabilityNat
  <2> QED
    BY <2>1
<1> HIDE DEF r, shipped
<1>4. /\ aqua' \in [AllSeries -> [Kinds -> Int]]
      /\ balance' \in Int /\ advance' \in Int
  BY <1>1, <1>3 DEF Sound, Ledger
<1>5. lockedQuote' = lockedQuote + (r.lockedLiability - series[s].lockedLiability)
  BY <1>1, <1>2, SeriesFields
<1> QED
  BY <1>1, <1>2, <1>4, <1>5, SeriesUpdate

LEMMA StopIssuanceSound ==
    ASSUME Sound, NEW s \in AllSeries, StopIssuance(s)
    PROVE  Sound'
<1> DEFINE r == [series[s] EXCEPT !.issuanceStopped = TRUE]
<1>1. /\ series' = [series EXCEPT ![s] = r]
      /\ aqua' = [aqua EXCEPT ![s]["ISSUE"] = Docked]
      /\ UNCHANGED <<balance, lockedQuote, advance>>
  BY DEF StopIssuance, VaultUnchanged
<1>2. /\ r \in SeriesState /\ r.lockedLiability = Owed(s, r)
      /\ r.lockedLiability = series[s].lockedLiability
  BY SeriesFields DEF SeriesState, Owed
<1> HIDE DEF r
<1>3. [aqua[s] EXCEPT !["ISSUE"] = Docked] \in [Kinds -> Int]
  <2>1. Docked \in Int
    BY DEF Docked
  <2>2. aqua[s] \in [Kinds -> Int]
    BY DEF Sound, Ledger
  <2> QED
    BY <2>1, <2>2
<1>4. /\ aqua' \in [AllSeries -> [Kinds -> Int]]
      /\ balance' \in Int /\ advance' \in Int
  BY <1>1, <1>3 DEF Sound, Ledger
<1>5. lockedQuote' = lockedQuote + (r.lockedLiability - series[s].lockedLiability)
  BY <1>1, <1>2, SeriesFields
<1> QED
  BY <1>1, <1>2, <1>4, <1>5, SeriesUpdate

LEMMA BurnWorthlessSound ==
    ASSUME Sound, NEW s \in AllSeries, NEW h, NEW u \in Nat, BurnWorthless(s, h, u)
    PROVE  Sound'
<1> DEFINE out == series[s].outstandingUnits - u
           r   == [series[s] EXCEPT !.outstandingUnits = out]
<1>1. /\ series' = [series EXCEPT ![s] = r]
      /\ series[s].finalized /\ series[s].payoutPerUnit = 0
      /\ UNCHANGED <<balance, lockedQuote, aqua, advance>>
  BY DEF BurnWorthless, VaultUnchanged
<1>2. /\ series[s] \in SeriesState /\ series[s].outstandingUnits \in Nat
      /\ series[s].lockedLiability = Owed(s, series[s]) /\ out \in Nat
  BY SeriesFields DEF BurnWorthless
<1> HIDE DEF out
<1>3. FinalLiability(series[s].outstandingUnits, 0) = 0 /\ FinalLiability(out, 0) = 0
  BY <1>2, NoFinalLiability
<1>4. /\ r \in SeriesState /\ r.lockedLiability = Owed(s, r)
      /\ r.lockedLiability = series[s].lockedLiability
  BY <1>1, <1>2, <1>3 DEF SeriesState, Owed
<1> HIDE DEF r
<1>5. /\ aqua' \in [AllSeries -> [Kinds -> Int]]
      /\ balance' \in Int /\ advance' \in Int
  BY <1>1 DEF Sound, Ledger
<1>6. lockedQuote' = lockedQuote + (r.lockedLiability - series[s].lockedLiability)
  BY <1>1, <1>4, SeriesFields
<1> QED
  BY <1>1, <1>4, <1>5, <1>6, SeriesUpdate

\* A series without outstanding units owes nothing.
LEMMA NothingLeft ==
    ASSUME Sound, NEW s \in AllSeries, series[s].outstandingUnits = 0
    PROVE  series[s].lockedLiability = 0
<1>1. series[s].payoutPerUnit \in Nat /\ series[s].lockedLiability = Owed(s, series[s])
  BY SeriesFields
<1>2. FinalLiability(0, series[s].payoutPerUnit) = 0 /\ Liability(s, 0) = 0
  BY <1>1, NoFinalLiability, NoLiability
<1> QED
  BY <1>1, <1>2 DEF Owed

LEMMA CloseSeriesSound ==
    ASSUME Sound, NEW s \in AllSeries, CloseSeries(s)
    PROVE  Sound' /\ UNCHANGED lockedQuote
<1> DEFINE r == [series[s] EXCEPT !.closed = TRUE, !.lockedLiability = 0]
<1>1. /\ series' = [series EXCEPT ![s] = r]
      /\ aqua' = [aqua EXCEPT ![s] = [k \in Kinds |-> Docked]]
      /\ series[s].outstandingUnits = 0
      /\ UNCHANGED <<balance, advance>>
  BY DEF CloseSeries, VaultUnchanged, DecreaseLocked
<1>2. series[s].lockedLiability = 0
  BY <1>1, NothingLeft
<1>3. UNCHANGED lockedQuote
  BY <1>2 DEF CloseSeries, VaultUnchanged
<1>4. /\ r \in SeriesState /\ r.lockedLiability = Owed(s, r)
      /\ r.lockedLiability = series[s].lockedLiability
  BY <1>2, SeriesFields DEF SeriesState, Owed
<1> HIDE DEF r
<1>5. /\ aqua' \in [AllSeries -> [Kinds -> Int]]
      /\ balance' \in Int /\ advance' \in Int
  BY <1>1, <1>3 DEF Sound, Ledger, Docked
<1>6. lockedQuote' = lockedQuote + (r.lockedLiability - series[s].lockedLiability)
  BY <1>3, <1>4, SeriesFields
<1> QED
  BY <1>1, <1>3, <1>4, <1>5, <1>6, SeriesUpdate

-----------------------------------------------------------------------------
(* The stack of swaps *)

LEMMA FramesShaped ==
    ASSUME NEW S, \A v \in S : Saved(v), NEW f \in Frames(S)
    PROVE  /\ FrameShape(f)
           /\ f.group \in AllSeries /\ f.saved \in S
           /\ [f EXCEPT !.stage = "second"] \in Frames(S)
           /\ [f EXCEPT !.stage = "second"].saved = f.saved
  BY DEF Frames, FrameShape, Saved, Ledger

\* A swap begins: its frame saves a sound ledger.
LEMMA EnterFramed ==
    ASSUME Sound, Framed, NEW s \in AllSeries, NEW kind \in Kinds, NEW h \in Holders,
           NEW in \in Nat, NEW out \in Nat, NEW inFirst \in BOOLEAN,
           EnterSwap(Frame(s, kind, h, in, out, inFirst))
    PROVE  \E S : /\ \A v \in S : Saved(v)
                  /\ stack \in Seq(Frames(S)) /\ stack' \in Seq(Frames(S))
                  /\ Frame(s, kind, h, in, out, inFirst) \in Frames(S)
<1> DEFINE f == Frame(s, kind, h, in, out, inFirst)
<1>1. PICK R : (\A v \in R : Saved(v)) /\ stack \in Seq(Frames(R))
  BY DEF Framed
<1> DEFINE S == R \union {Snapshot}
<1>2. Saved(Snapshot)
  BY DEF Snapshot, Saved, Sound
<1>3. \A v \in S : Saved(v)
  BY <1>1, <1>2
<1>4. f \in Frames(S)
  <2>1. Snapshot \in S
    OBVIOUS
  <2> HIDE DEF S
  <2> QED
    BY <2>1 DEF Frame, Frames
<1>5. stack \in Seq(Frames(S))
  <2>1. Frames(R) \subseteq Frames(S)
    BY DEF Frames
  <2> HIDE DEF S
  <2>2. Seq(Frames(R)) \subseteq Seq(Frames(S))
    BY <2>1
  <2> QED
    BY <1>1, <2>2
<1> HIDE DEF f, S
<1>6. stack' \in Seq(Frames(S))
  BY <1>4, <1>5 DEF EnterSwap, f
<1> QED
  BY <1>3, <1>4, <1>5, <1>6 DEF f

LEMMA TransferFramed ==
    ASSUME Framed, stack # << >>, TransferDone
    PROVE  Framed' /\ FrameShape(Top) /\ Top.group \in AllSeries
<1>1. PICK S : (\A v \in S : Saved(v)) /\ stack \in Seq(Frames(S))
  BY DEF Framed
<1>2. Top \in Frames(S)
  BY <1>1, ButLast DEF Top
<1>3. /\ FrameShape(Top) /\ Top.group \in AllSeries
      /\ [Top EXCEPT !.stage = "second"] \in Frames(S)
  BY <1>1, <1>2, FramesShaped
<1>4. stack' \in Seq(Frames(S))
  BY <1>1, <1>3, AfterTransfer
<1> QED
  BY <1>1, <1>3, <1>4, FramedPrime

LEMMA RevertSound ==
    ASSUME Sound, Framed, Revert
    PROVE  Sound' /\ Framed'
<1>1. PICK S : (\A v \in S : Saved(v)) /\ stack \in Seq(Frames(S))
  BY DEF Framed
<1>2. Top \in Frames(S) /\ Below \in Seq(Frames(S))
  BY <1>1, ButLast DEF Top, Below, Revert
<1>3. Saved(Top.saved)
  BY <1>1, <1>2, FramesShaped
<1>4. Sound'
  BY <1>3, SoundPrime DEF Saved, Revert
<1>5. Framed'
  BY <1>1, <1>2, FramedPrime DEF Revert
<1> QED
  BY <1>4, <1>5

-----------------------------------------------------------------------------
(* Swaps *)

LEMMA SwapIssueSound ==
    ASSUME Sound, Framed, NEW s \in AllSeries, NEW h \in Holders, NEW ask \in Nat,
           NEW exactIn \in BOOLEAN, NEW amount \in Nat, NEW inFirst \in BOOLEAN,
           SwapIssue(s, h, ask, exactIn, amount, inFirst)
    PROVE  /\ Sound' /\ Framed'
           /\ UNCHANGED <<balance, advance>> /\ balance' >= lockedQuote'
           /\ \E in \in Nat, out \in Nat :
                EnterSwap(Frame(s, "ISSUE", h, in, out, inFirst))
<1> DEFINE units   == IssueFill(s, ask, exactIn, amount).units
           premium == IssueFill(s, ask, exactIn, amount).premium
<1>1. /\ units > 0 /\ ~series[s].finalized /\ OnIssue(s, units)
      /\ EnterSwap(Frame(s, "ISSUE", h, premium, units, inFirst))
      /\ UNCHANGED <<aqua, advance>>
  BY DEF SwapIssue, IssuanceOpen
<1>2. units \in Nat /\ premium \in Nat
  BY <1>1, IssueFillNat
<1> HIDE DEF units, premium
<1>3. Sound' /\ UNCHANGED balance /\ balance' >= lockedQuote'
  BY <1>1, <1>2, OnIssueSound
<1>4. Framed'
  BY <1>1, <1>2, EnterFramed, FramedPrime DEF Kinds
<1> QED
  BY <1>1, <1>2, <1>3, <1>4

LEMMA PayoutLimitInt ==
    ASSUME Sound, NEW s \in AllSeries, NEW kind \in Kinds,
           NEW amount \in Int, NEW owedAfter \in Nat
    PROVE  PayoutLimit(s, kind, amount, owedAfter) \in Int
<1> DEFINE released == series[s].lockedLiability - owedAfter
           shipped  == aqua[s][kind]
<1>1. released \in Int /\ shipped \in Int
  BY SeriesFields
<1>2. PayoutLimit(s, kind, amount, owedAfter) = Min({amount, released, shipped})
  BY DEF PayoutLimit
<1> HIDE DEF released, shipped
<1> QED
  BY <1>1, <1>2, MinInt

LEMMA SwapExitNat ==
    ASSUME Sound, NEW s \in AllSeries, NEW h \in Holders, NEW bid \in Nat,
           NEW asked \in Nat, NEW inFirst \in BOOLEAN, SwapExit(s, h, bid, asked, inFirst)
    PROVE  \E in \in Nat, paid \in Nat : SwapPayout(s, "EXIT", h, in, paid, inFirst)
<1> DEFINE p     == Params[s]
           out   == series[s].outstandingUnits
           most  == ExitUnitsToZeroBid(bid, p.slope)
           units == Min({asked, out, most})
           gross == ExitProceeds(bid, p.slope, p.notional, units)
           left  == Liability(s, out - units)
           paid  == PayoutLimit(s, "EXIT", gross, left)
<1>1. SwapPayout(s, "EXIT", h, units, paid, inFirst)
  BY DEF SwapExit
<1>2. units > 0 /\ paid > 0
  BY <1>1 DEF SwapPayout
<1>3. /\ out \in Nat /\ p.slope \in Nat /\ p.notional \in Nat /\ p.cap \in Nat
  BY SeriesFields, ParamTypes
<1>4. most \in Int
  BY <1>3, LimitsInt
<1> HIDE DEF out, most
<1>5. units \in Int /\ units <= out
  BY <1>3, <1>4, MinInt
<1> HIDE DEF units
<1>6. units \in Nat /\ out - units \in Nat
  BY <1>2, <1>3, <1>5
<1>7. gross \in Int /\ left \in Nat
  BY <1>3, <1>6, ExitProceedsInt, LiabilityNat
<1> HIDE DEF gross, left
<1>8. paid \in Int
  BY <1>7, PayoutLimitInt DEF Kinds
<1> HIDE DEF paid
<1>9. paid \in Nat
  BY <1>2, <1>8
<1> QED
  BY <1>1, <1>6, <1>9

LEMMA SwapSettleNat ==
    ASSUME Sound, NEW s \in AllSeries, NEW h \in Holders,
           NEW asked \in Nat, NEW inFirst \in BOOLEAN, SwapSettle(s, h, asked, inFirst)
    PROVE  \E in \in Nat, paid \in Nat : SwapPayout(s, "SETTLE", h, in, paid, inFirst)
<1> DEFINE r     == series[s]
           units == Least(asked, r.outstandingUnits)
           gross == SettleProceeds(units, r.payoutPerUnit)
           left  == FinalLiability(r.outstandingUnits - units, r.payoutPerUnit)
           paid  == PayoutLimit(s, "SETTLE", gross, left)
<1>1. SwapPayout(s, "SETTLE", h, units, paid, inFirst)
  BY DEF SwapSettle
<1>2. units > 0 /\ paid > 0
  BY <1>1 DEF SwapPayout
<1>3. /\ r.outstandingUnits \in Nat /\ r.payoutPerUnit \in Nat
  BY SeriesFields
<1>4. units \in Nat /\ r.outstandingUnits - units \in Nat
  BY <1>3 DEF Least
<1> HIDE DEF units
<1>5. gross \in Nat /\ left \in Nat
  BY <1>3, <1>4, SettleProceedsNat, FinalLiabilityNat
<1> HIDE DEF gross, left
<1>6. paid \in Int
  BY <1>5, PayoutLimitInt DEF Kinds
<1> HIDE DEF paid
<1>7. paid \in Nat
  BY <1>2, <1>6
<1> QED
  BY <1>1, <1>4, <1>7

LEMMA SwapPayoutSound ==
    ASSUME Sound, Framed, NEW s \in AllSeries, NEW kind \in {"EXIT", "SETTLE"},
           NEW h \in Holders, NEW in \in Nat, NEW paid \in Nat, NEW inFirst \in BOOLEAN,
           SwapPayout(s, kind, h, in, paid, inFirst)
    PROVE  Sound' /\ Framed'
<1>1. /\ EnterSwap(Frame(s, kind, h, in, paid, inFirst))
      /\ UNCHANGED <<balance, lockedQuote, series, aqua, advance>>
  BY DEF SwapPayout, chain, ledger
<1>2. Framed'
  BY <1>1, EnterFramed, FramedPrime DEF Kinds
<1> QED
  BY <1>1, <1>2, IdleSound DEF Sound, Ledger

LEMMA TransferInSound ==
    ASSUME Sound, Framed, TransferIn
    PROVE  Sound' /\ Framed'
<1>1. stack # << >> /\ TransferDone /\ UNCHANGED aqua
  BY DEF TransferIn, TransferInNext
<1>2. Framed' /\ FrameShape(Top) /\ Top.group \in AllSeries
  BY <1>1, TransferFramed
<1>3. Top.kind \in Kinds /\ Top.amountIn \in Nat /\ Top.amountOut \in Nat
      /\ balance \in Int /\ advance \in Int
  BY <1>2 DEF FrameShape, Sound, Ledger
<1>4. CASE Pushed(Top.amountIn) /\ UNCHANGED <<series, advance>>
  <2>1. balance' \in Int /\ UNCHANGED lockedQuote
    BY <1>3, <1>4 DEF Pushed
  <2> QED
    BY <1>1, <1>2, <1>4, <2>1, IdleSound
<1>5. CASE /\ Top.kind # "ISSUE"
           /\ OnBurn(Top.group, Top.kind, Top.amountIn, Top.amountOut)
           /\ advance' = advance - Top.amountOut
  <2>1. Top.kind \in {"EXIT", "SETTLE"} /\ advance' \in Int
    BY <1>3, <1>5 DEF Kinds
  <2> QED
    BY <1>1, <1>2, <1>3, <1>5, <2>1, OnBurnSound
<1> QED
  BY <1>4, <1>5 DEF TransferIn

LEMMA TransferOutSound ==
    ASSUME Sound, Framed, TransferOut
    PROVE  Sound' /\ Framed'
<1>1. /\ stack # << >> /\ TransferDone /\ UNCHANGED series
      /\ aqua' = [aqua EXCEPT ![Top.group][Top.kind] = @ - Top.amountOut]
  BY DEF TransferOut, TransferOutNext
<1>2. Framed' /\ FrameShape(Top) /\ Top.group \in AllSeries
  BY <1>1, TransferFramed
<1>3. /\ Top.kind \in Kinds /\ Top.amountOut \in Nat
      /\ balance \in Int /\ lockedQuote \in Int /\ advance \in Int
      /\ aqua \in [AllSeries -> [Kinds -> Int]]
      /\ series \in [AllSeries -> SeriesState] /\ Reserved(series)
      /\ lockedQuote = SumFunction(Locks(series))
  BY <1>2 DEF FrameShape, Sound, Ledger
<1>4. aqua' \in [AllSeries -> [Kinds -> Int]]
  BY <1>1, <1>2, <1>3
<1>5. UNCHANGED lockedQuote /\ balance' \in Int /\ advance' \in Int
  <2>1. CASE VaultUnchanged /\ UNCHANGED advance
    BY <1>3, <2>1 DEF VaultUnchanged
  <2>2. CASE Pulled(Top.amountOut) /\ advance' = advance + Top.amountOut
    BY <1>3, <2>2 DEF Pulled
  <2> QED
    BY <2>1, <2>2 DEF TransferOut
<1>6. Sound'
  BY <1>1, <1>3, <1>4, <1>5, SoundPrime DEF Ledger
<1> QED
  BY <1>2, <1>6

-----------------------------------------------------------------------------
(* Every step *)

\* Which of a series' swaps a call makes, with natural inputs.
LEMMA SwapCalls ==
    ASSUME Sound, NEW s \in AllSeries, NEW h \in Holders, NEW inFirst \in BOOLEAN,
           SwapCall(s, h, inFirst)
    PROVE  \/ \E ask \in Nat, exactIn \in BOOLEAN, a \in Nat :
                SwapIssue(s, h, ask, exactIn, a, inFirst)
           \/ \E kind \in {"EXIT", "SETTLE"}, in \in Nat, paid \in Nat :
                /\ SwapPayout(s, kind, h, in, paid, inFirst)
                /\ IF kind = "EXIT" THEN series[s].created ELSE series[s].finalized
<1>1. Asks \subseteq Nat /\ Bids \subseteq Nat /\ Amounts \subseteq Nat
      /\ UnitAmounts \subseteq Nat
  BY InputsAssumption
<1>2. CASE \E ask \in Asks : \E exactIn \in BOOLEAN :
            \E a \in IF exactIn THEN Amounts ELSE UnitAmounts :
                SwapIssue(s, h, ask, exactIn, a, inFirst)
  <2>1. PICK ask \in Asks, exactIn \in BOOLEAN :
            \E a \in IF exactIn THEN Amounts ELSE UnitAmounts :
                SwapIssue(s, h, ask, exactIn, a, inFirst)
    BY <1>2
  <2>2. PICK a \in IF exactIn THEN Amounts ELSE UnitAmounts :
            SwapIssue(s, h, ask, exactIn, a, inFirst)
    BY <2>1
  <2>3. ask \in Nat /\ a \in Nat
    BY <1>1
  <2> QED
    BY <2>2, <2>3
<1>3. ASSUME NEW u \in UnitAmounts, NEW bid \in Bids, SwapExit(s, h, bid, u, inFirst)
      PROVE  \E in \in Nat, paid \in Nat : SwapPayout(s, "EXIT", h, in, paid, inFirst)
  BY <1>1, <1>3, SwapExitNat
<1>4. ASSUME NEW u \in UnitAmounts, SwapSettle(s, h, u, inFirst)
      PROVE  \E in \in Nat, paid \in Nat : SwapPayout(s, "SETTLE", h, in, paid, inFirst)
  BY <1>1, <1>4, SwapSettleNat
<1>5. /\ \A u, bid : SwapExit(s, h, bid, u, inFirst) => series[s].created
      /\ \A u : SwapSettle(s, h, u, inFirst) => series[s].finalized
  BY DEF SwapExit, SwapSettle
<1> QED
  BY <1>2, <1>3, <1>4, <1>5 DEF SwapCall

\* The calls that leave the reserves alone.
Elsewhere ==
    \/ CreateVault
    \/ Tick
    \/ UNCHANGED vars
    \/ \E a \in Deposits : VaultDeposit(a) \/ VaultWithdrawFree(a)
    \/ \E s \in AllSeries :
        \/ \E n \in 1..TotalSamples(s) : Checkpoint(s, n)
        \/ \E h \in Holders, u \in UnitAmounts, to \in Accounts : ReceiptTransfer(s, h, to, u)

LEMMA ElsewhereSound ==
    ASSUME Sound, Elsewhere
    PROVE  Sound' /\ UNCHANGED <<stack, lockedQuote, advance>>
<1>1. balance \in Int /\ Deposits \subseteq Nat
  BY InputsAssumption DEF Sound, Ledger
<1>2. CASE \E a \in Deposits : VaultDeposit(a) \/ VaultWithdrawFree(a)
  <2>1. PICK a \in Deposits : VaultDeposit(a) \/ VaultWithdrawFree(a)
    BY <1>2
  <2>2. /\ balance' = balance + a \/ balance' = balance - a
        /\ UNCHANGED <<lockedQuote, series, aqua, stack, advance>>
    BY <2>1 DEF VaultDeposit, VaultWithdrawFree, Deposit, WithdrawFree, Call, ledger
  <2>3. balance' \in Int
    BY <1>1, <2>2
  <2> QED
    BY <2>2, <2>3, IdleSound
<1>3. CASE ~\E a \in Deposits : VaultDeposit(a) \/ VaultWithdrawFree(a)
  <2>1. UNCHANGED <<balance, lockedQuote, series, aqua, stack, advance>>
    <3>1. CASE CreateVault \/ Tick \/ UNCHANGED vars
      BY <3>1 DEF CreateVault, Tick, Call, vars, chain, ledger, VaultUnchanged
    <3>2. ASSUME NEW s \in AllSeries, NEW n \in 1..TotalSamples(s), Checkpoint(s, n)
          PROVE  UNCHANGED <<balance, lockedQuote, series, aqua, stack, advance>>
      BY <3>2 DEF Checkpoint, Call, ledger, VaultUnchanged
    <3>3. ASSUME NEW s \in AllSeries, NEW h \in Holders, NEW u \in UnitAmounts,
                 NEW to \in Accounts, ReceiptTransfer(s, h, to, u)
          PROVE  UNCHANGED <<balance, lockedQuote, series, aqua, stack, advance>>
      BY <3>3 DEF ReceiptTransfer, Call, ledger, VaultUnchanged
    <3> QED
      BY <1>3, <3>1, <3>2, <3>3 DEF Elsewhere
  <2> QED
    BY <1>1, <2>1, IdleSound
<1> QED
  BY <1>2, <1>3

\* The calls that change one series outside swaps.
SeriesChange(s) ==
    \/ CreateSeries(s)
    \/ \E v \in Variances : Finalize(s, v)
    \/ StopIssuance(s)
    \/ CloseSeries(s)
    \/ \E h \in Holders, u \in UnitAmounts : BurnWorthless(s, h, u)

LEMMA SeriesChangeSound ==
    ASSUME Sound, NEW s \in AllSeries, SeriesChange(s)
    PROVE  Sound' /\ UNCHANGED stack
<1>1. UNCHANGED stack
  BY DEF SeriesChange, CreateSeries, Finalize, StopIssuance, CloseSeries, BurnWorthless, Call
<1>2. UnitAmounts \subseteq Nat
  BY InputsAssumption
<1> QED
  BY SMTT(30), <1>1, <1>2, CreateSeriesSound, FinalizeSound, StopIssuanceSound, CloseSeriesSound,
     BurnWorthlessSound DEF SeriesChange

LEMMA NextCases ==
    ASSUME [Next]_vars
    PROVE  \/ Elsewhere
           \/ \E s \in AllSeries : SeriesChange(s)
           \/ \E s \in AllSeries, h \in Holders, inFirst \in BOOLEAN : SwapCall(s, h, inFirst)
           \/ TransferIn
           \/ TransferOut
           \/ Revert
  BY DEF Next, Elsewhere, SeriesChange, SeriesCall, HolderCall

LEMMA NextSound ==
    ASSUME Sound, Framed, [Next]_vars
    PROVE  Sound' /\ Framed'
<1>1. UNCHANGED stack => Framed'
  BY FramedPrime DEF Framed
<1>2. CASE Elsewhere
  BY <1>1, <1>2, ElsewhereSound
<1>3. CASE \E s \in AllSeries : SeriesChange(s)
  BY <1>1, <1>3, SeriesChangeSound
<1>4. CASE \E s \in AllSeries, h \in Holders, inFirst \in BOOLEAN : SwapCall(s, h, inFirst)
  BY <1>4, SwapCalls, SwapIssueSound, SwapPayoutSound
<1>5. CASE TransferIn
  BY <1>5, TransferInSound
<1>6. CASE TransferOut
  BY <1>6, TransferOutSound
<1>7. CASE Revert
  BY <1>7, RevertSound
<1> QED
  BY <1>2, <1>3, <1>4, <1>5, <1>6, <1>7, NextCases

LEMMA InitSound == Init => Sound /\ Framed
<1> SUFFICES ASSUME Init PROVE Sound /\ Framed
  OBVIOUS
<1>1. /\ balance = 0 /\ lockedQuote = 0 /\ advance = 0 /\ stack = << >>
      /\ series = [s \in AllSeries |-> NoSeries]
      /\ aqua = [s \in AllSeries |-> [k \in Kinds |-> Docked]]
  BY DEF Init
<1>2. NoSeries \in SeriesState /\ ~NoSeries.finalized
      /\ NoSeries.outstandingUnits = 0 /\ NoSeries.lockedLiability = 0
  BY DEF NoSeries, SeriesState
<1>3. Reserved(series)
  <2>1. SUFFICES ASSUME NEW s \in AllSeries PROVE series[s].lockedLiability = Owed(s, series[s])
    BY DEF Reserved
  <2>2. series[s] = NoSeries
    BY <1>1
  <2> QED
    BY <1>2, <2>2, NoLiability DEF Owed
<1>4. Docked \in Int
  BY DEF Docked
<1>5. SumFunction(Locks(series)) = 0
  <2>1. \A s \in AllSeries : Locks(series)[s] = 0
    BY <1>1, <1>2 DEF Locks
  <2>2. Locks(series) \in [AllSeries -> Int]
    BY <2>1 DEF Locks
  <2> QED
    BY <2>1, <2>2, SeriesAssumption, SumZero
<1>6. Sound
  BY <1>1, <1>2, <1>3, <1>4, <1>5 DEF Sound, Ledger
<1>7. stack \in Seq(Frames({}))
  BY <1>1
<1> QED
  BY <1>6, <1>7 DEF Framed

LEMMA SoundAlways == Spec => [](Sound /\ Framed)
<1>1. Sound /\ Framed /\ [Next]_vars => Sound' /\ Framed'
  BY NextSound
<1> QED
  BY <1>1, InitSound, PTL DEF Spec

\* The lock a series holds covers its outstanding units at every variance its
\* window may end with, and is exactly their worth once it has: finalize never
\* finds less reserved than is owed.
THEOREM ReservesTheorem == Spec => []ReserveCoversClaims
<1>1. Sound => ReserveCoversClaims
  <2> SUFFICES ASSUME Sound, NEW s \in AllSeries
               PROVE  IF series[s].finalized
                      THEN series[s].lockedLiability
                             = FinalLiability(series[s].outstandingUnits,
                                              series[s].payoutPerUnit)
                      ELSE \A v \in Variances :
                             FinalLiability(series[s].outstandingUnits,
                                            PayoutPerUnit(v, Params[s].cap,
                                                          Params[s].notional))
                                 <= series[s].lockedLiability
    BY DEF ReserveCoversClaims
  <2>1. series[s].outstandingUnits \in Nat
        /\ series[s].lockedLiability = Owed(s, series[s])
    BY SeriesFields
  <2>2. CASE series[s].finalized
    BY <2>1, <2>2 DEF Owed
  <2>3. ASSUME ~series[s].finalized, NEW v \in Variances
        PROVE  FinalLiability(series[s].outstandingUnits,
                              PayoutPerUnit(v, Params[s].cap, Params[s].notional))
                    <= series[s].lockedLiability
    <3>1. series[s].lockedLiability
            = MaxLiability(series[s].outstandingUnits, Params[s].notional, Params[s].cap)
      BY <2>1, <2>3 DEF Owed, Liability
    <3>2. v \in Nat /\ Params[s].cap \in Nat /\ Params[s].notional \in Nat
      BY InputsAssumption, ParamTypes
    <3> QED
      BY <2>1, <3>1, <3>2, ReserveCoversVariance
  <2> QED
    BY <2>2, <2>3
<1> QED
  BY <1>1, SoundAlways, PTL

\* closeSeries releases nothing: no rounding is ever left locked in a series
\* without outstanding units.
THEOREM NoResidual ==
    Spec => [][\A s \in AllSeries : CloseSeries(s) => UNCHANGED lockedQuote]_vars
<1>1. Sound => [\A s \in AllSeries : CloseSeries(s) => UNCHANGED lockedQuote]_vars
  BY CloseSeriesSound
<1> QED
  BY <1>1, SoundAlways, PTL

\* What the vault keeps locked is, to the base unit, what its series have
\* reserved, through every fill, burn, finalization, closing and revert.
THEOREM SeriesLockTheorem == Spec => []LockedIsReserved
<1>1. Sound => LockedIsReserved
  BY DEF Sound, Ledger, Locks, LockedIsReserved
<1> QED
  BY <1>1, SoundAlways, PTL

-----------------------------------------------------------------------------
(* Solvency *)

LEMMA SolventInFlightParts ==
    SolventInFlight <=> balance + advance >= lockedQuote /\ Chained(stack, advance)
  BY DEF SolventInFlight

LEMMA SolventInFlightPartsPrime ==
    SolventInFlight' <=>
        balance' + advance' >= lockedQuote' /\ Chained(stack', advance')
  BY DEF SolventInFlight, Chained, Ahead

LEMMA AdvanceNat ==
    ASSUME QuietAfterBurn, Sound, Framed, SolventInFlight, Callable
    PROVE  advance >= 0
<1>1. PICK S : (\A v \in S : Saved(v)) /\ stack \in Seq(Frames(S))
  BY DEF Framed
<1>2. \A f \in Frames(S) : FrameShape(f)
  BY <1>1, FramesShaped
<1> QED
  BY <1>1, <1>2, SolventInFlightParts, CallableAhead

\* A call that leaves the swaps in flight alone, and leaves the vault solvent
\* or no worse off.
LEMMA QuietStep ==
    ASSUME QuietAfterBurn, Sound, Framed, SolventInFlight, Sound',
           UNCHANGED <<stack, advance>>,
           \/ balance' - lockedQuote' >= balance - lockedQuote
           \/ Callable /\ balance' >= lockedQuote'
    PROVE  SolventInFlight'
<1>1. balance + advance >= lockedQuote /\ Chained(stack, advance)
  BY SolventInFlightParts
<1>2. /\ balance \in Int /\ lockedQuote \in Int /\ advance \in Int
      /\ balance' \in Int /\ lockedQuote' \in Int
  BY SoundPrime DEF Sound, Ledger
<1>3. Callable => advance >= 0
  BY AdvanceNat
<1>4. balance' + advance >= lockedQuote'
  BY <1>1, <1>2, <1>3, Slack
<1>5. Chained(stack', advance')
  BY <1>1
<1> QED
  BY <1>4, <1>5, SolventInFlightPartsPrime

\* A swap that is priced, and at most raises the lock within the balance.
LEMMA EnterStep ==
    ASSUME QuietAfterBurn, Sound, Framed, SolventInFlight, Callable, Sound',
           NEW s \in AllSeries, NEW kind \in Kinds, NEW h \in Holders,
           NEW in \in Nat, NEW out \in Nat, NEW inFirst \in BOOLEAN,
           EnterSwap(Frame(s, kind, h, in, out, inFirst)),
           UNCHANGED <<balance, advance>>,
           lockedQuote' = lockedQuote \/ balance' >= lockedQuote'
    PROVE  SolventInFlight'
<1> DEFINE f == Frame(s, kind, h, in, out, inFirst)
<1>1. /\ balance \in Int /\ lockedQuote \in Int /\ advance \in Int
      /\ balance + advance >= lockedQuote /\ Chained(stack, advance)
  BY SolventInFlightParts DEF Sound, Ledger
<1>2. advance >= 0
  BY AdvanceNat
<1>3. PICK S : stack \in Seq(Frames(S)) /\ f \in Frames(S)
  BY EnterFramed
<1>4. /\ f.saved.advance = advance /\ f.saved.balance = balance
      /\ f.saved.lockedQuote = lockedQuote
      /\ Ahead(f) = 0
      /\ stack' = Append(stack, f)
  BY DEF Frame, Snapshot, Ahead, EnterSwap
<1> HIDE DEF f
<1>5. Chained(stack', advance')
  BY <1>1, <1>2, <1>3, <1>4, ChainPush
<1>6. balance' + advance' >= lockedQuote'
  <2>1. lockedQuote' \in Int /\ balance' = balance /\ advance' = advance
    BY SoundPrime DEF Ledger
  <2> QED
    BY <1>1, <1>2, <2>1
<1> QED
  BY <1>5, <1>6, SolventInFlightPartsPrime

\* A transfer that accounts for what it paid or burned.
LEMMA TransferStep ==
    ASSUME Framed, SolventInFlight, stack # << >>, TransferDone,
           balance' + advance' >= lockedQuote',
           advance' = Top.saved.advance
                        + (IF Top.stage = "first"
                           THEN Ahead([Top EXCEPT !.stage = "second"]) ELSE 0)
    PROVE  SolventInFlight'
<1>1. PICK S : (\A v \in S : Saved(v)) /\ stack \in Seq(Frames(S))
  BY DEF Framed
<1>2. Top \in Frames(S)
  BY <1>1, ButLast DEF Top
<1>3. /\ FrameShape(Top)
      /\ [Top EXCEPT !.stage = "second"] \in Frames(S)
      /\ [Top EXCEPT !.stage = "second"].saved = Top.saved
  BY <1>1, <1>2, FramesShaped
<1>4. Chained(stack', advance')
  BY <1>1, <1>3, SolventInFlightParts, TransferChained
<1> QED
  BY <1>4, SolventInFlightPartsPrime

\* The innermost frame, what it saved and what it stands for.
LEMMA TopFrame ==
    ASSUME Framed, SolventInFlight, stack # << >>
    PROVE  LET f == [Top EXCEPT !.stage = "second"] IN
           /\ FrameShape(Top)
           /\ Top.saved.balance + Top.saved.advance >= Top.saved.lockedQuote
           /\ Top.saved.advance + Ahead(Top) = advance
           /\ f.kind = Top.kind /\ f.inFirst = Top.inFirst
           /\ f.amountOut = Top.amountOut /\ f.stage = "second"
<1>1. PICK S : (\A v \in S : Saved(v)) /\ stack \in Seq(Frames(S))
  BY DEF Framed
<1>2. /\ Top \in Frames(S)
      /\ Top.saved.balance + Top.saved.advance >= Top.saved.lockedQuote
      /\ Top.saved.advance + Ahead(Top) = advance
  BY <1>1, SolventInFlightParts, ChainTop DEF Top
<1> QED
  BY <1>1, <1>2, FramesShaped DEF Frames

LEMMA TransferInSolvent ==
    ASSUME Sound, Framed, SolventInFlight, TransferIn
    PROVE  SolventInFlight'
<1> DEFINE f == [Top EXCEPT !.stage = "second"]
<1>1. stack # << >> /\ TransferDone /\ (Top.inFirst <=> Top.stage = "first")
  BY DEF TransferIn, TransferInNext
<1>2. /\ FrameShape(Top) /\ Top.saved.advance + Ahead(Top) = advance
      /\ f.kind = Top.kind /\ f.stage = "second" /\ f.inFirst = Top.inFirst
      /\ f.amountOut = Top.amountOut
  BY <1>1, TopFrame
<1>3. /\ Top.amountIn \in Nat /\ Top.amountOut \in Nat /\ Top.kind \in Kinds
      /\ Top.stage \in {"first", "second"} /\ Top.inFirst \in BOOLEAN
      /\ Top.saved.advance \in Int
  BY <1>2 DEF FrameShape
<1>4. /\ balance \in Int /\ lockedQuote \in Int /\ advance \in Int
      /\ balance + advance >= lockedQuote
  BY SolventInFlightParts DEF Sound, Ledger
<1>5. CASE Top.kind = "ISSUE" /\ Pushed(Top.amountIn) /\ UNCHANGED advance
  <2>1. balance' + advance' >= lockedQuote'
    <3>1. /\ balance' = balance + Top.amountIn
          /\ lockedQuote' = lockedQuote /\ advance' = advance
      BY <1>5 DEF Pushed
    <3>2. (balance + Top.amountIn) + advance >= lockedQuote
      BY <1>3, <1>4
    <3> QED
      BY <3>1, <3>2
  <2>2. Ahead(Top) = 0 /\ Ahead(f) = 0
    BY <1>2, <1>5 DEF Ahead
  <2>3. advance' = Top.saved.advance + (IF Top.stage = "first" THEN Ahead(f) ELSE 0)
    BY <1>2, <1>3, <1>5, <2>2
  <2> QED
    BY <1>1, <2>1, <2>3, TransferStep
<1>6. CASE /\ Top.kind # "ISSUE"
           /\ OnBurn(Top.group, Top.kind, Top.amountIn, Top.amountOut)
           /\ UNCHANGED aqua
           /\ advance' = advance - Top.amountOut
  <2>1. Top.kind \in {"EXIT", "SETTLE"} /\ Top.group \in AllSeries /\ advance' \in Int
    BY <1>1, <1>3, <1>4, <1>6, TransferFramed DEF Kinds
  <2>2. Sound' /\ UNCHANGED balance /\ lockedQuote' + Top.amountOut <= lockedQuote
    BY <1>3, <1>6, <2>1, OnBurnSound
  <2>3. balance' + advance' >= lockedQuote'
    <3>1. lockedQuote' \in Int
      BY <2>2, SoundPrime DEF Ledger
    <3>2. balance' = balance /\ advance' = advance - Top.amountOut
      BY <1>6, <2>2
    <3>3. balance + (advance - Top.amountOut) >= lockedQuote'
      BY <3>1, <1>3, <1>4, <2>2
    <3> QED
      BY <3>2, <3>3
  <2>4. CASE Top.stage = "first"
    <3>1. Ahead(Top) = 0 /\ Ahead(f) = -Top.amountOut
      BY <1>1, <1>2, <1>6, <2>4 DEF Ahead
    <3>2. advance' = Top.saved.advance + Ahead(f)
      BY <1>2, <1>3, <1>6, <3>1
    <3> QED
      BY <1>1, <2>3, <2>4, <3>2, TransferStep
  <2>5. CASE Top.stage = "second"
    <3>1. Ahead(Top) = Top.amountOut
      BY <1>1, <1>6, <2>5 DEF Ahead
    <3>2. advance' = Top.saved.advance + 0
      BY <1>2, <1>3, <1>6, <3>1
    <3> QED
      BY <1>1, <2>3, <2>5, <3>2, TransferStep
  <2> QED
    BY <1>3, <2>4, <2>5
<1> QED
  BY <1>5, <1>6 DEF TransferIn

LEMMA TransferOutSolvent ==
    ASSUME Sound, Framed, SolventInFlight, TransferOut
    PROVE  SolventInFlight'
<1> DEFINE f == [Top EXCEPT !.stage = "second"]
<1>1. stack # << >> /\ TransferDone /\ (Top.inFirst <=> Top.stage = "second")
  BY DEF TransferOut, TransferOutNext
<1>2. /\ FrameShape(Top) /\ Top.saved.advance + Ahead(Top) = advance
      /\ f.kind = Top.kind /\ f.stage = "second" /\ f.inFirst = Top.inFirst
      /\ f.amountOut = Top.amountOut
  BY <1>1, TopFrame
<1>3. /\ Top.amountOut \in Nat /\ Top.stage \in {"first", "second"}
      /\ Top.inFirst \in BOOLEAN /\ Top.saved.advance \in Int
  BY <1>2 DEF FrameShape
<1>4. /\ balance \in Int /\ lockedQuote \in Int /\ advance \in Int
      /\ balance + advance >= lockedQuote
  BY SolventInFlightParts DEF Sound, Ledger
<1>5. CASE Top.kind = "ISSUE" /\ VaultUnchanged /\ UNCHANGED advance
  <2>1. balance' + advance' >= lockedQuote'
    BY <1>4, <1>5 DEF VaultUnchanged
  <2>2. Ahead(Top) = 0 /\ Ahead(f) = 0
    BY <1>2, <1>5 DEF Ahead
  <2>3. advance' = Top.saved.advance + (IF Top.stage = "first" THEN Ahead(f) ELSE 0)
    BY <1>2, <1>3, <1>5, <2>2
  <2> QED
    BY <1>1, <2>1, <2>3, TransferStep
<1>6. CASE /\ Top.kind # "ISSUE"
           /\ Pulled(Top.amountOut)
           /\ advance' = advance + Top.amountOut
  <2>1. balance' + advance' >= lockedQuote'
    <3>1. /\ balance' = balance - Top.amountOut
          /\ lockedQuote' = lockedQuote
          /\ advance' = advance + Top.amountOut
      BY <1>6 DEF Pulled
    <3>2. (balance - Top.amountOut) + (advance + Top.amountOut) = balance + advance
      BY <1>3, <1>4
    <3> QED
      BY <3>1, <3>2, <1>4
  <2>2. CASE Top.stage = "first"
    <3>1. Ahead(Top) = 0 /\ Ahead(f) = Top.amountOut
      BY <1>1, <1>2, <1>6, <2>2 DEF Ahead
    <3>2. advance' = Top.saved.advance + Ahead(f)
      BY <1>2, <1>3, <1>6, <3>1
    <3> QED
      BY <1>1, <2>1, <2>2, <3>2, TransferStep
  <2>3. CASE Top.stage = "second"
    <3>1. Ahead(Top) = -Top.amountOut
      BY <1>1, <1>6, <2>3 DEF Ahead
    <3>2. advance' = Top.saved.advance + 0
      BY <1>2, <1>3, <1>6, <3>1
    <3> QED
      BY <1>1, <2>1, <2>3, <3>2, TransferStep
  <2> QED
    BY <1>3, <2>2, <2>3
<1> QED
  BY <1>5, <1>6 DEF TransferOut

LEMMA RevertSolvent ==
    ASSUME Framed, SolventInFlight, Revert
    PROVE  SolventInFlight'
<1>1. PICK S : stack \in Seq(Frames(S)) /\ stack # << >> /\ Chained(stack, advance)
  BY SolventInFlightParts DEF Framed, Revert
<1>2. Top.saved.balance + Top.saved.advance >= Top.saved.lockedQuote
  BY <1>1, ChainTop DEF Top
<1>3. Chained(Below, Top.saved.advance)
  BY <1>1, ChainPop DEF Top, Below
<1> QED
  BY <1>2, <1>3, SolventInFlightPartsPrime DEF Revert

LEMMA SwapSolvent ==
    ASSUME QuietAfterBurn, Sound, Framed, SolventInFlight,
           NEW s \in AllSeries, NEW h \in Holders, NEW inFirst \in BOOLEAN,
           SwapCall(s, h, inFirst)
    PROVE  SolventInFlight'
<1>1. ASSUME NEW ask \in Nat, NEW exactIn \in BOOLEAN, NEW a \in Nat,
             SwapIssue(s, h, ask, exactIn, a, inFirst)
      PROVE  SolventInFlight'
  <2>1. /\ Callable /\ Sound' /\ balance' >= lockedQuote'
        /\ UNCHANGED <<balance, advance>>
        /\ \E in \in Nat, out \in Nat : EnterSwap(Frame(s, "ISSUE", h, in, out, inFirst))
    BY <1>1, SwapIssueSound DEF SwapIssue, CanSwap
  <2> QED
    BY <2>1, EnterStep DEF Kinds
<1>2. ASSUME NEW kind \in {"EXIT", "SETTLE"}, NEW in \in Nat, NEW paid \in Nat,
             SwapPayout(s, kind, h, in, paid, inFirst)
      PROVE  SolventInFlight'
  <2>1. /\ Callable /\ EnterSwap(Frame(s, kind, h, in, paid, inFirst))
        /\ UNCHANGED <<balance, advance>> /\ lockedQuote' = lockedQuote
    BY <1>2 DEF SwapPayout, CanSwap, chain
  <2>2. Sound' /\ kind \in Kinds
    BY <1>2, SwapPayoutSound DEF Kinds
  <2> QED
    BY <2>1, <2>2, EnterStep
<1> QED
  BY <1>1, <1>2, SwapCalls

LEMMA ElsewhereSolvent ==
    ASSUME QuietAfterBurn, Sound, Framed, SolventInFlight, Elsewhere
    PROVE  SolventInFlight'
<1>1. Sound' /\ UNCHANGED <<stack, lockedQuote, advance>>
  BY ElsewhereSound
<1>2. /\ balance \in Int /\ lockedQuote \in Int /\ Deposits \subseteq Nat
  BY InputsAssumption DEF Sound, Ledger
<1>3. CASE \E a \in Deposits : VaultDeposit(a) \/ VaultWithdrawFree(a)
  <2>1. PICK a \in Deposits : VaultDeposit(a) \/ VaultWithdrawFree(a)
    BY <1>3
  <2>2. balance' = balance + a \/ (Callable /\ balance' >= lockedQuote')
    BY <2>1 DEF VaultDeposit, VaultWithdrawFree, Deposit, WithdrawFree, AssertSolvent, Call
  <2>3. balance' = balance + a => balance' - lockedQuote' >= balance - lockedQuote
    BY <1>1, <1>2
  <2> QED
    BY <1>1, <2>2, <2>3, QuietStep
<1>4. CASE ~\E a \in Deposits : VaultDeposit(a) \/ VaultWithdrawFree(a)
  <2>1. UNCHANGED balance
    BY ZenonT(60), <1>4 DEF Elsewhere, CreateVault, Tick, Checkpoint, ReceiptTransfer, vars,
                chain, VaultUnchanged
  <2>2. balance' - lockedQuote' >= balance - lockedQuote
    BY <1>1, <1>2, <2>1
  <2> QED
    BY <1>1, <2>2, QuietStep
<1> QED
  BY <1>3, <1>4

LEMMA SeriesChangeSolvent ==
    ASSUME QuietAfterBurn, Sound, Framed, SolventInFlight,
           NEW s \in AllSeries, SeriesChange(s)
    PROVE  SolventInFlight'
<1>1. Sound' /\ UNCHANGED stack
  BY SeriesChangeSound
<1>2. balance \in Int /\ lockedQuote \in Int
  BY SMTT(30) DEF Sound, Ledger
<1>3. UNCHANGED advance
  BY DEF SeriesChange, CreateSeries, Finalize, StopIssuance, CloseSeries, BurnWorthless
<1>4. CASE CloseSeries(s)
  <2>1. UNCHANGED <<balance, lockedQuote>>
    BY <1>4, CloseSeriesSound DEF CloseSeries, DecreaseLocked, VaultUnchanged
  <2>2. balance' - lockedQuote' >= balance - lockedQuote
    BY <1>2, <2>1
  <2> QED
    BY <1>1, <1>3, <2>2, QuietStep
<1>5. CASE \E v \in Variances : Finalize(s, v)
  <2>1. Callable /\ (VaultUnchanged \/ balance' >= lockedQuote')
    BY <1>5 DEF Finalize, Call, DecreaseLocked, AssertSolvent
  <2>2. VaultUnchanged => balance' - lockedQuote' >= balance - lockedQuote
    BY <1>2 DEF VaultUnchanged
  <2> QED
    BY <1>1, <1>3, <2>1, <2>2, QuietStep
<1>6. CASE VaultUnchanged
  <2>1. balance' - lockedQuote' >= balance - lockedQuote
    BY <1>2, <1>6 DEF VaultUnchanged
  <2> QED
    BY <1>1, <1>3, <2>1, QuietStep
<1> QED
  BY <1>4, <1>5, <1>6 DEF SeriesChange, CreateSeries, StopIssuance, BurnWorthless

LEMMA NextSolvent ==
    ASSUME QuietAfterBurn, Sound, Framed, SolventInFlight, [Next]_vars
    PROVE  SolventInFlight'
  BY NextCases, ElsewhereSolvent, SeriesChangeSolvent, SwapSolvent, TransferInSolvent,
     TransferOutSolvent, RevertSolvent

\* While swaps are in flight a v2 vault is short by no more than they have paid
\* ahead of their burns, and once they are over it covers its lock, if no taker
\* is called back between a burn and its payment.
THEOREM SolventAlways ==
    ASSUME QuietAfterBurn
    PROVE  Spec => []SolventInFlight
<1>1. Init => SolventInFlight
  BY DEF Init, SolventInFlight, Chained
<1>2. Sound /\ Framed /\ SolventInFlight /\ [Next]_vars => SolventInFlight'
  BY NextSolvent
<1> QED
  BY <1>1, <1>2, SoundAlways, PTL DEF Spec

-----------------------------------------------------------------------------
(***************************************************************************)
(* Claims.  Once a series is final, whatever its holders have settles in   *)
(* full.  The invariant relates receipts, outstanding units and what Aqua  *)
(* may still pay, given what the swaps in flight have done by halves, in   *)
(* every state and in what every revert restores.                          *)
(***************************************************************************)

\* What the holders have of a series: the vault's inventory is no claim.
Held(balances) == SumFunction([h \in Holders |-> balances[h]])

\* What Aqua must still be able to pay: a series that may yet be sold out can
\* cost its whole supply at the cap.
MayCost(s, r) == IF r.finalized THEN r.lockedLiability ELSE Liability(s, Params[s].maxUnits)

\* issue and settle are what is pending of the series' two orders.
SeriesClaims(s, r, balances, orders, issue, settle) ==
    /\ ~r.created => ~r.finalized /\ orders["SETTLE"] = Docked
    /\ orders["SETTLE"] = Docked => r.outstandingUnits = 0 /\ orders["ISSUE"] = Docked
    /\ Held(balances) + issue <= r.outstandingUnits
    /\ r.outstandingUnits <= Params[s].maxUnits
    /\ orders["ISSUE"] # Docked =>
        r.outstandingUnits - issue + orders["ISSUE"] <= Params[s].maxUnits
    /\ orders["SETTLE"] # Docked => orders["SETTLE"] + settle >= MayCost(s, r)

\* A settlement in flight is of a final series.
FrameClaims(ser, f) ==
    /\ ser[f.group].created
    /\ f.kind = "SETTLE" => ser[f.group].finalized

Balances == [AllSeries -> [Accounts -> Nat]]

\* The claims stand with the first n swaps of stk in flight.
ClaimsHold(ser, rec, aq, stk, n) ==
    /\ rec \in Balances
    /\ \A s \in AllSeries :
        SeriesClaims(s, ser[s], rec[s], aq[s], Pending(stk, n, s, "ISSUE", "VAR"),
                     Pending(stk, n, s, "SETTLE", "VAR"))
    /\ \A i \in 1..n : FrameClaims(ser, stk[i])

\* So they do now, and so they did when each swap in flight began.
ClaimsKept ==
    /\ OneSwapPerOrder
    /\ ClaimsHold(series, receipts, aqua, stack, Len(stack))
    /\ \A i \in 1..Len(stack) :
        ClaimsHold(stack[i].saved.series, stack[i].saved.receipts, stack[i].saved.aqua,
                   stack, i - 1)


LEMMA ClaimsKeptPrime ==
    ClaimsKept' <=>
        /\ OneSwapPerOrder'
        /\ ClaimsHold(series', receipts', aqua', stack', Len(stack'))
        /\ \A i \in 1..Len(stack') :
            ClaimsHold(stack'[i].saved.series, stack'[i].saved.receipts,
                       stack'[i].saved.aqua, stack', i - 1)
  BY DEF ClaimsKept, ClaimsHold, SeriesClaims, FrameClaims, Balances, Held, MayCost, Liability,
         Pending, Half, Ahead, Of

LEMMA HoldPrefix ==
    ASSUME NEW ser, NEW rec, NEW aq, NEW stk, NEW t, NEW n, \A i \in 1..n : stk[i] = t[i],
           ClaimsHold(ser, rec, aq, stk, n)
    PROVE  ClaimsHold(ser, rec, aq, t, n)
<1>1. \A s, kind : Pending(stk, n, s, kind, "VAR") = Pending(t, n, s, kind, "VAR")
  BY PendingPrefix
<1> QED
  BY <1>1 DEF ClaimsHold

(* What the holders have *)

LEMMA HeldSame ==
    ASSUME NEW b, NEW c, \A h \in Holders : c[h] = b[h]
    PROVE  Held(c) = Held(b)
<1>1. [h \in Holders |-> c[h]] = [h \in Holders |-> b[h]]
  OBVIOUS
<1> QED
  BY <1>1 DEF Held

LEMMA HeldNat ==
    ASSUME NEW b \in [Accounts -> Nat]
    PROVE  Held(b) \in Nat /\ \A h \in Holders : b[h] <= Held(b)
<1> DEFINE f == [h \in Holders |-> b[h]]
<1>1. IsFiniteSet(Holders) /\ f \in [Holders -> Nat] /\ \A h \in Holders : f[h] = b[h]
  BY HoldersAssumption DEF Accounts
<1>2. Held(b) = SumFunction(f)
  BY DEF Held
<1> HIDE DEF f
<1>3. \A h \in Holders : f[h] <= SumFunction(f)
  BY <1>1, SumBound
<1>4. SumFunction(f) \in Nat
  <2>1. DOMAIN f = Holders /\ \A h \in Holders : f[h] \in Nat
    BY <1>1
  <2> QED
    BY <1>1, <2>1, SumNonNegative DEF SumFunction
<1> QED
  BY <1>1, <1>2, <1>3, <1>4

\* One holder's balance changes.
LEMMA HeldMoves ==
    ASSUME NEW b \in [Accounts -> Nat], NEW c \in [Accounts -> Nat], NEW h \in Holders,
           \A x \in Holders \ {h} : c[x] = b[x]
    PROVE  Held(c) = Held(b) + (c[h] - b[h])
<1> DEFINE f == [x \in Holders |-> b[x]]
           e == [x \in Holders |-> c[x]]
<1>1. /\ IsFiniteSet(Holders) /\ f \in [Holders -> Int] /\ e \in [Holders -> Int]
      /\ \A x \in Holders \ {h} : e[x] = f[x]
      /\ f[h] = b[h] /\ e[h] = c[h]
  BY HoldersAssumption DEF Accounts
<1>2. Held(b) = SumFunction(f) /\ Held(c) = SumFunction(e)
  BY DEF Held
<1> HIDE DEF f, e
<1>3. SumFunction(e) = SumFunction(f) + (e[h] - f[h])
  BY <1>1, SumExcept
<1> QED
  BY <1>1, <1>2, <1>3

\* A transfer from a holder leaves the holders with no more.
LEMMA HeldTransfer ==
    ASSUME NEW b \in [Accounts -> Nat], NEW h \in Holders, NEW to \in Accounts, h # to,
           NEW u \in Nat, u <= b[h], NEW c, c = [b EXCEPT ![h] = @ - u, ![to] = @ + u]
    PROVE  c \in [Accounts -> Nat] /\ Held(c) <= Held(b)
<1> DEFINE mid == [b EXCEPT ![h] = @ - u]
<1>1. h \in Accounts /\ b[h] \in Nat /\ b[to] \in Nat
  BY DEF Accounts
<1>2. /\ mid \in [Accounts -> Nat] /\ mid[h] = b[h] - u
      /\ \A x \in Accounts \ {h} : mid[x] = b[x]
  BY <1>1
<1>3. /\ c \in [Accounts -> Nat] /\ c[to] = b[to] + u
      /\ \A x \in Accounts \ {to} : c[x] = mid[x]
  BY <1>1
<1> HIDE DEF mid
<1>4. Held(mid) = Held(b) + (mid[h] - b[h])
  BY <1>2, HeldMoves DEF Accounts
<1>5. Held(b) \in Nat
  BY HeldNat
<1>6. Held(mid) = Held(b) - u
  BY <1>1, <1>2, <1>4, <1>5
<1>7. CASE to \in Holders
  <2>1. Held(c) = Held(mid) + (c[to] - mid[to])
    BY <1>2, <1>3, <1>7, HeldMoves DEF Accounts
  <2>2. mid[to] = b[to]
    BY <1>2
  <2>3. c[to] - mid[to] = u
    BY <1>1, <1>3, <2>2
  <2> QED
    BY <1>3, <1>5, <1>6, <2>1, <2>3
<1>8. CASE to \notin Holders
  <2>1. \A x \in Holders : c[x] = mid[x]
    BY <1>3, <1>8 DEF Accounts
  <2>2. Held(c) = Held(mid)
    BY <2>1, HeldSame
  <2> QED
    BY <1>3, <1>5, <1>6, <2>2
<1> QED
  BY <1>7, <1>8


(* What a step does to the swaps in flight *)

\* The claims of a series stand after the step, with issue and settle pending.
ClaimsAfter(s, issue, settle) ==
    SeriesClaims(s, series'[s], receipts'[s], aqua'[s], issue, settle)

ClaimsNow(s) ==
    SeriesClaims(s, series[s], receipts[s], aqua[s], Now(s, "ISSUE", "VAR"),
                 Now(s, "SETTLE", "VAR"))

\* The step leaves what a series' claims are made of alone.
Untouched(s) ==
    series'[s] = series[s] /\ receipts'[s] = receipts[s] /\ aqua'[s] = aqua[s]

\* No series is ever uncreated or reopened.
SeriesLive ==
    \A s \in AllSeries :
        /\ series[s].created => series'[s].created
        /\ series[s].finalized => series'[s].finalized

\* The swaps in flight are frames, and nothing but frames.
LEMMA StackShaped ==
    ASSUME Framed
    PROVE  \E S : /\ stack \in Seq(S)
                  /\ \A f \in S :
                        /\ FrameShape(f) /\ f.group \in AllSeries /\ f.taker \in Holders
                        /\ f.side = "VAR"
                        /\ [f EXCEPT !.stage = "second"] \in S
                        /\ [f EXCEPT !.stage = "second"].inFirst = f.inFirst
                        /\ [f EXCEPT !.stage = "second"].stage = "second"
                        /\ SameSwap([f EXCEPT !.stage = "second"], f)
<1>1. PICK R : (\A v \in R : Saved(v)) /\ stack \in Seq(Frames(R))
  BY DEF Framed
<1>2. ASSUME NEW f \in Frames(R)
      PROVE  /\ FrameShape(f) /\ f.group \in AllSeries /\ f.taker \in Holders
             /\ f.side = "VAR"
             /\ [f EXCEPT !.stage = "second"] \in Frames(R)
             /\ [f EXCEPT !.stage = "second"].inFirst = f.inFirst
             /\ [f EXCEPT !.stage = "second"].stage = "second"
             /\ SameSwap([f EXCEPT !.stage = "second"], f)
  <2>1. FrameShape(f)
    BY <1>1, FramesShaped
  <2> QED
    BY <2>1 DEF Frames, SameSwap
<1> QED
  BY <1>1, <1>2

\* What is pending of a series' two orders.
LEMMA PendingNow ==
    ASSUME Framed, NEW s
    PROVE  Now(s, "ISSUE", "VAR") \in Nat /\ Now(s, "SETTLE", "VAR") \in Int
<1>1. PICK S : stack \in Seq(S) /\ \A f \in S : FrameShape(f)
  BY StackShaped
<1>2. Len(stack) \in 0..Len(stack)
  BY <1>1
<1> QED
  BY <1>1, <1>2, PendingType DEF Now

LEMMA ClaimsEach ==
    ASSUME ClaimsKept
    PROVE  /\ OneSwapPerOrder /\ receipts \in Balances
           /\ \A s \in AllSeries : ClaimsNow(s)
           /\ \A i \in 1..Len(stack) : FrameClaims(series, stack[i])
  BY DEF ClaimsKept, ClaimsHold, ClaimsNow, Now

LEMMA FramesLive ==
    ASSUME Framed, ClaimsKept, SeriesLive
    PROVE  \A i \in 1..Len(stack) : FrameClaims(series', stack[i])
<1>1. PICK S : stack \in Seq(S) /\ \A f \in S : f.group \in AllSeries
  BY StackShaped
<1>2. \A i \in 1..Len(stack) : stack[i].group \in AllSeries
  BY <1>1, ElementOfSeq
<1> QED
  BY <1>2, ClaimsEach DEF FrameClaims, SeriesLive

LEMMA UntouchedClaims ==
    ASSUME NEW s, Untouched(s), NEW issue, NEW settle,
           SeriesClaims(s, series[s], receipts[s], aqua[s], issue, settle)
    PROVE  ClaimsAfter(s, issue, settle)
  BY DEF Untouched, ClaimsAfter

\* A call outside the swaps' own transfers.
LEMMA CallKeeps ==
    ASSUME Framed, ClaimsKept, UNCHANGED stack, SeriesLive, receipts' \in Balances,
           \A s \in AllSeries :
               Untouched(s) \/ ClaimsAfter(s, Now(s, "ISSUE", "VAR"), Now(s, "SETTLE", "VAR"))
    PROVE  ClaimsKept'
<1>1. \A s \in AllSeries : ClaimsAfter(s, Now(s, "ISSUE", "VAR"), Now(s, "SETTLE", "VAR"))
  BY ClaimsEach, UntouchedClaims DEF ClaimsNow
<1>2. \A i \in 1..Len(stack) : FrameClaims(series', stack[i])
  BY FramesLive
<1>3. ClaimsHold(series', receipts', aqua', stack', Len(stack'))
  BY <1>1, <1>2 DEF ClaimsHold, ClaimsAfter, Now
<1>4. OneSwapPerOrder'
  BY DEF ClaimsKept, OneSwapPerOrder
<1>5. \A i \in 1..Len(stack') :
        ClaimsHold(stack'[i].saved.series, stack'[i].saved.receipts, stack'[i].saved.aqua,
                   stack', i - 1)
  BY DEF ClaimsKept
<1> QED
  BY <1>3, <1>4, <1>5, ClaimsKeptPrime

\* A swap begins.
LEMMA EnterKeeps ==
    ASSUME Framed, ClaimsKept, SeriesLive, receipts' \in Balances,
           NEW f, f.saved.series = series, f.saved.receipts = receipts, f.saved.aqua = aqua,
           EnterSwap(f), ~Locked(f.group, f.kind, f.side), FrameClaims(series', f),
           \A s \in AllSeries :
               ClaimsAfter(s, After(f, Half(f), s, "ISSUE", "VAR"),
                           After(f, Half(f), s, "SETTLE", "VAR"))
    PROVE  ClaimsKept'
<1> DEFINE n == Len(stack)
<1>1. /\ n \in Nat /\ Len(stack') = n + 1
      /\ stack'[n + 1] = f
      /\ \A i \in 1..n : stack'[i] = stack[i]
      /\ OneSwapPerOrder'
      /\ \A g, kind, s :
            Pending(stack', Len(stack'), g, kind, s) = After(f, Half(f), g, kind, s)
  <2>1. PICK S : stack \in Seq(S)
    BY StackShaped
  <2>2. OneSwapPerOrder
    BY DEF ClaimsKept
  <2> QED
    BY <2>1, <2>2, SwapBegins
<1>2. \A i \in 1..n : FrameClaims(series', stack[i])
  BY FramesLive
<1>3. ClaimsHold(series, receipts, aqua, stack, n)
  BY DEF ClaimsKept
<1>4. \A i \in 1..n :
        ClaimsHold(stack[i].saved.series, stack[i].saved.receipts, stack[i].saved.aqua,
                   stack, i - 1)
  BY DEF ClaimsKept
<1> HIDE DEF n
<1>5. \A i \in 1..(n + 1) : i = n + 1 \/ i \in 1..n
  BY <1>1
<1>6. ClaimsHold(series', receipts', aqua', stack', Len(stack'))
  <2>1. \A i \in 1..(n + 1) : FrameClaims(series', stack'[i])
    BY <1>1, <1>2, <1>5
  <2> QED
    BY <1>1, <2>1 DEF ClaimsHold, ClaimsAfter
<1>7. ASSUME NEW i \in 1..(n + 1)
      PROVE  ClaimsHold(stack'[i].saved.series, stack'[i].saved.receipts,
                        stack'[i].saved.aqua, stack', i - 1)
  <2>1. CASE i \in 1..n
    <3>1. \A j \in 1..(i - 1) : stack[j] = stack'[j]
      BY <1>1, <2>1
    <3>2. ClaimsHold(stack[i].saved.series, stack[i].saved.receipts, stack[i].saved.aqua,
                     stack', i - 1)
      BY <1>4, <2>1, <3>1, HoldPrefix
    <3> QED
      BY <1>1, <2>1, <3>2
  <2>2. CASE i = n + 1
    <3>1. \A j \in 1..n : stack[j] = stack'[j]
      BY <1>1
    <3>2. ClaimsHold(series, receipts, aqua, stack', n)
      BY <1>3, <3>1, HoldPrefix
    <3>3. i - 1 = n /\ stack'[i] = f
      BY <1>1, <2>2
    <3> QED
      BY <3>2, <3>3
  <2> QED
    BY <1>5, <2>1, <2>2
<1> QED
  BY <1>1, <1>6, <1>7, ClaimsKeptPrime

LEMMA RevertKeeps ==
    ASSUME Framed, ClaimsKept, Revert
    PROVE  ClaimsKept'
<1> DEFINE n == Len(stack) - 1
<1>1. /\ Len(stack) \in Nat \ {0} /\ n \in Nat /\ Len(stack') = n
      /\ \A i \in 1..n : stack'[i] = stack[i] /\ i \in 1..Len(stack)
      /\ Top = stack[Len(stack)]
      /\ OneSwapPerOrder'
  <2>1. PICK S : stack \in Seq(S)
    BY StackShaped
  <2>2. OneSwapPerOrder /\ stack # << >> /\ stack' = Below
    BY DEF ClaimsKept, Revert
  <2>3. /\ Len(stack) \in Nat \ {0} /\ Len(stack') = n
        /\ Top = stack[Len(stack)]
        /\ \A i \in 1..n : stack'[i] = stack[i]
        /\ OneSwapPerOrder'
    BY <2>1, <2>2, SwapEnds
  <2> QED
    BY <2>3
<1>2. \A i \in 1..Len(stack) :
        ClaimsHold(stack[i].saved.series, stack[i].saved.receipts, stack[i].saved.aqua,
                   stack, i - 1)
  BY DEF ClaimsKept
<1>3. ClaimsHold(series', receipts', aqua', stack', n)
  <2>1. Len(stack) \in 1..Len(stack)
    BY <1>1
  <2>2. ClaimsHold(series', receipts', aqua', stack, n)
    BY <1>1, <1>2, <2>1 DEF Revert
  <2> HIDE DEF n
  <2> QED
    BY <1>1, <2>2, HoldPrefix
<1>4. ASSUME NEW i \in 1..n
      PROVE  ClaimsHold(stack'[i].saved.series, stack'[i].saved.receipts,
                        stack'[i].saved.aqua, stack', i - 1)
  <2>1. \A j \in 1..(i - 1) : stack[j] = stack'[j]
    BY <1>1
  <2>2. ClaimsHold(stack[i].saved.series, stack[i].saved.receipts, stack[i].saved.aqua,
                   stack', i - 1)
    BY <1>1, <1>2, <2>1, HoldPrefix
  <2> QED
    BY <1>1, <2>2
<1> QED
  BY <1>1, <1>3, <1>4, ClaimsKeptPrime


\* The innermost swap: what is pending of its order, and what its next
\* transfer makes of that.
LEMMA TopKept ==
    ASSUME Framed, ClaimsKept, stack # << >>
    PROVE  /\ FrameShape(Top) /\ Top.group \in AllSeries /\ Top.taker \in Holders
           /\ Top.side = "VAR"
           /\ FrameClaims(series, Top)
           /\ Now(Top.group, Top.kind, "VAR") = Half(Top)
           /\ TransferInNext => NextHalf = IF Top.kind = "ISSUE" THEN Half(Top)
                                           ELSE Half(Top) - Top.amountOut
           /\ TransferOutNext => NextHalf = IF Top.kind = "ISSUE" THEN Half(Top) - Top.amountOut
                                            ELSE Half(Top) + Top.amountOut
           /\ Half(Top) \in Int /\ (Top.kind = "ISSUE" => Half(Top) \in Nat)
<1>1. PICK S : /\ stack \in Seq(S)
               /\ \A f \in S :
                        /\ FrameShape(f) /\ f.group \in AllSeries /\ f.taker \in Holders
                        /\ f.side = "VAR"
                        /\ [f EXCEPT !.stage = "second"] \in S
                        /\ [f EXCEPT !.stage = "second"].inFirst = f.inFirst
                        /\ [f EXCEPT !.stage = "second"].stage = "second"
                        /\ SameSwap([f EXCEPT !.stage = "second"], f)
  BY StackShaped
<1>2. Top \in S /\ Len(stack) \in 1..Len(stack) /\ Top = stack[Len(stack)]
  BY <1>1, ButLast DEF Top
<1>3. FrameClaims(series, Top)
  BY <1>2, ClaimsEach
<1>4. Now(Top.group, Top.kind, Top.side) = Half(Top)
  BY <1>1, TopPending DEF ClaimsKept
<1>5. /\ TransferInNext => NextHalf = IF Top.kind = "ISSUE" THEN Half(Top)
                                      ELSE Half(Top) - Top.amountOut
      /\ TransferOutNext => NextHalf = IF Top.kind = "ISSUE" THEN Half(Top) - Top.amountOut
                                       ELSE Half(Top) + Top.amountOut
  BY <1>1, <1>2, NextHalfMoves
<1> QED
  BY <1>1, <1>2, <1>3, <1>4, <1>5, HalfType

\* A transfer only has to keep the claims of its own series.
LEMMA TransferKeeps ==
    ASSUME Framed, ClaimsKept, stack # << >>, TransferDone, SeriesLive, receipts' \in Balances,
           \A s \in AllSeries \ {Top.group} : Untouched(s),
           ClaimsAfter(Top.group, After(Top, NextHalf, Top.group, "ISSUE", "VAR"),
                       After(Top, NextHalf, Top.group, "SETTLE", "VAR"))
    PROVE  ClaimsKept'
<1>1. PICK S : /\ stack \in Seq(S)
               /\ \A f \in S :
                        /\ FrameShape(f) /\ f.group \in AllSeries /\ f.taker \in Holders
                        /\ f.side = "VAR"
                        /\ [f EXCEPT !.stage = "second"] \in S
                        /\ [f EXCEPT !.stage = "second"].inFirst = f.inFirst
                        /\ [f EXCEPT !.stage = "second"].stage = "second"
                        /\ SameSwap([f EXCEPT !.stage = "second"], f)
  BY StackShaped
<1>2. Top \in S
  BY <1>1, ButLast DEF Top
<1>3. /\ OneSwapPerOrder'
      /\ \A i \in 1..Len(stack') :
            /\ i \in 1..Len(stack) /\ SameSwap(stack'[i], stack[i])
            /\ \A j \in 1..(i - 1) : stack[j] = stack'[j]
      /\ \A g, kind, s :
            Pending(stack', Len(stack'), g, kind, s) = After(Top, NextHalf, g, kind, s)
  BY <1>1, <1>2, SwapMoves DEF ClaimsKept
<1>4. ASSUME NEW s \in AllSeries
      PROVE  ClaimsAfter(s, After(Top, NextHalf, s, "ISSUE", "VAR"),
                         After(Top, NextHalf, s, "SETTLE", "VAR"))
  <2>1. CASE s = Top.group
    BY <2>1
  <2>2. CASE s # Top.group
    <3>1. \A k : After(Top, NextHalf, s, k, "VAR") = Now(s, k, "VAR")
      BY <2>2 DEF After, Of
    <3>2. Untouched(s) /\ ClaimsNow(s)
      BY <2>2, ClaimsEach
    <3> QED
      BY <3>1, <3>2, UntouchedClaims DEF ClaimsNow
  <2> QED
    BY <2>1, <2>2
<1>5. ClaimsHold(series', receipts', aqua', stack', Len(stack'))
  <2>1. ASSUME NEW i \in 1..Len(stack') PROVE FrameClaims(series', stack'[i])
    <3>1. FrameClaims(series', stack[i]) /\ SameSwap(stack'[i], stack[i])
      BY <1>3, FramesLive
    <3> QED
      BY <3>1 DEF FrameClaims, SameSwap
  <2> QED
    BY <1>3, <1>4, <2>1 DEF ClaimsHold, ClaimsAfter
<1>6. ASSUME NEW i \in 1..Len(stack')
      PROVE  ClaimsHold(stack'[i].saved.series, stack'[i].saved.receipts,
                        stack'[i].saved.aqua, stack', i - 1)
  <2>1. i \in 1..Len(stack) /\ stack'[i].saved = stack[i].saved
    BY <1>3 DEF SameSwap
  <2>2. \A j \in 1..(i - 1) : stack[j] = stack'[j]
    BY <1>3
  <2>3. ClaimsHold(stack[i].saved.series, stack[i].saved.receipts, stack[i].saved.aqua,
                   stack, i - 1)
    BY <2>1 DEF ClaimsKept
  <2> QED
    BY <2>1, <2>2, <2>3, HoldPrefix
<1> QED
  BY <1>3, <1>5, <1>6, ClaimsKeptPrime


(* The steps *)

LEMMA BalanceTypes ==
    ASSUME receipts \in Balances, NEW s \in AllSeries
    PROVE  /\ receipts[s] \in [Accounts -> Nat]
           /\ Held(receipts[s]) \in Nat /\ \A h \in Holders : receipts[s][h] <= Held(receipts[s])
<1>1. receipts[s] \in [Accounts -> Nat]
  BY DEF Balances
<1> QED
  BY <1>1, HeldNat

\* The numbers the claims of a series relate.
LEMMA ClaimsTypes ==
    ASSUME Sound, Framed, ClaimsKept, NEW s \in AllSeries
    PROVE  /\ series[s].outstandingUnits \in Nat /\ series[s].lockedLiability \in Nat
           /\ series[s].created \in BOOLEAN /\ series[s].finalized \in BOOLEAN
           /\ aqua[s]["ISSUE"] \in Int /\ aqua[s]["SETTLE"] \in Int
           /\ Now(s, "ISSUE", "VAR") \in Nat /\ Now(s, "SETTLE", "VAR") \in Int
           /\ Held(receipts[s]) \in Nat
           /\ Params[s].maxUnits \in Nat /\ Docked \in Int
           /\ MayCost(s, series[s]) \in Nat
<1>1. MayCost(s, series[s]) \in Nat
  BY SeriesFields, ParamTypes, LiabilityNat DEF MayCost
<1> QED
  BY <1>1, SeriesFields, PendingNow, ClaimsEach, BalanceTypes, ParamTypes DEF Docked, Kinds

\* A transfer between accounts gives the holders no claim they did not have.
LEMMA ReceiptTransferKeeps ==
    ASSUME Sound, Framed, ClaimsKept, NEW s \in AllSeries, NEW h \in Holders,
           NEW to \in Accounts, NEW u \in Nat, ReceiptTransfer(s, h, to, u)
    PROVE  ClaimsKept'
<1>1. /\ UNCHANGED <<stack, series, aqua>> /\ h # to /\ u <= receipts[s][h]
      /\ receipts' = [receipts EXCEPT ![s][h] = @ - u, ![s][to] = @ + u]
  BY DEF ReceiptTransfer, Call
<1>2. receipts \in Balances /\ ClaimsNow(s)
  BY ClaimsEach
<1> DEFINE c == [receipts[s] EXCEPT ![h] = @ - u, ![to] = @ + u]
<1>3. receipts' = [receipts EXCEPT ![s] = c]
  BY <1>1, <1>2 DEF Balances
<1>4. c \in [Accounts -> Nat] /\ Held(c) <= Held(receipts[s])
  BY <1>1, <1>2, BalanceTypes, HeldTransfer
<1> HIDE DEF c
<1>5. /\ receipts' \in Balances /\ receipts'[s] = c
      /\ \A t \in AllSeries \ {s} : receipts'[t] = receipts[t]
  BY <1>2, <1>3, <1>4 DEF Balances
<1>6. ClaimsAfter(s, Now(s, "ISSUE", "VAR"), Now(s, "SETTLE", "VAR"))
  <2>1. Held(c) \in Nat
    BY <1>4, HeldNat
  <2>2. Held(c) + Now(s, "ISSUE", "VAR") <= Held(receipts[s]) + Now(s, "ISSUE", "VAR")
    BY <1>4, <2>1, ClaimsTypes
  <2>3. Held(c) + Now(s, "ISSUE", "VAR") <= series[s].outstandingUnits
    <3>1. Held(receipts[s]) + Now(s, "ISSUE", "VAR") <= series[s].outstandingUnits
      BY <1>2 DEF ClaimsNow, SeriesClaims
    <3> QED
      BY <2>1, <2>2, <3>1, ClaimsTypes
  <2> QED
    BY <1>1, <1>2, <1>5, <2>3 DEF ClaimsNow, ClaimsAfter, SeriesClaims
<1>7. SeriesLive /\ \A t \in AllSeries \ {s} : Untouched(t)
  BY <1>1, <1>5 DEF SeriesLive, Untouched
<1> QED
  BY <1>1, <1>5, <1>6, <1>7, CallKeeps

LEMMA ElsewhereKeeps ==
    ASSUME Sound, Framed, ClaimsKept, Elsewhere
    PROVE  ClaimsKept'
<1>1. CASE \E s \in AllSeries : \E h \in Holders, u \in UnitAmounts, to \in Accounts :
                ReceiptTransfer(s, h, to, u)
  <2>1. UnitAmounts \subseteq Nat
    BY InputsAssumption
  <2> QED
    BY <1>1, <2>1, ReceiptTransferKeeps
<1>2. CASE UNCHANGED <<stack, series, receipts, aqua>>
  <2>1. receipts' \in Balances
    BY <1>2, ClaimsEach
  <2>2. SeriesLive /\ \A s \in AllSeries : Untouched(s)
    BY <1>2 DEF SeriesLive, Untouched
  <2> QED
    BY <1>2, <2>1, <2>2, CallKeeps
<1>3. \/ \E s \in AllSeries : \E h \in Holders, u \in UnitAmounts, to \in Accounts :
                ReceiptTransfer(s, h, to, u)
      \/ UNCHANGED <<stack, series, receipts, aqua>>
  BY DEF Elsewhere, CreateVault, Tick, Checkpoint, VaultDeposit, VaultWithdrawFree, Call,
         vars, chain, ledger
<1> QED
  BY <1>1, <1>2, <1>3


\* No swap of a series is in flight before it is created, and no settlement
\* before it is final.
LEMMA NothingPending ==
    ASSUME ClaimsKept, NEW s
    PROVE  /\ ~series[s].created => \A kind : Now(s, kind, "VAR") = 0
           /\ ~series[s].finalized => Now(s, "SETTLE", "VAR") = 0
<1>1. \A i \in 1..Len(stack) : FrameClaims(series, stack[i])
  BY ClaimsEach
<1>2. ASSUME ~series[s].created, NEW kind PROVE Now(s, kind, "VAR") = 0
  <2>1. {i \in 1..Len(stack) : Of(stack[i], s, kind, "VAR")} = {}
    BY <1>1, <1>2 DEF Of, FrameClaims
  <2> QED
    BY <2>1 DEF Now, Pending
<1>3. ASSUME ~series[s].finalized PROVE Now(s, "SETTLE", "VAR") = 0
  <2>1. {i \in 1..Len(stack) : Of(stack[i], s, "SETTLE", "VAR")} = {}
    BY <1>1, <1>3 DEF Of, FrameClaims
  <2> QED
    BY <2>1 DEF Now, Pending
<1> QED
  BY <1>2, <1>3

\* A call that changes one series.
LEMMA SeriesCallKeeps ==
    ASSUME Framed, ClaimsKept, UNCHANGED stack, receipts' \in Balances, NEW s \in AllSeries,
           \A t \in AllSeries \ {s} : Untouched(t),
           series[s].created => series'[s].created,
           series[s].finalized => series'[s].finalized,
           ClaimsAfter(s, Now(s, "ISSUE", "VAR"), Now(s, "SETTLE", "VAR"))
    PROVE  ClaimsKept'
<1>1. SeriesLive
  BY DEF SeriesLive, Untouched
<1> QED
  BY <1>1, CallKeeps

LEMMA CreateSeriesKeeps ==
    ASSUME Sound, Framed, ClaimsKept, NEW s \in AllSeries, CreateSeries(s)
    PROVE  ClaimsKept'
<1> DEFINE max == Params[s].maxUnits
           orders == [k \in Kinds |-> IF k = "ISSUE" THEN max ELSE Liability(s, max)]
           c == [receipts[s] EXCEPT !["vault"] = max]
           r == [series[s] EXCEPT !.created = TRUE]
<1>1. /\ UNCHANGED stack /\ ~series[s].created
      /\ series' = [series EXCEPT ![s].created = TRUE]
      /\ receipts' = [receipts EXCEPT ![s]["vault"] = max]
      /\ aqua' = [aqua EXCEPT ![s] = orders]
  BY DEF CreateSeries, Call
<1>2. /\ receipts \in Balances /\ ClaimsNow(s)
      /\ series \in [AllSeries -> SeriesState] /\ aqua \in [AllSeries -> [Kinds -> Int]]
      /\ max \in Nat /\ Liability(s, max) \in Nat
  BY ClaimsEach, ParamTypes, LiabilityNat DEF Sound, Ledger
<1>3. series' = [series EXCEPT ![s] = r] /\ receipts' = [receipts EXCEPT ![s] = c]
  BY <1>1, <1>2 DEF Balances
<1>4. /\ r.created /\ r.finalized = series[s].finalized
      /\ r.outstandingUnits = series[s].outstandingUnits
  BY <1>2 DEF SeriesState
<1>5. c \in [Accounts -> Nat] /\ \A h \in Holders : c[h] = receipts[s][h]
  <2>1. "vault" \in Accounts /\ \A h \in Holders : h # "vault" /\ h \in Accounts
    BY HoldersAssumption DEF Accounts
  <2>2. receipts[s] \in [Accounts -> Nat]
    BY <1>2 DEF Balances
  <2> QED
    BY <1>2, <2>1, <2>2
<1>6. orders["ISSUE"] = max /\ orders["SETTLE"] = Liability(s, max)
  BY DEF Kinds
<1> HIDE DEF c, r, orders, max
<1>7. /\ receipts' \in Balances
      /\ receipts'[s] = c /\ series'[s] = r /\ aqua'[s] = orders
      /\ \A t \in AllSeries \ {s} : Untouched(t)
  BY ZenonT(60), <1>1, <1>2, <1>3, <1>5 DEF Balances, Untouched
<1>8. Now(s, "ISSUE", "VAR") = 0 /\ Now(s, "SETTLE", "VAR") = 0
  BY <1>1, NothingPending
<1>9. /\ ~series[s].finalized /\ series[s].outstandingUnits = 0
      /\ Held(receipts[s]) + 0 <= 0
  BY <1>1, <1>2, <1>8 DEF ClaimsNow, SeriesClaims
<1>10. Held(c) = Held(receipts[s])
  BY <1>5, HeldSame
<1>11. MayCost(s, r) = Liability(s, max)
  BY <1>4, <1>9 DEF MayCost, max
<1>12. SeriesClaims(s, r, c, orders, 0, 0)
  <2>1. /\ r.created /\ r.outstandingUnits = 0 /\ orders["SETTLE"] # Docked
    BY <1>2, <1>4, <1>6, <1>9 DEF Docked
  <2>2. Held(c) + 0 <= 0 /\ 0 <= max /\ 0 - 0 + max <= max /\ Liability(s, max) + 0 >= Liability(s, max)
    BY <1>2, <1>9, <1>10
  <2> QED
    BY <1>6, <1>11, <2>1, <2>2 DEF SeriesClaims, max
<1>13. ClaimsAfter(s, Now(s, "ISSUE", "VAR"), Now(s, "SETTLE", "VAR"))
  BY <1>7, <1>8, <1>12 DEF ClaimsAfter
<1> QED
  BY <1>1, <1>4, <1>7, <1>9, <1>13, SeriesCallKeeps

LEMMA FinalizeKeeps ==
    ASSUME Sound, Framed, ClaimsKept, NEW s \in AllSeries, NEW v \in Nat, Finalize(s, v)
    PROVE  ClaimsKept'
<1> DEFINE p == Params[s]
           ppu == PayoutPerUnit(v, p.cap, p.notional)
           left == FinalLiability(series[s].outstandingUnits, ppu)
           r == [series[s] EXCEPT !.finalized = TRUE, !.payoutPerUnit = ppu,
                                  !.lockedLiability = left]
<1>1. /\ UNCHANGED <<stack, receipts, aqua>> /\ series[s].created /\ ~series[s].finalized
      /\ series[s].lockedLiability - left >= 0
      /\ series' = [series EXCEPT ![s].finalized = TRUE, ![s].payoutPerUnit = ppu,
                                  ![s].lockedLiability = left]
  BY DEF Finalize, Call
<1>2. /\ receipts \in Balances /\ ClaimsNow(s)
      /\ series \in [AllSeries -> SeriesState]
  BY ClaimsEach DEF Sound, Ledger
<1>3. left \in Nat
  BY SeriesFields, ParamTypes, PayoutPerUnitNat, FinalLiabilityNat
<1> HIDE DEF left, ppu
<1>4. series' = [series EXCEPT ![s] = r]
  BY <1>1, <1>2
<1>5. /\ r.created /\ r.finalized /\ r.lockedLiability = left
      /\ r.outstandingUnits = series[s].outstandingUnits
  BY <1>1, <1>2 DEF SeriesState
<1> HIDE DEF r
<1>6. series'[s] = r /\ \A t \in AllSeries \ {s} : Untouched(t)
  BY <1>1, <1>2, <1>4 DEF Untouched
<1>7. left <= Liability(s, p.maxUnits)
  <2>1. series[s].lockedLiability = Liability(s, series[s].outstandingUnits)
    BY <1>1, SeriesFields DEF Owed
  <2>2. series[s].outstandingUnits <= p.maxUnits
    BY <1>2 DEF ClaimsNow, SeriesClaims
  <2>3. Liability(s, series[s].outstandingUnits) <= Liability(s, p.maxUnits)
    BY <2>2, ClaimsTypes, ParamTypes, MaxLiabilityMonotone DEF Liability
  <2>4. Liability(s, p.maxUnits) \in Nat
    BY LiabilityNat, ClaimsTypes
  <2> QED
    BY <1>1, <1>3, <2>1, <2>3, <2>4, ClaimsTypes
<1>8. aqua[s]["SETTLE"] # Docked => aqua[s]["SETTLE"] + Now(s, "SETTLE", "VAR") >= left
  <2>1. Liability(s, p.maxUnits) \in Nat
    BY LiabilityNat, ClaimsTypes
  <2>2. aqua[s]["SETTLE"] # Docked =>
          aqua[s]["SETTLE"] + Now(s, "SETTLE", "VAR") >= Liability(s, p.maxUnits)
    BY <1>1, <1>2 DEF ClaimsNow, SeriesClaims, MayCost
  <2> QED
    BY <1>3, <1>7, <2>1, <2>2, ClaimsTypes
<1>9. SeriesClaims(s, r, receipts[s], aqua[s], Now(s, "ISSUE", "VAR"), Now(s, "SETTLE", "VAR"))
  BY <1>2, <1>5, <1>8 DEF ClaimsNow, SeriesClaims, MayCost
<1>10. ClaimsAfter(s, Now(s, "ISSUE", "VAR"), Now(s, "SETTLE", "VAR"))
  BY <1>1, <1>6, <1>9 DEF ClaimsAfter
<1> QED
  BY <1>1, <1>2, <1>5, <1>6, <1>10, SeriesCallKeeps

LEMMA StopIssuanceKeeps ==
    ASSUME Sound, Framed, ClaimsKept, NEW s \in AllSeries, StopIssuance(s)
    PROVE  ClaimsKept'
<1> DEFINE r == [series[s] EXCEPT !.issuanceStopped = TRUE]
           orders == [aqua[s] EXCEPT !["ISSUE"] = Docked]
<1>1. /\ UNCHANGED <<stack, receipts>>
      /\ series' = [series EXCEPT ![s].issuanceStopped = TRUE]
      /\ aqua' = [aqua EXCEPT ![s]["ISSUE"] = Docked]
  BY DEF StopIssuance, Call
<1>2. /\ receipts \in Balances /\ ClaimsNow(s)
      /\ series \in [AllSeries -> SeriesState] /\ aqua \in [AllSeries -> [Kinds -> Int]]
  BY ClaimsEach DEF Sound, Ledger
<1>3. series' = [series EXCEPT ![s] = r] /\ aqua' = [aqua EXCEPT ![s] = orders]
  BY <1>1, <1>2
<1>4. /\ r.created = series[s].created /\ r.finalized = series[s].finalized
      /\ r.lockedLiability = series[s].lockedLiability
      /\ r.outstandingUnits = series[s].outstandingUnits
      /\ orders["ISSUE"] = Docked /\ orders["SETTLE"] = aqua[s]["SETTLE"]
  BY <1>2 DEF SeriesState, Kinds
<1> HIDE DEF r, orders
<1>5. /\ series'[s] = r /\ aqua'[s] = orders /\ receipts'[s] = receipts[s]
      /\ \A t \in AllSeries \ {s} : Untouched(t)
  BY <1>1, <1>2, <1>3 DEF Untouched
<1>6. ClaimsAfter(s, Now(s, "ISSUE", "VAR"), Now(s, "SETTLE", "VAR"))
  BY <1>2, <1>4, <1>5 DEF ClaimsAfter, ClaimsNow, SeriesClaims, MayCost
<1> QED
  BY <1>1, <1>2, <1>4, <1>5, <1>6, SeriesCallKeeps


LEMMA BurnWorthlessKeeps ==
    ASSUME Sound, Framed, ClaimsKept, NEW s \in AllSeries, NEW h \in Holders, NEW u \in Nat,
           BurnWorthless(s, h, u)
    PROVE  ClaimsKept'
<1> DEFINE r == [series[s] EXCEPT !.outstandingUnits = @ - u]
           c == [receipts[s] EXCEPT ![h] = @ - u]
<1>1. /\ UNCHANGED <<stack, aqua>> /\ series[s].finalized
      /\ u <= series[s].outstandingUnits /\ u <= receipts[s][h]
      /\ series' = [series EXCEPT ![s].outstandingUnits = @ - u]
      /\ receipts' = [receipts EXCEPT ![s][h] = @ - u]
  BY DEF BurnWorthless, Call
<1>2. /\ receipts \in Balances /\ ClaimsNow(s) /\ receipts[s] \in [Accounts -> Nat]
      /\ series \in [AllSeries -> SeriesState] /\ h \in Accounts
  BY ClaimsEach, BalanceTypes DEF Sound, Ledger, Accounts
<1>3. series' = [series EXCEPT ![s] = r] /\ receipts' = [receipts EXCEPT ![s] = c]
  BY <1>1, <1>2 DEF Balances
<1>4. /\ r.created = series[s].created /\ r.finalized = series[s].finalized
      /\ r.lockedLiability = series[s].lockedLiability
      /\ r.outstandingUnits = series[s].outstandingUnits - u
  BY <1>2 DEF SeriesState
<1>5. /\ c \in [Accounts -> Nat] /\ c[h] = receipts[s][h] - u
      /\ \A x \in Holders \ {h} : c[x] = receipts[s][x]
  BY <1>1, <1>2 DEF Accounts
<1> HIDE DEF c, r
<1>6. /\ receipts' \in Balances /\ series'[s] = r /\ receipts'[s] = c /\ aqua'[s] = aqua[s]
      /\ \A t \in AllSeries \ {s} : Untouched(t)
  BY <1>1, <1>2, <1>3, <1>5 DEF Balances, Untouched
<1>7. Held(c) = Held(receipts[s]) - u
  <2>1. Held(c) = Held(receipts[s]) + (c[h] - receipts[s][h])
    BY <1>2, <1>5, HeldMoves
  <2>2. Held(receipts[s]) \in Nat /\ receipts[s][h] \in Nat
    BY <1>2, ClaimsTypes
  <2> QED
    BY <1>5, <2>1, <2>2
<1>8. ClaimsAfter(s, Now(s, "ISSUE", "VAR"), Now(s, "SETTLE", "VAR"))
  <2> DEFINE issue == Now(s, "ISSUE", "VAR")
             out == series[s].outstandingUnits
             forSale == aqua[s]["ISSUE"]
             max == Params[s].maxUnits
             had == Held(receipts[s])
  <2>1. /\ aqua[s]["SETTLE"] = Docked => out = 0 /\ forSale = Docked
        /\ had + issue <= out /\ out <= max
        /\ forSale # Docked => out - issue + forSale <= max
    BY <1>2 DEF ClaimsNow, SeriesClaims
  <2>2. out \in Nat /\ issue \in Nat /\ forSale \in Int /\ max \in Nat /\ had \in Nat /\ u <= out
    BY <1>1, ClaimsTypes
  <2> HIDE DEF issue, out, forSale, max, had
  <2>3. /\ aqua[s]["SETTLE"] = Docked => out - u = 0 /\ forSale = Docked
        /\ had - u + issue <= out - u /\ out - u <= max
        /\ forSale # Docked => out - u - issue + forSale <= max
    BY <2>1, <2>2
  <2>4. /\ ~r.created => ~r.finalized /\ aqua[s]["SETTLE"] = Docked
        /\ aqua[s]["SETTLE"] # Docked =>
              aqua[s]["SETTLE"] + Now(s, "SETTLE", "VAR") >= MayCost(s, r)
    BY <1>2, <1>4 DEF ClaimsNow, SeriesClaims, MayCost
  <2> QED
    BY <1>4, <1>6, <1>7, <2>3, <2>4
       DEF ClaimsAfter, SeriesClaims, issue, out, forSale, max, had
<1> QED
  BY <1>1, <1>4, <1>6, <1>8, SeriesCallKeeps

LEMMA CloseSeriesKeeps ==
    ASSUME Sound, Framed, ClaimsKept, NEW s \in AllSeries, CloseSeries(s)
    PROVE  ClaimsKept'
<1> DEFINE r == [series[s] EXCEPT !.closed = TRUE, !.lockedLiability = 0]
           c == [receipts[s] EXCEPT !["vault"] = 0]
           orders == [k \in Kinds |-> Docked]
<1>1. /\ UNCHANGED stack /\ series[s].created /\ series[s].outstandingUnits = 0
      /\ series' = [series EXCEPT ![s].closed = TRUE, ![s].lockedLiability = 0]
      /\ aqua' = [aqua EXCEPT ![s] = orders]
      /\ receipts' = [receipts EXCEPT ![s]["vault"] = 0]
  BY DEF CloseSeries, Call
<1>2. /\ receipts \in Balances /\ ClaimsNow(s) /\ receipts[s] \in [Accounts -> Nat]
      /\ series \in [AllSeries -> SeriesState] /\ aqua \in [AllSeries -> [Kinds -> Int]]
  BY ClaimsEach, BalanceTypes DEF Sound, Ledger
<1>3. series' = [series EXCEPT ![s] = r] /\ receipts' = [receipts EXCEPT ![s] = c]
  BY <1>1, <1>2 DEF Balances
<1>4. /\ r.created = series[s].created /\ r.finalized = series[s].finalized
      /\ r.outstandingUnits = series[s].outstandingUnits
  BY <1>2 DEF SeriesState
<1>5. c \in [Accounts -> Nat] /\ \A h \in Holders : c[h] = receipts[s][h]
  <2>1. "vault" \in Accounts /\ \A h \in Holders : h # "vault" /\ h \in Accounts
    BY HoldersAssumption DEF Accounts
  <2> QED
    BY <1>2, <2>1
<1>6. orders["ISSUE"] = Docked /\ orders["SETTLE"] = Docked
  BY DEF Kinds
<1> HIDE DEF r, c, orders
<1>7. /\ receipts' \in Balances /\ series'[s] = r /\ receipts'[s] = c /\ aqua'[s] = orders
      /\ \A t \in AllSeries \ {s} : Untouched(t)
  <2>1. receipts' \in Balances /\ receipts'[s] = c
        /\ \A t \in AllSeries \ {s} : receipts'[t] = receipts[t]
    BY <1>2, <1>3, <1>5 DEF Balances
  <2>2. series'[s] = r /\ \A t \in AllSeries \ {s} : series'[t] = series[t]
    BY <1>2, <1>3
  <2>3. aqua'[s] = orders /\ \A t \in AllSeries \ {s} : aqua'[t] = aqua[t]
    BY <1>1, <1>2
  <2> QED
    BY <2>1, <2>2, <2>3 DEF Untouched
<1>8. Held(c) = Held(receipts[s])
  BY <1>5, HeldSame
<1>9. ClaimsAfter(s, Now(s, "ISSUE", "VAR"), Now(s, "SETTLE", "VAR"))
  BY <1>1, <1>2, <1>4, <1>6, <1>7, <1>8 DEF ClaimsAfter, ClaimsNow, SeriesClaims
<1> QED
  BY <1>1, <1>4, <1>7, <1>9, SeriesCallKeeps

LEMMA SeriesChangeKeeps ==
    ASSUME Sound, Framed, ClaimsKept, NEW s \in AllSeries, SeriesChange(s)
    PROVE  ClaimsKept'
<1>1. UnitAmounts \subseteq Nat /\ Variances \subseteq Nat
  BY InputsAssumption
<1> QED
  BY <1>1, CreateSeriesKeeps, FinalizeKeeps, StopIssuanceKeeps, CloseSeriesKeeps,
     BurnWorthlessKeeps DEF SeriesChange


\* No fill sells more than the order still offers.
LEMMA IssueWithinOrder ==
    ASSUME Sound, NEW s \in AllSeries, NEW ask \in Nat, NEW exactIn \in BOOLEAN,
           NEW amount \in Nat, IssueFill(s, ask, exactIn, amount).units > 0
    PROVE  IssueFill(s, ask, exactIn, amount).units <= aqua[s]["ISSUE"]
<1> DEFINE p     == Params[s]
           a     == aqua[s]["ISSUE"]
           b     == IssueUnitsToCollateral(series[s].outstandingUnits,
                                           series[s].lockedLiability, FreeQuote,
                                           p.notional, p.cap)
           c     == IssueUnitsToCap(ask, p.slope, p.cap)
           asked == IF exactIn THEN IssueUnitsFor(ask, p.slope, p.notional, amount)
                    ELSE amount
<1>1. /\ p.notional \in Nat \ {0} /\ p.cap \in Nat \ {0} /\ p.slope \in Nat
      /\ series[s].outstandingUnits \in Nat /\ series[s].lockedLiability \in Nat
      /\ a \in Int
  BY ParamTypes, SeriesFields DEF Kinds
<1>2. b \in Int
  BY <1>1, FreeNat, CollateralLimitInt
<1>3. c \in Int
  BY <1>1, LimitsInt
<1>4. asked \in Nat
  BY <1>1, IssueUnitsForNat
<1>5. IssueLimit(s, ask) = Min({a, b, c})
  BY DEF IssueLimit
<1>6. IssueFill(s, ask, exactIn, amount).units = Least(asked, IssueLimit(s, ask))
  BY DEF IssueFill
<1> HIDE DEF a, b, c, asked
<1>7. Min({b, a, c}) <= a /\ Min({b, a, c}) \in Int
  BY <1>1, <1>2, <1>3, MinInt
<1>8. {b, a, c} = {a, b, c}
  OBVIOUS
<1>9. IssueLimit(s, ask) <= a /\ IssueLimit(s, ask) \in Int
  BY <1>5, <1>7, <1>8
<1> QED
  BY <1>1, <1>4, <1>6, <1>9 DEF Least, a

LEMMA SwapIssueKeeps ==
    ASSUME Sound, Framed, ClaimsKept, NEW s \in AllSeries, NEW h \in Holders,
           NEW ask \in Nat, NEW exactIn \in BOOLEAN, NEW amount \in Nat,
           NEW inFirst \in BOOLEAN, SwapIssue(s, h, ask, exactIn, amount, inFirst)
    PROVE  ClaimsKept'
<1> DEFINE units == IssueFill(s, ask, exactIn, amount).units
           premium == IssueFill(s, ask, exactIn, amount).premium
           f == Frame(s, "ISSUE", h, premium, units, inFirst)
           r == [series[s] EXCEPT !.outstandingUnits = series[s].outstandingUnits + units,
                                  !.lockedLiability =
                                        Liability(s, series[s].outstandingUnits + units)]
<1>1. /\ ~Locked(s, "ISSUE", "VAR") /\ EnterSwap(f) /\ UNCHANGED <<receipts, aqua>>
      /\ series[s].created /\ ~series[s].finalized /\ aqua[s]["ISSUE"] # Docked
      /\ units > 0
      /\ series' = [series EXCEPT ![s].outstandingUnits = series[s].outstandingUnits + units,
                                  ![s].lockedLiability =
                                        Liability(s, series[s].outstandingUnits + units)]
  BY DEF SwapIssue, CanSwap, OnIssue, IssuanceOpen
<1>2. units \in Nat /\ units <= aqua[s]["ISSUE"]
  BY <1>1, IssueFillNat, IssueWithinOrder
<1>3. /\ f.group = s /\ f.kind = "ISSUE" /\ f.side = "VAR" /\ f.stage = "first"
      /\ f.amountOut = units
      /\ f.saved.series = series /\ f.saved.receipts = receipts /\ f.saved.aqua = aqua
  BY DEF Frame, Snapshot
<1>4. Half(f) = units
  BY <1>3 DEF Half
<1> HIDE DEF units, premium, f
<1>5. /\ receipts \in Balances /\ ClaimsNow(s) /\ series \in [AllSeries -> SeriesState]
  BY ClaimsEach DEF Sound, Ledger
<1>6. series' = [series EXCEPT ![s] = r]
  BY <1>1, <1>5
<1>7. /\ r.created /\ ~r.finalized
      /\ r.outstandingUnits = series[s].outstandingUnits + units
  BY <1>1, <1>5 DEF SeriesState
<1> HIDE DEF r
<1>8. series'[s] = r /\ \A t \in AllSeries \ {s} : Untouched(t)
  BY <1>1, <1>5, <1>6 DEF Untouched
<1>9. SeriesLive
  BY <1>1, <1>7, <1>8 DEF SeriesLive, Untouched
<1>10. FrameClaims(series', f)
  BY <1>3, <1>7, <1>8 DEF FrameClaims
<1>11. ClaimsAfter(s, units, Now(s, "SETTLE", "VAR"))
  <2> DEFINE out == series[s].outstandingUnits
             forSale == aqua[s]["ISSUE"]
             max == Params[s].maxUnits
             had == Held(receipts[s])
  <2>1. Now(s, "ISSUE", "VAR") = 0
    BY <1>1, FreeOrder
  <2>2. had + 0 <= out /\ out - 0 + forSale <= max /\ aqua[s]["SETTLE"] # Docked
    BY <1>1, <1>5, <2>1 DEF ClaimsNow, SeriesClaims
  <2>3. out \in Nat /\ forSale \in Int /\ max \in Nat /\ had \in Nat
    BY ClaimsTypes
  <2> HIDE DEF out, forSale, max, had
  <2>4. /\ had + units <= out + units /\ out + units <= max
        /\ out + units - units + forSale <= max
    BY <1>2, <2>2, <2>3 DEF forSale
  <2>5. MayCost(s, r) = MayCost(s, series[s])
    BY <1>1, <1>7 DEF MayCost
  <2>6. aqua[s]["SETTLE"] + Now(s, "SETTLE", "VAR") >= MayCost(s, r)
    BY <1>5, <2>2, <2>5 DEF ClaimsNow, SeriesClaims
  <2>7. SeriesClaims(s, r, receipts[s], aqua[s], units, Now(s, "SETTLE", "VAR"))
    <3>1. /\ had + units <= r.outstandingUnits /\ r.outstandingUnits <= max
          /\ r.outstandingUnits - units + forSale <= max
      <4>1. r.outstandingUnits = out + units
        BY <1>7 DEF out
      <4> QED
        BY <1>2, <2>3, <2>4, <4>1
    <3> QED
      BY <1>7, <2>2, <2>6, <3>1 DEF SeriesClaims, forSale, max, had
  <2> QED
    BY <1>1, <1>8, <2>7 DEF ClaimsAfter
<1>12. ASSUME NEW t \in AllSeries
       PROVE  ClaimsAfter(t, After(f, Half(f), t, "ISSUE", "VAR"),
                          After(f, Half(f), t, "SETTLE", "VAR"))
  <2>1. /\ After(f, Half(f), t, "SETTLE", "VAR") = Now(t, "SETTLE", "VAR")
        /\ After(f, Half(f), t, "ISSUE", "VAR") =
              IF t = s THEN units ELSE Now(t, "ISSUE", "VAR")
    BY <1>3, <1>4 DEF After, Of
  <2>2. CASE t = s
    BY <1>11, <2>1, <2>2
  <2>3. CASE t # s
    <3>1. Untouched(t) /\ ClaimsNow(t)
      BY <1>8, <2>3, ClaimsEach
    <3> QED
      BY <2>1, <2>3, <3>1, UntouchedClaims DEF ClaimsNow
  <2> QED
    BY <2>2, <2>3
<1> QED
  BY <1>1, <1>3, <1>5, <1>9, <1>10, <1>12, EnterKeeps

LEMMA SwapPayoutKeeps ==
    ASSUME Framed, ClaimsKept, NEW s \in AllSeries, NEW kind \in {"EXIT", "SETTLE"},
           NEW h \in Holders, NEW in, NEW paid, NEW inFirst,
           SwapPayout(s, kind, h, in, paid, inFirst),
           IF kind = "EXIT" THEN series[s].created ELSE series[s].finalized
    PROVE  ClaimsKept'
<1> DEFINE f == Frame(s, kind, h, in, paid, inFirst)
<1>1. /\ ~Locked(s, kind, "VAR") /\ EnterSwap(f) /\ UNCHANGED <<series, receipts, aqua>>
  BY DEF SwapPayout, CanSwap, chain, ledger
<1>2. /\ f.group = s /\ f.kind = kind /\ f.side = "VAR" /\ f.stage = "first"
      /\ f.saved.series = series /\ f.saved.receipts = receipts /\ f.saved.aqua = aqua
  BY DEF Frame, Snapshot
<1>3. Half(f) = 0
  BY <1>2 DEF Half, Ahead
<1> HIDE DEF f
<1>4. receipts' \in Balances /\ SeriesLive /\ \A t \in AllSeries : Untouched(t) /\ ClaimsNow(t)
  BY <1>1, ClaimsEach DEF SeriesLive, Untouched
<1>5. series[s].created
  BY <1>4 DEF ClaimsNow, SeriesClaims
<1>6. FrameClaims(series', f)
  BY <1>1, <1>2, <1>5 DEF FrameClaims
<1>7. Now(s, kind, "VAR") = 0
  BY <1>1, FreeOrder
<1>8. ASSUME NEW t \in AllSeries
      PROVE  ClaimsAfter(t, After(f, Half(f), t, "ISSUE", "VAR"),
                         After(f, Half(f), t, "SETTLE", "VAR"))
  <2>1. /\ After(f, Half(f), t, "SETTLE", "VAR") = Now(t, "SETTLE", "VAR")
        /\ After(f, Half(f), t, "ISSUE", "VAR") = Now(t, "ISSUE", "VAR")
    BY <1>2, <1>3, <1>7 DEF After, Of
  <2> QED
    BY <1>4, <2>1, UntouchedClaims DEF ClaimsNow
<1> QED
  BY <1>1, <1>2, <1>4, <1>6, <1>8, EnterKeeps

LEMMA SwapKeeps ==
    ASSUME Sound, Framed, ClaimsKept, NEW s \in AllSeries, NEW h \in Holders,
           NEW inFirst \in BOOLEAN, SwapCall(s, h, inFirst)
    PROVE  ClaimsKept'
  BY SwapCalls, SwapIssueKeeps, SwapPayoutKeeps


\* The two numbers pending of the innermost swap's series, before and after
\* its next transfer.
LEMMA PendingTopSeries ==
    ASSUME Framed, ClaimsKept, stack # << >>
    PROVE  \A kind : After(Top, NextHalf, Top.group, kind, "VAR") =
                        IF kind = Top.kind THEN NextHalf ELSE Now(Top.group, kind, "VAR")
  BY TopKept DEF After, Of

\* The units of an exit or a settlement are burned.
LEMMA BurnKeeps ==
    ASSUME Sound, Framed, ClaimsKept, TransferIn, Top.kind # "ISSUE"
    PROVE  ClaimsKept'
<1> DEFINE f == Top
           s == f.group
           u == f.amountIn
           left == LiabilityAfter(s, f.kind, series[s].outstandingUnits - u)
           r == [series[s] EXCEPT !.outstandingUnits = series[s].outstandingUnits - u,
                                  !.lockedLiability = left]
           c == [receipts[s] EXCEPT ![f.taker] = @ - u]
           settle == After(f, NextHalf, s, "SETTLE", "VAR")
<1>1. /\ stack # << >> /\ TransferDone /\ TransferInNext /\ UNCHANGED aqua
      /\ u <= receipts[s][f.taker]
      /\ receipts' = [receipts EXCEPT ![s][f.taker] = @ - u]
      /\ series[s].outstandingUnits - u >= 0
      /\ IF f.kind = "EXIT" THEN ExitOpen(s) ELSE series[s].finalized
      /\ f.amountOut <= series[s].lockedLiability - left
      /\ series' = [series EXCEPT ![s].outstandingUnits = series[s].outstandingUnits - u,
                                  ![s].lockedLiability = left]
  BY DEF TransferIn, TransferInNext, OnBurn
<1>2. /\ FrameShape(f) /\ s \in AllSeries /\ f.taker \in Holders /\ f.side = "VAR"
      /\ Now(s, f.kind, "VAR") = Half(f) /\ NextHalf = Half(f) - f.amountOut
  BY <1>1, TopKept
<1>3. /\ u \in Nat /\ f.amountOut \in Nat /\ f.kind \in {"EXIT", "SETTLE"}
  BY <1>2 DEF FrameShape, Kinds
<1>4. /\ After(f, NextHalf, s, "ISSUE", "VAR") = Now(s, "ISSUE", "VAR")
      /\ settle = IF f.kind = "SETTLE" THEN Now(s, "SETTLE", "VAR") - f.amountOut
                  ELSE Now(s, "SETTLE", "VAR")
  BY <1>1, <1>2, <1>3, PendingTopSeries
<1>5. left \in Nat
  BY <1>1, <1>2, <1>3, LiabilityNat, SeriesFields, FinalLiabilityNat DEF LiabilityAfter
<1> HIDE DEF f, s, u, left, settle
<1>6. /\ receipts \in Balances /\ ClaimsNow(s) /\ receipts[s] \in [Accounts -> Nat]
      /\ series \in [AllSeries -> SeriesState] /\ f.taker \in Accounts
  BY <1>2, ClaimsEach, BalanceTypes DEF Sound, Ledger, Accounts
<1>7. series' = [series EXCEPT ![s] = r] /\ receipts' = [receipts EXCEPT ![s] = c]
  BY <1>1, <1>2, <1>6 DEF Balances
<1>8. /\ r.created = series[s].created /\ r.finalized = series[s].finalized
      /\ r.lockedLiability = left
      /\ r.outstandingUnits = series[s].outstandingUnits - u
  BY <1>2, <1>6 DEF SeriesState
<1>9. /\ c \in [Accounts -> Nat] /\ c[f.taker] = receipts[s][f.taker] - u
      /\ \A x \in Holders \ {f.taker} : c[x] = receipts[s][x]
  BY <1>1, <1>3, <1>6 DEF Accounts
<1> HIDE DEF c, r
<1>10. /\ receipts' \in Balances /\ series'[s] = r /\ receipts'[s] = c /\ aqua'[s] = aqua[s]
       /\ \A t \in AllSeries \ {s} : Untouched(t)
  <2>1. UNCHANGED aqua /\ s \in AllSeries
    BY <1>1, <1>2
  <2>2. /\ receipts'[s] = c /\ series'[s] = r
        /\ \A t \in AllSeries \ {s} : receipts'[t] = receipts[t] /\ series'[t] = series[t]
    BY <1>6, <1>7, <2>1 DEF Balances
  <2>3. receipts' \in Balances
    BY <1>6, <1>7, <1>9 DEF Balances
  <2> QED
    BY <2>1, <2>2, <2>3 DEF Untouched
<1>11. SeriesLive
  BY <1>8, <1>10 DEF SeriesLive, Untouched
<1>12. Held(c) = Held(receipts[s]) - u
  <2>1. Held(c) = Held(receipts[s]) + (c[f.taker] - receipts[s][f.taker])
    BY <1>2, <1>6, <1>9, HeldMoves
  <2>2. Held(receipts[s]) \in Nat /\ receipts[s][f.taker] \in Nat
    BY <1>2, <1>6, ClaimsTypes
  <2> QED
    BY <1>3, <1>9, <2>1, <2>2
<1>13. aqua[s]["SETTLE"] # Docked => aqua[s]["SETTLE"] + settle >= MayCost(s, r)
  <2>1. /\ aqua[s]["SETTLE"] \in Int /\ Now(s, "SETTLE", "VAR") \in Int
        /\ series[s].lockedLiability \in Nat
    BY <1>2, ClaimsTypes
  <2>2. aqua[s]["SETTLE"] # Docked =>
            aqua[s]["SETTLE"] + Now(s, "SETTLE", "VAR") >= MayCost(s, series[s])
    BY <1>6 DEF ClaimsNow, SeriesClaims
  <2>3. CASE f.kind = "EXIT"
    <3>1. MayCost(s, r) = MayCost(s, series[s])
      BY <1>1, <1>8, <2>3 DEF ExitOpen, MayCost
    <3>2. settle = Now(s, "SETTLE", "VAR")
      BY <1>4, <2>3
    <3> QED
      BY <2>2, <3>1, <3>2
  <2>4. CASE f.kind = "SETTLE"
    <3>1. MayCost(s, r) = left /\ MayCost(s, series[s]) = series[s].lockedLiability
      BY <1>1, <1>8, <2>4 DEF MayCost
    <3>2. settle = Now(s, "SETTLE", "VAR") - f.amountOut
      BY <1>4, <2>4
    <3>3. f.amountOut <= series[s].lockedLiability - left
      BY <1>1
    <3> QED
      BY <1>3, <1>5, <2>1, <2>2, <3>1, <3>2, <3>3
  <2> QED
    BY <1>3, <2>3, <2>4
<1>14. ClaimsAfter(s, Now(s, "ISSUE", "VAR"), settle)
  <2> DEFINE issue == Now(s, "ISSUE", "VAR")
             out == series[s].outstandingUnits
             forSale == aqua[s]["ISSUE"]
             max == Params[s].maxUnits
             had == Held(receipts[s])
  <2>1. /\ aqua[s]["SETTLE"] = Docked => out = 0 /\ forSale = Docked
        /\ had + issue <= out /\ out <= max
        /\ forSale # Docked => out - issue + forSale <= max
    BY <1>6 DEF ClaimsNow, SeriesClaims
  <2>2. out \in Nat /\ issue \in Nat /\ forSale \in Int /\ max \in Nat /\ had \in Nat
    BY <1>2, ClaimsTypes
  <2>3. out - u >= 0 /\ Held(c) = had - u /\ r.outstandingUnits = out - u
    BY <1>1, <1>8, <1>12
  <2> HIDE DEF issue, out, forSale, max, had
  <2>4. /\ aqua[s]["SETTLE"] = Docked => r.outstandingUnits = 0 /\ forSale = Docked
        /\ Held(c) + issue <= r.outstandingUnits /\ r.outstandingUnits <= max
        /\ forSale # Docked => r.outstandingUnits - issue + forSale <= max
    BY <1>3, <2>1, <2>2, <2>3
  <2>5. ~r.created => ~r.finalized /\ aqua[s]["SETTLE"] = Docked
    BY <1>6, <1>8 DEF ClaimsNow, SeriesClaims
  <2>6. SeriesClaims(s, r, c, aqua[s], issue, settle)
    BY <1>13, <2>4, <2>5 DEF SeriesClaims, forSale, max
  <2> QED
    BY <1>10, <2>6 DEF ClaimsAfter, issue
<1>15. ClaimsAfter(s, After(f, NextHalf, s, "ISSUE", "VAR"), settle)
  BY <1>4, <1>14
<1> QED
  BY <1>1, <1>10, <1>11, <1>15, TransferKeeps DEF f, s, settle

LEMMA TransferInKeeps ==
    ASSUME Sound, Framed, ClaimsKept, TransferIn
    PROVE  ClaimsKept'
<1>1. CASE Top.kind # "ISSUE"
  BY <1>1, BurnKeeps
<1>2. CASE Top.kind = "ISSUE"
  <2>1. /\ stack # << >> /\ TransferDone /\ TransferInNext
        /\ UNCHANGED <<series, receipts, aqua>>
    BY <1>2 DEF TransferIn, TransferInNext
  <2>2. receipts' \in Balances /\ SeriesLive /\ \A s \in AllSeries : Untouched(s) /\ ClaimsNow(s)
    BY <2>1, ClaimsEach DEF SeriesLive, Untouched
  <2>3. Top.group \in AllSeries /\ NextHalf = Now(Top.group, "ISSUE", "VAR")
    BY <1>2, <2>1, TopKept
  <2>4. /\ After(Top, NextHalf, Top.group, "ISSUE", "VAR") = Now(Top.group, "ISSUE", "VAR")
        /\ After(Top, NextHalf, Top.group, "SETTLE", "VAR") = Now(Top.group, "SETTLE", "VAR")
    BY <1>2, <2>1, <2>3, PendingTopSeries
  <2>5. ClaimsAfter(Top.group, After(Top, NextHalf, Top.group, "ISSUE", "VAR"),
                    After(Top, NextHalf, Top.group, "SETTLE", "VAR"))
    BY <2>2, <2>3, <2>4, UntouchedClaims DEF ClaimsNow
  <2> QED
    BY <2>1, <2>2, <2>5, TransferKeeps
<1> QED
  BY <1>1, <1>2


\* Sold receipts reach their buyer; what an exit or a settlement is paid comes
\* out of its order.
LEMMA TransferOutKeeps ==
    ASSUME Sound, Framed, ClaimsKept, TransferOut
    PROVE  ClaimsKept'
<1> DEFINE f == Top
           s == f.group
           p == f.amountOut
           orders == [aqua[s] EXCEPT ![f.kind] = @ - p]
           issue == After(f, NextHalf, s, "ISSUE", "VAR")
           settle == After(f, NextHalf, s, "SETTLE", "VAR")
<1>1. /\ stack # << >> /\ TransferDone /\ TransferOutNext /\ UNCHANGED series
      /\ p <= aqua[s][f.kind]
      /\ aqua' = [aqua EXCEPT ![s][f.kind] = @ - p]
  BY DEF TransferOut, TransferOutNext
<1>2. /\ FrameShape(f) /\ s \in AllSeries /\ f.taker \in Holders /\ f.side = "VAR"
      /\ Now(s, f.kind, "VAR") = Half(f)
      /\ NextHalf = IF f.kind = "ISSUE" THEN Half(f) - p ELSE Half(f) + p
  BY <1>1, TopKept
<1>3. /\ p \in Nat /\ f.kind \in Kinds
  BY <1>2 DEF FrameShape
<1>4. /\ issue = IF f.kind = "ISSUE" THEN Now(s, "ISSUE", "VAR") - p
                 ELSE Now(s, "ISSUE", "VAR")
      /\ settle = IF f.kind = "SETTLE" THEN Now(s, "SETTLE", "VAR") + p
                  ELSE Now(s, "SETTLE", "VAR")
  BY <1>1, <1>2, PendingTopSeries
<1>5. /\ f.kind = "ISSUE" =>
            receipts' = [receipts EXCEPT ![s]["vault"] = @ - p, ![s][f.taker] = @ + p]
      /\ f.kind = "ISSUE" => p <= receipts[s]["vault"]
      /\ f.kind # "ISSUE" => receipts' = receipts
  BY DEF TransferOut
<1> HIDE DEF f, s, p, issue, settle
<1>6. /\ receipts \in Balances /\ ClaimsNow(s) /\ receipts[s] \in [Accounts -> Nat]
      /\ aqua \in [AllSeries -> [Kinds -> Int]]
      /\ f.taker \in Accounts /\ "vault" \in Accounts /\ f.taker # "vault"
  BY <1>2, ClaimsEach, BalanceTypes, HoldersAssumption DEF Sound, Ledger, Accounts
<1>7. /\ aqua' = [aqua EXCEPT ![s] = orders]
      /\ aqua[s] \in [Kinds -> Int]
  BY <1>1, <1>2, <1>6
<1>8. /\ orders[f.kind] = aqua[s][f.kind] - p
      /\ \A k \in Kinds \ {f.kind} : orders[k] = aqua[s][k]
  BY <1>3, <1>7
<1> HIDE DEF orders
<1>9. /\ aqua'[s] = orders
      /\ \A t \in AllSeries \ {s} : aqua'[t] = aqua[t]
  BY <1>2, <1>6, <1>7
<1>10. /\ receipts' \in Balances
       /\ \A t \in AllSeries \ {s} : receipts'[t] = receipts[t]
       /\ Held(receipts'[s]) = Held(receipts[s]) + (IF f.kind = "ISSUE" THEN p ELSE 0)
  <2>1. Held(receipts[s]) \in Nat
    BY <1>2, ClaimsTypes
  <2>2. CASE f.kind # "ISSUE"
    BY <1>5, <1>6, <2>1, <2>2
  <2>3. CASE f.kind = "ISSUE"
    <3> DEFINE c == [receipts[s] EXCEPT !["vault"] = @ - p, ![f.taker] = @ + p]
    <3>1. receipts' = [receipts EXCEPT ![s] = c]
      BY <1>2, <1>5, <1>6, <2>3 DEF Balances
    <3>2. c \in [Accounts -> Nat]
      BY <1>3, <1>5, <1>6, <2>3
    <3>3. /\ c[f.taker] = receipts[s][f.taker] + p
          /\ \A x \in Holders \ {f.taker} : c[x] = receipts[s][x]
      <4>1. \A x \in Holders : x # "vault" /\ x \in Accounts
        BY HoldersAssumption DEF Accounts
      <4> QED
        BY <1>6, <4>1
    <3> HIDE DEF c
    <3>4. Held(c) = Held(receipts[s]) + (c[f.taker] - receipts[s][f.taker])
      BY <1>2, <1>6, <3>2, <3>3, HeldMoves
    <3>5. receipts[s][f.taker] \in Nat
      BY <1>6
    <3>6. Held(c) = Held(receipts[s]) + p
      BY <1>3, <2>1, <3>3, <3>4, <3>5
    <3>7. /\ receipts'[s] = c /\ receipts' \in Balances
          /\ \A t \in AllSeries \ {s} : receipts'[t] = receipts[t]
      BY <1>2, <1>6, <3>1, <3>2 DEF Balances
    <3> QED
      BY <2>3, <3>6, <3>7
  <2> QED
    BY <2>2, <2>3
<1>11. SeriesLive /\ series'[s] = series[s] /\ \A t \in AllSeries \ {s} : Untouched(t)
  BY <1>1, <1>9, <1>10 DEF SeriesLive, Untouched
<1>12. ClaimsAfter(s, issue, settle)
  <2> DEFINE out == series[s].outstandingUnits
             forSale == aqua[s]["ISSUE"]
             toPay == aqua[s]["SETTLE"]
             max == Params[s].maxUnits
             had == Held(receipts[s])
             sold == Now(s, "ISSUE", "VAR")
             paid == Now(s, "SETTLE", "VAR")
             cost == MayCost(s, series[s])
  <2>1. /\ ~series[s].created => ~series[s].finalized /\ toPay = Docked
        /\ toPay = Docked => out = 0 /\ forSale = Docked
        /\ had + sold <= out /\ out <= max
        /\ forSale # Docked => out - sold + forSale <= max
        /\ toPay # Docked => toPay + paid >= cost
    BY <1>6 DEF ClaimsNow, SeriesClaims
  <2>2. /\ out \in Nat /\ sold \in Nat /\ forSale \in Int /\ toPay \in Int /\ paid \in Int
        /\ max \in Nat /\ had \in Nat /\ cost \in Nat
    BY <1>2, ClaimsTypes
  <2>3. /\ "ISSUE" \in Kinds /\ "SETTLE" \in Kinds
        /\ f.kind = "ISSUE" \/ f.kind = "EXIT" \/ f.kind = "SETTLE"
    BY <1>3 DEF Kinds
  <2>4. /\ orders["ISSUE"] = IF f.kind = "ISSUE" THEN forSale - p ELSE forSale
        /\ orders["SETTLE"] = IF f.kind = "SETTLE" THEN toPay - p ELSE toPay
    BY <1>8, <2>3
  <2>5. /\ f.kind = "ISSUE" => p <= forSale
        /\ f.kind = "SETTLE" => p <= toPay
    BY <1>1
  <2>6. /\ issue = IF f.kind = "ISSUE" THEN sold - p ELSE sold
        /\ settle = IF f.kind = "SETTLE" THEN paid + p ELSE paid
        /\ Held(receipts'[s]) = had + (IF f.kind = "ISSUE" THEN p ELSE 0)
    BY <1>4, <1>10
  <2> HIDE DEF out, forSale, toPay, max, had, sold, paid, cost
  <2>7. CASE f.kind = "ISSUE"
    <3>1. /\ orders["ISSUE"] = forSale - p /\ orders["SETTLE"] = toPay
          /\ issue = sold - p /\ settle = paid /\ Held(receipts'[s]) = had + p
          /\ p <= forSale
      BY <2>4, <2>5, <2>6, <2>7
    <3>2. forSale # Docked /\ toPay # Docked
      BY <1>3, <2>1, <3>1 DEF Docked
    <3>3. /\ Held(receipts'[s]) + issue <= out
          /\ out - issue + orders["ISSUE"] <= max
          /\ orders["SETTLE"] + settle >= cost
      BY <1>3, <2>1, <2>2, <3>1, <3>2
    <3>4. SeriesClaims(s, series[s], receipts'[s], orders, issue, settle)
      BY <2>1, <3>1, <3>2, <3>3 DEF SeriesClaims, out, max, cost
    <3> QED
      BY <1>9, <1>11, <3>4 DEF ClaimsAfter
  <2>8. CASE f.kind # "ISSUE"
    <3>1. /\ orders["ISSUE"] = forSale /\ issue = sold /\ Held(receipts'[s]) = had
          /\ orders["SETTLE"] = IF f.kind = "SETTLE" THEN toPay - p ELSE toPay
          /\ settle = IF f.kind = "SETTLE" THEN paid + p ELSE paid
          /\ f.kind = "SETTLE" => p <= toPay
      BY <2>2, <2>4, <2>5, <2>6, <2>8
    <3>2. /\ orders["SETTLE"] # Docked <=> toPay # Docked
          /\ orders["SETTLE"] + settle = toPay + paid
      BY <1>3, <2>2, <3>1 DEF Docked
    <3>3. SeriesClaims(s, series[s], receipts'[s], orders, issue, settle)
      BY <2>1, <3>1, <3>2 DEF SeriesClaims, out, max, cost
    <3> QED
      BY <1>9, <1>11, <3>3 DEF ClaimsAfter
  <2> QED
    BY <2>7, <2>8
<1> QED
  BY <1>1, <1>10, <1>11, <1>12, TransferKeeps DEF f, s, issue, settle


LEMMA NextKeeps ==
    ASSUME Sound, Framed, ClaimsKept, [Next]_vars
    PROVE  ClaimsKept'
  BY NextCases, ElsewhereKeeps, SeriesChangeKeeps, SwapKeeps, TransferInKeeps,
     TransferOutKeeps, RevertKeeps

LEMMA InitClaims == Init => ClaimsKept
<1> SUFFICES ASSUME Init PROVE ClaimsKept
  OBVIOUS
<1>1. stack = << >> /\ Len(stack) = 0
  BY DEF Init
<1>2. receipts \in Balances
  BY DEF Init, Balances
<1>3. ASSUME NEW s \in AllSeries
      PROVE  SeriesClaims(s, series[s], receipts[s], aqua[s], 0, 0)
  <2>1. /\ ~series[s].created /\ ~series[s].finalized /\ series[s].outstandingUnits = 0
        /\ aqua[s]["ISSUE"] = Docked /\ aqua[s]["SETTLE"] = Docked
    BY DEF Init, NoSeries, Kinds
  <2>2. Held(receipts[s]) = 0
    <3> DEFINE f == [h \in Holders |-> receipts[s][h]]
    <3>1. IsFiniteSet(Holders) /\ f \in [Holders -> Int] /\ \A h \in Holders : f[h] = 0
      BY HoldersAssumption DEF Init, Accounts
    <3>2. Held(receipts[s]) = SumFunction(f)
      BY DEF Held
    <3> HIDE DEF f
    <3> QED
      BY <3>1, <3>2, SumZero
  <2>3. 0 + 0 <= 0 /\ 0 <= Params[s].maxUnits
    BY ParamTypes
  <2> QED
    BY <2>1, <2>2, <2>3 DEF SeriesClaims
<1>4. \A g, kind, s : Pending(stack, Len(stack), g, kind, s) = 0
  BY <1>1 DEF Pending
<1> QED
  BY <1>1, <1>2, <1>3, <1>4 DEF ClaimsKept, ClaimsHold, OneSwapPerOrder

LEMMA ClaimsAlways == Spec => []ClaimsKept
<1>1. Sound /\ Framed /\ ClaimsKept /\ [Next]_vars => ClaimsKept'
  BY NextKeeps
<1> QED
  BY <1>1, InitClaims, SoundAlways, PTL DEF Spec

\* No series reserves more than the vault has locked.
LEMMA ReservedWithinLock ==
    ASSUME Sound, NEW s \in AllSeries
    PROVE  series[s].lockedLiability <= lockedQuote
<1>1. series \in [AllSeries -> SeriesState] /\ lockedQuote = SumFunction(Locks(series))
  BY DEF Sound, Ledger
<1>2. Locks(series) \in [AllSeries -> Nat] /\ Locks(series)[s] = series[s].lockedLiability
  BY <1>1 DEF Locks, SeriesState
<1> QED
  BY <1>1, <1>2, SeriesAssumption, SumBound

\* What _priceSettle, Aqua, onBurn and the vault check of a settlement all
\* holds for every amount a holder has, once the series is final.
THEOREM SeriesRedeemTheorem ==
    ASSUME QuietAfterBurn
    PROVE  Spec => []RedeemInFull
<1>1. Sound /\ ClaimsKept /\ SolventInFlight => RedeemInFull
  <2> SUFFICES ASSUME Sound, ClaimsKept, SolventInFlight, stack = << >>,
                      NEW s \in AllSeries, NEW h \in Holders, series[s].finalized,
                      NEW n \in 1..receipts[s][h]
               PROVE  Redeemable(s, n)
    BY DEF RedeemInFull
  <2> DEFINE out == series[s].outstandingUnits
             locked == series[s].lockedLiability
             ppu == series[s].payoutPerUnit
             toPay == aqua[s]["SETTLE"]
             rest == FinalLiability(out - n, ppu)
             owed == SettleProceeds(n, ppu)
  <2>1. /\ out \in Nat /\ locked \in Nat /\ ppu \in Nat /\ toPay \in Int
        /\ balance \in Int /\ lockedQuote \in Int
        /\ locked = FinalLiability(out, ppu)
    BY SeriesFields DEF Owed, Kinds
  <2>2. /\ receipts \in Balances /\ ClaimsNow(s)
        /\ Now(s, "ISSUE", "VAR") = 0 /\ Now(s, "SETTLE", "VAR") = 0
    <3>1. Len(stack) = 0
      OBVIOUS
    <3> QED
      BY <3>1, ClaimsEach DEF Now, Pending
  <2>3. n \in Nat /\ n >= 1 /\ n <= out
    <3>1. /\ receipts[s][h] \in Nat /\ receipts[s][h] <= Held(receipts[s])
          /\ Held(receipts[s]) \in Nat
      BY <2>2, BalanceTypes DEF Accounts
    <3>2. Held(receipts[s]) + 0 <= out
      BY <2>2 DEF ClaimsNow, SeriesClaims
    <3> HIDE DEF out
    <3> QED
      BY <2>1, <3>1, <3>2
  <2>4. toPay >= locked
    <3>1. toPay = Docked => out = 0
      BY <2>2 DEF ClaimsNow, SeriesClaims
    <3>2. toPay # Docked => toPay + 0 >= locked
      BY <2>2 DEF ClaimsNow, SeriesClaims, MayCost
    <3> HIDE DEF toPay, out, locked
    <3> QED
      BY <2>1, <2>3, <3>1, <3>2
  <2>5. locked <= lockedQuote
    BY ReservedWithinLock
  <2>6. balance >= lockedQuote
    <3>1. balance + advance >= lockedQuote /\ advance = 0
      BY SolventInFlightParts DEF Chained
    <3> QED
      BY <2>1, <3>1
  <2>7. owed \in Nat /\ rest \in Nat /\ owed <= FinalLiability(out, ppu) - rest
    <3> HIDE DEF out, ppu
    <3>1. out - n \in Nat
      BY <2>1, <2>3
    <3> QED
      BY <2>1, <2>3, <3>1, SettlementWithinRelease, SettleProceedsNat, FinalLiabilityNat
  <2> HIDE DEF out, locked, ppu, toPay, rest, owed
  <2>8. owed <= locked - rest /\ locked - rest <= lockedQuote
    BY <2>1, <2>5, <2>7
  <2>9. owed <= toPay /\ owed <= balance /\ balance - owed >= lockedQuote - (locked - rest)
    BY <2>1, <2>4, <2>5, <2>6, <2>7, <2>8
  <2> QED
    BY <2>3, <2>8, <2>9 DEF Redeemable, out, locked, ppu, toPay, rest, owed
<1> QED
  BY <1>1, SoundAlways, ClaimsAlways, SolventAlways, PTL

-----------------------------------------------------------------------------
(***************************************************************************)
(* The index.  What the handlers of the subgraph make of the logs so far,  *)
(* of the swaps in flight too, mirrors the ledger at every moment.         *)
(***************************************************************************)

(* Folding logs *)

Folded(d, logs) == FoldLeft(Handle, d, logs)

FoldStep(d, logs, h, s) ==
    IF s = {} THEN d ELSE Handle(h[s \ {Max(s)}], logs[Max(s)])

\* h gives the fold over the logs of every subset of S.
Folds(d, logs, S, h) == h = [s \in SUBSET S |-> FoldStep(d, logs, h, s)]

LEMMA FoldAsRecursion ==
    ASSUME NEW d, NEW logs
    PROVE  Folded(d, logs) = (CHOOSE h : Folds(d, logs, DOMAIN logs, h))[DOMAIN logs]
  BY DEF Folded, FoldLeft, MapThenFoldSet, Folds, FoldStep

\* The recursion has one solution at most, whatever set it is taken over.
LEMMA FoldsAgree ==
    ASSUME NEW n \in Nat, NEW T, T = 1..n, NEW d,
           NEW l, NEW S, T \subseteq S, NEW h, Folds(d, l, S, h),
           NEW m, NEW k, Folds(d, m, T, k),
           \A i \in T : l[i] = m[i]
    PROVE  h[T] = k[T]
<1> DEFINE F == {s \in SUBSET T : h[s] # k[s]}
<1> SUFFICES ASSUME F # {} PROVE FALSE
  OBVIOUS
<1>1. IsFiniteSet(T)
  <2>1. 1 \in Int /\ n \in Int
    OBVIOUS
  <2>2. IsFiniteSet(1..n)
    BY <2>1, FS_Interval
  <2> QED
    BY <2>2
<1>2. PICK s \in F : \A U \in F : U \subseteq s => U = s
  <2>1. F \subseteq SUBSET T
    OBVIOUS
  <2> HIDE DEF F
  <2> QED
    BY ONLY F # {}, <1>1, <2>1, LeastSubset
<1>3. h[s] = FoldStep(d, l, h, s) /\ k[s] = FoldStep(d, m, k, s)
  <2>1. s \in SUBSET S /\ s \in SUBSET T
    OBVIOUS
  <2> QED
    BY <2>1 DEF Folds
<1>4. s # {} /\ s \in SUBSET (1..n)
  BY <1>3 DEF FoldStep
<1>5. Max(s) \in s
  <2>1. s \subseteq 0 .. n
    BY <1>4
  <2> QED
    BY <1>4, <2>1, MaxOfNumbers
<1>6. h[s \ {Max(s)}] = k[s \ {Max(s)}]
  BY <1>2, <1>5
<1>7. l[Max(s)] = m[Max(s)]
  BY <1>5
<1> QED
  BY <1>3, <1>4, <1>6, <1>7 DEF FoldStep

\* And it has a solution.
LEMMA FoldsExist ==
    ASSUME NEW n \in Nat, NEW d, NEW l
    PROVE  \E h : Folds(d, l, 1..n, h)
<1> DEFINE Solved(i) == \E h : Folds(d, l, 1..i, h)
           I == {i \in Nat : Solved(i)}
<1>1. 0 \in I
  <2> DEFINE h == [s \in SUBSET {} |-> d]
  <2>1. 1..0 = {}
    OBVIOUS
  <2>2. \A s \in SUBSET {} : FoldStep(d, l, h, s) = d
    BY DEF FoldStep
  <2>3. h = [s \in SUBSET {} |-> FoldStep(d, l, h, s)]
    BY <2>2
  <2>4. Folds(d, l, 1..0, h)
    BY <2>1, <2>3 DEF Folds
  <2> QED
    BY <2>4
<1>2. ASSUME NEW i \in Nat, i \in I PROVE i + 1 \in I
  <2>1. PICK h : Folds(d, l, 1..i, h)
    BY <1>2
  <2> DEFINE S == SUBSET (1..(i + 1))
             k == [s \in S |-> IF i + 1 \notin s THEN h[s]
                               ELSE Handle(h[s \ {i + 1}], l[i + 1])]
  <2>2. ASSUME NEW s \in S PROVE k[s] = FoldStep(d, l, k, s)
    <3>1. CASE i + 1 \in s
      <4>1. Max(s) \in s /\ \A y \in s : y <= Max(s)
        <5>1. i + 1 \in Nat /\ s # {} /\ s \subseteq 0 .. (i + 1)
          BY <3>1
        <5> QED
          BY <5>1, MaxOfNumbers
      <4>2. Max(s) = i + 1
        <5> DEFINE c == Max(s)
        <5>1. c \in 1..(i + 1) /\ c >= i + 1
          BY <3>1, <4>1
        <5> HIDE DEF c
        <5>2. c = i + 1
          BY <5>1
        <5> QED
          BY <5>2 DEF c
      <4>3. s \ {i + 1} \in S /\ i + 1 \notin s \ {i + 1}
        OBVIOUS
      <4>4. k[s \ {i + 1}] = h[s \ {i + 1}]
        BY <4>3
      <4>5. k[s] = Handle(h[s \ {i + 1}], l[i + 1])
        BY <3>1
      <4> HIDE DEF k, S
      <4> QED
        BY <3>1, <4>2, <4>4, <4>5 DEF FoldStep
    <3>2. CASE i + 1 \notin s
      <4>1. s \in SUBSET (1..i)
        BY <3>2
      <4>2. k[s] = FoldStep(d, l, h, s)
        <5>1. h[s] = FoldStep(d, l, h, s)
          BY <2>1, <4>1 DEF Folds
        <5> QED
          BY <3>2, <5>1
      <4>3. s # {} => k[s \ {Max(s)}] = h[s \ {Max(s)}]
        <5>1. s \ {Max(s)} \in S /\ i + 1 \notin s \ {Max(s)}
          BY <3>2
        <5> QED
          BY <5>1
      <4> HIDE DEF k, S
      <4> QED
        BY <4>2, <4>3 DEF FoldStep
    <3> QED
      BY <3>1, <3>2
  <2>3. k = [s \in S |-> k[s]]
    OBVIOUS
  <2> HIDE DEF k
  <2>4. k = [s \in S |-> FoldStep(d, l, k, s)]
    BY <2>2, <2>3
  <2>5. Folds(d, l, 1..(i + 1), k)
    BY <2>4 DEF Folds
  <2> QED
    BY <2>5
<1>3. Nat \subseteq I
  <2> HIDE DEF I
  <2> QED
    BY <1>1, <1>2, NatInductive
<1> QED
  BY <1>3

LEMMA FoldedUpTo ==
    ASSUME NEW d, NEW l, NEW n \in Nat, DOMAIN l = 1..n, NEW h, Folds(d, l, 1..n, h)
    PROVE  Folded(d, l) = h[1..n]
<1> DEFINE k == CHOOSE k : Folds(d, l, 1..n, k)
<1>1. Folded(d, l) = k[1..n]
  BY FoldAsRecursion
<1>2. Folds(d, l, 1..n, k)
  OBVIOUS
<1> HIDE DEF k
<1> DEFINE T == 1..n
<1>3. h[T] = k[T]
  <2>1. T = 1..n /\ T \subseteq T /\ \A i \in T : l[i] = l[i]
    OBVIOUS
  <2> HIDE DEF T
  <2> QED
    BY <1>2, <2>1, FoldsAgree
<1> QED
  BY <1>1, <1>3

LEMMA FoldNothing ==
    ASSUME NEW d
    PROVE  Folded(d, << >>) = d
<1>1. PICK h : Folds(d, << >>, 1..0, h)
  BY FoldsExist
<1>2. Folded(d, << >>) = h[1..0]
  <2>1. DOMAIN << >> = 1..0 /\ 0 \in Nat
    OBVIOUS
  <2> QED
    BY <1>1, <2>1, FoldedUpTo
<1>3. 1..0 = {}
  OBVIOUS
<1> QED
  BY <1>1, <1>2, <1>3 DEF Folds, FoldStep

\* One more log is one more step.
LEMMA FoldAppend ==
    ASSUME NEW d, NEW S, NEW l \in Seq(S), NEW e
    PROVE  Folded(d, Append(l, e)) = Handle(Folded(d, l), e)
<1> DEFINE n == Len(l)
           m == Append(l, e)
<1>1. n \in Nat /\ DOMAIN l = 1..n
  OBVIOUS
<1>2. DOMAIN m = 1..(n + 1) /\ m[n + 1] = e /\ \A i \in 1..n : m[i] = l[i]
  OBVIOUS
<1> HIDE DEF n, m
<1>3. PICK h : Folds(d, m, 1..(n + 1), h)
  BY <1>1, FoldsExist
<1>4. PICK k : Folds(d, l, 1..n, k)
  BY <1>1, FoldsExist
<1>5. Folded(d, m) = h[1..(n + 1)] /\ Folded(d, l) = k[1..n]
  <2>1. n + 1 \in Nat
    BY <1>1
  <2> QED
    BY <1>1, <1>2, <1>3, <1>4, <2>1, FoldedUpTo
<1>6. h[1..n] = k[1..n]
  <2> DEFINE S1 == 1..(n + 1)
             T == 1..n
  <2>1. T = 1..n /\ T \subseteq S1 /\ n \in Nat
    BY <1>1
  <2>2. Folds(d, m, S1, h) /\ Folds(d, l, T, k) /\ \A i \in T : m[i] = l[i]
    BY <1>2, <1>3, <1>4
  <2> HIDE DEF S1, T
  <2>3. h[T] = k[T]
    BY ONLY <2>1, <2>2, FoldsAgree
  <2> QED
    BY <2>1, <2>3
<1>7. Max(1..(n + 1)) = n + 1
  <2>1. n + 1 \in Nat /\ n + 1 \in 1..(n + 1)
    BY <1>1
  <2>2. 1..(n + 1) \subseteq 0 .. (n + 1) /\ 1..(n + 1) # {}
    BY <2>1
  <2>3. Max(1..(n + 1)) \in 1..(n + 1) /\ \A y \in 1..(n + 1) : y <= Max(1..(n + 1))
    BY <2>1, <2>2, MaxOfNumbers
  <2> QED
    BY <1>1, <2>1, <2>3
<1>8. (1..(n + 1)) \ {n + 1} = 1..n /\ 1..(n + 1) # {}
  BY <1>1
<1>9. h[1..(n + 1)] = Handle(h[1..n], m[n + 1])
  BY <1>3, <1>7, <1>8 DEF Folds, FoldStep
<1> QED
  BY <1>2, <1>5, <1>6, <1>9 DEF m

-----------------------------------------------------------------------------
(* The entities and the ledger *)

IsLogs(logs) == \E S : logs \in Seq(S)

\* The part of the chain the entities mirror, now and as a revert restores it.
View(ser, sam, lock, dep) ==
    [series |-> ser, samples |-> sam, locked |-> lock, deposited |-> dep]

Here == View(series, samples, lockedQuote, deposited)

Restored(saved) == View(saved.series, saved.samples, saved.lockedQuote, saved.deposited)

Tables == DOMAIN NoEntities

\* Entity x mirrors a series in state r, n samples into its window.
EntityOf(x, s, r, n) ==
    /\ DOMAIN x = DOMAIN NewSeries(0)
    /\ x.outstanding = r.outstandingUnits /\ x.locked = r.lockedLiability
    /\ x.stopped = r.issuanceStopped /\ x.closed = r.closed
    /\ n > 0 => x.processedThrough = Params[s].start + n - 1

\* The entity v mirrors the vault.
VaultOf(x, v) ==
    /\ DOMAIN x = DOMAIN NoVault
    /\ x.created
    /\ x.lastReportedLocked = v.locked /\ x.totalDeposited = v.deposited

SeriesOf(table, v) ==
    /\ DOMAIN table = {s \in AllSeries : v.series[s].created}
    /\ \A s \in AllSeries :
        IF v.series[s].created
        THEN EntityOf(table[s], s, v.series[s], v.samples[s])
        ELSE v.series[s] = NoSeries

FinalOf(table, ser) == DOMAIN table = {s \in AllSeries : ser[s].finalized}

Mirrors(d, v) ==
    /\ DOMAIN d = Tables /\ DOMAIN v.samples = AllSeries
    /\ VaultOf(d.vault, v)
    /\ SeriesOf(d.series, v)
    /\ FinalOf(d.finalization, v.series)

\* Two functions of the series that differ at s only.
SameBut(f, g, s) ==
    DOMAIN f = DOMAIN g /\ \A t \in AllSeries \ {s} : f[t] = g[t]

\* Of the series table, entity s only is saved, and the vault is not.
SavedAt(d, d2, s) ==
    /\ DOMAIN d2 = Tables /\ d2.vault = d.vault
    /\ DOMAIN d2.series = DOMAIN d.series \cup {s}
    /\ \A t \in DOMAIN d.series \ {s} : d2.series[t] = d.series[t]

\* These logs take what mirrors v to what mirrors w.
Tells(logs, v, w) ==
    /\ IsLogs(logs)
    /\ \A d, l : IsLogs(l) /\ Mirrors(Folded(d, l), v)
                    => IsLogs(l \o logs) /\ Mirrors(Folded(d, l \o logs), w)

LEMMA TellsNothing ==
    ASSUME NEW v
    PROVE  Tells(<< >>, v, v)
<1>1. IsLogs(<< >>)
  BY EmptySeq DEF IsLogs
<1>2. ASSUME NEW l, IsLogs(l) PROVE l \o << >> = l
  BY <1>2, ConcatEmptySeq DEF IsLogs
<1> QED
  BY <1>1, <1>2 DEF Tells

LEMMA TellsOne ==
    ASSUME NEW e, NEW v, NEW w,
           \A d : Mirrors(d, v) => Mirrors(Handle(d, e), w)
    PROVE  Tells(<<e>>, v, w)
<1>1. IsLogs(<<e>>)
  <2>1. <<e>> \in Seq({e})
    OBVIOUS
  <2> QED
    BY <2>1 DEF IsLogs
<1>2. ASSUME NEW d, NEW l, IsLogs(l), Mirrors(Folded(d, l), v)
      PROVE  IsLogs(l \o <<e>>) /\ Mirrors(Folded(d, l \o <<e>>), w)
  <2>1. PICK S : l \in Seq(S)
    BY <1>2 DEF IsLogs
  <2> DEFINE T == S \cup {e}
  <2>2. l \in Seq(T) /\ e \in T
    BY <2>1, SeqMonotonic
  <2> HIDE DEF T
  <2>3. l \o <<e>> = Append(l, e) /\ Append(l, e) \in Seq(T)
    BY <2>2, AppendIsConcat, AppendProperties
  <2>4. Folded(d, Append(l, e)) = Handle(Folded(d, l), e)
    BY <2>2, FoldAppend
  <2>5. Mirrors(Handle(Folded(d, l), e), w)
    BY <1>2
  <2> QED
    BY <2>3, <2>4, <2>5 DEF IsLogs
<1> QED
  BY <1>1, <1>2 DEF Tells

LEMMA LogsJoin ==
    ASSUME NEW k, NEW l, NEW m, IsLogs(k), IsLogs(l), IsLogs(m)
    PROVE  IsLogs(k \o l) /\ (k \o l) \o m = k \o (l \o m)
<1>1. PICK A, B, C : k \in Seq(A) /\ l \in Seq(B) /\ m \in Seq(C)
  BY DEF IsLogs
<1> DEFINE S == A \cup B \cup C
<1>2. k \in Seq(S) /\ l \in Seq(S) /\ m \in Seq(S)
  BY <1>1, SeqMonotonic
<1> HIDE DEF S
<1>3. k \o l \in Seq(S)
  BY <1>2, ConcatProperties
<1> QED
  BY SMTT(30), <1>2, <1>3, ConcatAssociative DEF IsLogs

LEMMA TellsThen ==
    ASSUME NEW k, NEW l, NEW u, NEW v, NEW w, Tells(k, u, v), Tells(l, v, w)
    PROVE  Tells(k \o l, u, w)
<1>1. IsLogs(k) /\ IsLogs(l) /\ IsLogs(k \o l)
  BY LogsJoin DEF Tells
<1>2. ASSUME NEW d, NEW m, IsLogs(m), Mirrors(Folded(d, m), u)
      PROVE  IsLogs(m \o (k \o l)) /\ Mirrors(Folded(d, m \o (k \o l)), w)
  <2>1. IsLogs(m \o k) /\ Mirrors(Folded(d, m \o k), v)
    BY <1>2 DEF Tells
  <2>2. IsLogs((m \o k) \o l) /\ Mirrors(Folded(d, (m \o k) \o l), w)
    BY <2>1 DEF Tells
  <2>3. (m \o k) \o l = m \o (k \o l)
    BY <1>1, <1>2, LogsJoin
  <2> QED
    BY <2>2, <2>3
<1> QED
  BY <1>1, <1>2 DEF Tells
-----------------------------------------------------------------------------
(* The handlers *)

\* Handlers that touch what mirrors one series only, and no other.
LEMMA OneSeries ==
    ASSUME NEW ser, NEW sam, NEW ser2, NEW sam2, NEW lock, NEW dep, NEW s \in AllSeries,
           NEW d, Mirrors(d, View(ser, sam, lock, dep)),
           ser2[s].created,
           SameBut(ser2, ser, s), SameBut(sam2, sam, s),
           NEW d2, SavedAt(d, d2, s), EntityOf(d2.series[s], s, ser2[s], sam2[s]),
           FinalOf(d2.finalization, ser2)
    PROVE  Mirrors(d2, View(ser2, sam2, lock, dep))
<1> DEFINE v == View(ser, sam, lock, dep)
           w == View(ser2, sam2, lock, dep)
<1>1. /\ v.series = ser /\ v.samples = sam
      /\ v.locked = lock /\ v.deposited = dep
      /\ w.series = ser2 /\ w.samples = sam2
      /\ w.locked = lock /\ w.deposited = dep
  BY DEF View
<1> HIDE DEF v, w
<1>2. VaultOf(d.vault, v) /\ SeriesOf(d.series, v)
  BY DEF Mirrors, v
<1>3. VaultOf(d2.vault, w)
  BY <1>1, <1>2 DEF VaultOf, SavedAt
<1>4. DOMAIN d2.series = {t \in AllSeries : ser2[t].created}
  <2>1. DOMAIN d.series = {t \in AllSeries : ser[t].created}
    BY <1>1, <1>2 DEF SeriesOf
  <2> QED
    BY <2>1 DEF SavedAt, SameBut
<1>5. ASSUME NEW t \in AllSeries
      PROVE  IF ser2[t].created THEN EntityOf(d2.series[t], t, ser2[t], sam2[t])
             ELSE ser2[t] = NoSeries
  <2>1. CASE t = s
    BY <2>1
  <2>2. CASE t # s
    <3>1. ser2[t] = ser[t] /\ sam2[t] = sam[t]
      BY <2>2 DEF SameBut
    <3>2. IF ser[t].created THEN EntityOf(d.series[t], t, ser[t], sam[t]) ELSE ser[t] = NoSeries
      BY <1>1, <1>2 DEF SeriesOf
    <3>3. ser[t].created => t \in DOMAIN d.series \ {s}
      BY <1>1, <1>2, <2>2 DEF SeriesOf
    <3> QED
      BY <3>1, <3>2, <3>3 DEF SavedAt
  <2> QED
    BY <2>1, <2>2
<1>6. SeriesOf(d2.series, w)
  BY <1>1, <1>4, <1>5 DEF SeriesOf
<1> QED
  <2>1. DOMAIN w.samples = AllSeries
    BY <1>1 DEF Mirrors, SameBut, v
  <2> QED
    BY <1>1, <1>3, <1>6, <2>1 DEF Mirrors, SavedAt, w

LEMMA StoreFields ==
           /\ Tables = {"vault", "series", "order", "fills", "balance", "finalization"}
           /\ DOMAIN NewSeries(0) =
                {"unitsIssued", "unitsExited", "unitsSettled", "unitsBurned", "premiumCollected",
                 "exitPaid", "settlementPaid", "outstanding", "locked", "processedThrough",
                 "stopped", "closed"}
           /\ DOMAIN NoVault = {"created", "totalDeposited", "totalWithdrawn",
                                "lastReportedBalance", "lastReportedLocked", "actions"}
  BY DEF Tables, NoEntities, NewSeries, NoVault

\* What a series of the store is to its view.
LEMMA SeriesKnown ==
    ASSUME NEW ser, NEW sam, NEW lock, NEW dep, NEW d, NEW s \in AllSeries,
           Mirrors(d, View(ser, sam, lock, dep)), ser[s].created
    PROVE  s \in DOMAIN d.series /\ EntityOf(d.series[s], s, ser[s], sam[s])
  BY DEF Mirrors, SeriesOf, View

LEMMA SeriesHandled ==
    ASSUME NEW d, NEW e, NEW s, e.series = s, s \in DOMAIN d.series, e.source # "vault",
           e.event \notin {"VaultCreated", "SeriesCreated", "Swapped"}
    PROVE  Handle(d, e) = HandleSeriesEvent(d, e)
  BY DEF Handle, Known

\* An event whose handler saves the entity of a series anew.
LEMMA EntityTold ==
    ASSUME NEW ser, NEW sam, NEW lock, NEW dep, NEW s \in AllSeries, ser[s].created,
           NEW ser2, ser2[s].created, ser2[s].finalized <=> ser[s].finalized, NEW sam2,
           SameBut(ser2, ser, s), SameBut(sam2, sam, s),
           NEW e,
           \A d : s \in DOMAIN d.series /\ EntityOf(d.series[s], s, ser[s], sam[s])
                    => \E x : /\ Handle(d, e) = [d EXCEPT !.series[s] = x]
                              /\ EntityOf(x, s, ser2[s], sam2[s])
    PROVE  Tells(<<e>>, View(ser, sam, lock, dep), View(ser2, sam2, lock, dep))
<1> DEFINE v == View(ser, sam, lock, dep)
<1>1. v.series = ser
  BY DEF View
<1>2. ASSUME NEW d, Mirrors(d, v)
      PROVE  Mirrors(Handle(d, e), View(ser2, sam2, lock, dep))
  <2>1. s \in DOMAIN d.series /\ EntityOf(d.series[s], s, ser[s], sam[s])
    BY <1>2, SeriesKnown
  <2> DEFINE d2 == Handle(d, e)
  <2>2. PICK x : d2 = [d EXCEPT !.series[s] = x] /\ EntityOf(x, s, ser2[s], sam2[s])
    BY <2>1
  <2>3. Mirrors(d, v) /\ v.series[s].created
    BY <1>1, <1>2
  <2> HIDE DEF d2, v
  <2> DEFINE table == [d.series EXCEPT ![s] = x]
  <2>4. DOMAIN table = DOMAIN d.series \cup {s} /\ table[s] = x
        /\ \A t \in DOMAIN d.series \ {s} : table[t] = d.series[t]
    BY <2>1
  <2>5. d2 = [d EXCEPT !.series = table] /\ DOMAIN d = Tables
    BY <2>2, <2>3 DEF Mirrors
  <2> HIDE DEF table
  <2>6. DOMAIN d2 = Tables /\ d2.series = table /\ d2.vault = d.vault
        /\ d2.finalization = d.finalization
    BY <2>5, StoreFields
  <2>7. FinalOf(d2.finalization, ser2)
    BY <1>1, <2>3, <2>6 DEF Mirrors, FinalOf, SameBut
  <2>8. SavedAt(d, d2, s) /\ EntityOf(d2.series[s], s, ser2[s], sam2[s])
    BY <2>2, <2>4, <2>6 DEF SavedAt
  <2>9. Mirrors(d, View(ser, sam, lock, dep))
    BY <2>3 DEF v
  <2>10. Mirrors(d2, View(ser2, sam2, lock, dep))
    BY <2>7, <2>8, <2>9, OneSeries
  <2> QED
    BY <2>10 DEF d2
<1> QED
  BY <1>2, TellsOne

\* Issued, Exited, Settled: the controller reports absolute figures.
LEMMA ReportTold ==
    ASSUME NEW ser, NEW sam, NEW lock, NEW dep, NEW s \in AllSeries, ser[s].created,
           NEW ser2, ser2[s].created, ser2[s].finalized <=> ser[s].finalized,
           SameBut(ser2, ser, s),
           ser2[s].issuanceStopped = ser[s].issuanceStopped, ser2[s].closed = ser[s].closed,
           NEW e, e.source = "market", e.event \in {"Issued", "Exited", "Settled"},
           e.series = s, e.newOutstanding = ser2[s].outstandingUnits,
           e.newLocked = ser2[s].lockedLiability
    PROVE  Tells(<<e>>, View(ser, sam, lock, dep), View(ser2, sam, lock, dep))
<1>1. ASSUME NEW d, s \in DOMAIN d.series, EntityOf(d.series[s], s, ser[s], sam[s])
      PROVE  \E x : /\ Handle(d, e) = [d EXCEPT !.series[s] = x]
                    /\ EntityOf(x, s, ser2[s], sam[s])
  <2>1. Handle(d, e) = HandleSeriesEvent(d, e)
    BY <1>1, SeriesHandled
  <2> DEFINE y == d.series[s]
             Reported(x) == /\ DOMAIN x = DOMAIN y
                            /\ x.outstanding = e.newOutstanding /\ x.locked = e.newLocked
                            /\ x.stopped = y.stopped /\ x.closed = y.closed
                            /\ x.processedThrough = y.processedThrough
  <2>2. DOMAIN y = DOMAIN NewSeries(0)
    BY <1>1 DEF EntityOf
  <2>3. ASSUME NEW x, Reported(x) PROVE EntityOf(x, s, ser2[s], sam[s])
    BY <1>1, <2>3 DEF EntityOf
  <2> HIDE DEF y
  <2>4. CASE e.event = "Issued"
    <3> DEFINE x == [y EXCEPT !.unitsIssued = y.unitsIssued + e.units,
                              !.premiumCollected = y.premiumCollected + e.quote,
                              !.outstanding = e.newOutstanding, !.locked = e.newLocked]
    <3>1. Handle(d, e) = [d EXCEPT !.series[s] = x]
      BY <2>1, <2>4 DEF HandleSeriesEvent, HandleIssued, y
    <3>2. Reported(x)
      BY <2>2, StoreFields
    <3> HIDE DEF x, Reported
    <3> QED
      BY <2>3, <3>1, <3>2
  <2>5. CASE e.event = "Exited"
    <3> DEFINE x == [y EXCEPT !.unitsExited = y.unitsExited + e.units,
                              !.exitPaid = y.exitPaid + e.quote,
                              !.outstanding = e.newOutstanding, !.locked = e.newLocked]
    <3>1. Handle(d, e) = [d EXCEPT !.series[s] = x]
      BY <2>1, <2>5 DEF HandleSeriesEvent, HandleExited, y
    <3>2. Reported(x)
      BY <2>2, StoreFields
    <3> HIDE DEF x, Reported
    <3> QED
      BY <2>3, <3>1, <3>2
  <2>6. CASE e.event = "Settled"
    <3> DEFINE x == [y EXCEPT !.unitsSettled = y.unitsSettled + e.units,
                              !.settlementPaid = y.settlementPaid + e.quote,
                              !.outstanding = e.newOutstanding, !.locked = e.newLocked]
    <3>1. Handle(d, e) = [d EXCEPT !.series[s] = x]
      BY <2>1, <2>6 DEF HandleSeriesEvent, HandleSettled, y
    <3>2. Reported(x)
      BY <2>2, StoreFields
    <3> HIDE DEF x, Reported
    <3> QED
      BY <2>3, <3>1, <3>2
  <2> QED
    BY <2>4, <2>5, <2>6
<1>2. SameBut(sam, sam, s)
  BY DEF SameBut
<1> QED
  BY <1>1, <1>2, EntityTold

LEMMA WorthlessTold ==
    ASSUME NEW ser, NEW sam, NEW lock, NEW dep, NEW s \in AllSeries, ser[s].created,
           NEW units, NEW ser2, SameBut(ser2, ser, s),
           ser2[s].created, ser2[s].finalized <=> ser[s].finalized,
           ser2[s].issuanceStopped = ser[s].issuanceStopped, ser2[s].closed = ser[s].closed,
           ser2[s].outstandingUnits = ser[s].outstandingUnits - units,
           ser2[s].lockedLiability = ser[s].lockedLiability,
           NEW e, e.source = "market", e.event = "WorthlessBurned", e.series = s,
           e.units = units
    PROVE  Tells(<<e>>, View(ser, sam, lock, dep), View(ser2, sam, lock, dep))
<1>1. ASSUME NEW d, s \in DOMAIN d.series, EntityOf(d.series[s], s, ser[s], sam[s])
      PROVE  \E x : /\ Handle(d, e) = [d EXCEPT !.series[s] = x]
                    /\ EntityOf(x, s, ser2[s], sam[s])
  <2>1. Handle(d, e) = HandleSeriesEvent(d, e)
    BY <1>1, SeriesHandled
  <2> DEFINE y == d.series[s]
             x == [y EXCEPT !.unitsBurned = y.unitsBurned + e.units,
                            !.outstanding = y.outstanding - e.units]
  <2>2. Handle(d, e) = [d EXCEPT !.series[s] = x]
    BY <2>1 DEF HandleSeriesEvent, HandleWorthlessBurned
  <2>3. EntityOf(y, s, ser[s], sam[s])
    BY <1>1
  <2> HIDE DEF y
  <2>4. /\ DOMAIN x = DOMAIN y
        /\ x.outstanding = y.outstanding - units /\ x.locked = y.locked
        /\ x.stopped = y.stopped /\ x.closed = y.closed
        /\ x.processedThrough = y.processedThrough
    BY <2>3, StoreFields DEF EntityOf
  <2> HIDE DEF x
  <2>5. EntityOf(x, s, ser2[s], sam[s])
    BY <2>3, <2>4 DEF EntityOf
  <2> QED
    BY <2>2, <2>5
<1>2. SameBut(sam, sam, s)
  BY DEF SameBut
<1> QED
  BY <1>1, <1>2, EntityTold

LEMMA StopTold ==
    ASSUME NEW ser, NEW sam, NEW lock, NEW dep, NEW s \in AllSeries, ser[s].created,
           NEW ser2, SameBut(ser2, ser, s),
           ser2[s].created, ser2[s].finalized <=> ser[s].finalized,
           ser2[s].issuanceStopped = TRUE, ser2[s].closed = ser[s].closed,
           ser2[s].outstandingUnits = ser[s].outstandingUnits,
           ser2[s].lockedLiability = ser[s].lockedLiability,
           NEW e, e.source = "market", e.event = "IssuanceStopped", e.series = s
    PROVE  Tells(<<e>>, View(ser, sam, lock, dep), View(ser2, sam, lock, dep))
<1>1. ASSUME NEW d, s \in DOMAIN d.series, EntityOf(d.series[s], s, ser[s], sam[s])
      PROVE  \E x : /\ Handle(d, e) = [d EXCEPT !.series[s] = x]
                    /\ EntityOf(x, s, ser2[s], sam[s])
  <2>1. Handle(d, e) = HandleSeriesEvent(d, e)
    BY <1>1, SeriesHandled
  <2> DEFINE y == d.series[s]
             x == [y EXCEPT !.stopped = TRUE]
  <2>2. Handle(d, e) = [d EXCEPT !.series[s] = x]
    BY <2>1 DEF HandleSeriesEvent, HandleIssuanceStopped
  <2>3. EntityOf(y, s, ser[s], sam[s])
    BY <1>1
  <2> HIDE DEF y
  <2>4. /\ DOMAIN x = DOMAIN y
        /\ x.outstanding = y.outstanding /\ x.locked = y.locked
        /\ x.stopped = TRUE /\ x.closed = y.closed
        /\ x.processedThrough = y.processedThrough
    BY <2>3, StoreFields DEF EntityOf
  <2> HIDE DEF x
  <2>5. EntityOf(x, s, ser2[s], sam[s])
    BY <2>3, <2>4 DEF EntityOf
  <2> QED
    BY <2>2, <2>5
<1>2. SameBut(sam, sam, s)
  BY DEF SameBut
<1> QED
  BY <1>1, <1>2, EntityTold

LEMMA CloseTold ==
    ASSUME NEW ser, NEW sam, NEW lock, NEW dep, NEW s \in AllSeries, ser[s].created,
           NEW ser2, SameBut(ser2, ser, s),
           ser2[s].created, ser2[s].finalized <=> ser[s].finalized,
           ser2[s].issuanceStopped = ser[s].issuanceStopped, ser2[s].closed = TRUE,
           ser2[s].outstandingUnits = ser[s].outstandingUnits,
           ser2[s].lockedLiability = 0,
           NEW e, e.source = "market", e.event = "SeriesClosed", e.series = s
    PROVE  Tells(<<e>>, View(ser, sam, lock, dep), View(ser2, sam, lock, dep))
<1>1. ASSUME NEW d, s \in DOMAIN d.series, EntityOf(d.series[s], s, ser[s], sam[s])
      PROVE  \E x : /\ Handle(d, e) = [d EXCEPT !.series[s] = x]
                    /\ EntityOf(x, s, ser2[s], sam[s])
  <2>1. Handle(d, e) = HandleSeriesEvent(d, e)
    BY <1>1, SeriesHandled
  <2> DEFINE y == d.series[s]
             x == [y EXCEPT !.closed = TRUE, !.locked = 0]
  <2>2. Handle(d, e) = [d EXCEPT !.series[s] = x]
    BY <2>1 DEF HandleSeriesEvent, HandleSeriesClosed
  <2>3. EntityOf(y, s, ser[s], sam[s])
    BY <1>1
  <2> HIDE DEF y
  <2>4. /\ DOMAIN x = DOMAIN y
        /\ x.outstanding = y.outstanding /\ x.locked = 0
        /\ x.stopped = y.stopped /\ x.closed = TRUE
        /\ x.processedThrough = y.processedThrough
    BY <2>3, StoreFields DEF EntityOf
  <2> HIDE DEF x
  <2>5. EntityOf(x, s, ser2[s], sam[s])
    BY <2>3, <2>4 DEF EntityOf
  <2> QED
    BY <2>2, <2>5
<1>2. SameBut(sam, sam, s)
  BY DEF SameBut
<1> QED
  BY <1>1, <1>2, EntityTold

LEMMA ProgressTold ==
    ASSUME NEW ser, NEW sam, NEW lock, NEW dep, NEW s \in AllSeries, ser[s].created,
           NEW sam2, SameBut(sam2, sam, s)
    PROVE  Tells(<<Progress(s, sam2[s])>>, View(ser, sam, lock, dep),
                 View(ser, sam2, lock, dep))
<1> DEFINE e == Progress(s, sam2[s])
<1>0. e.source = "market" /\ e.event = "Checkpointed" /\ e.series = s
      /\ e.processedThrough = Params[s].start + sam2[s] - 1
  BY DEF Progress
<1> HIDE DEF e
<1>1. ASSUME NEW d, s \in DOMAIN d.series, EntityOf(d.series[s], s, ser[s], sam[s])
      PROVE  \E x : /\ Handle(d, e) = [d EXCEPT !.series[s] = x]
                    /\ EntityOf(x, s, ser[s], sam2[s])
  <2>1. Handle(d, e) = HandleSeriesEvent(d, e)
    BY <1>0, <1>1, SeriesHandled
  <2> DEFINE y == d.series[s]
             x == [y EXCEPT !.processedThrough = e.processedThrough]
  <2>2. Handle(d, e) = [d EXCEPT !.series[s] = x]
    BY <1>0, <2>1 DEF HandleSeriesEvent, HandleCheckpointed
  <2>3. EntityOf(y, s, ser[s], sam[s])
    BY <1>1
  <2> HIDE DEF y
  <2>4. /\ DOMAIN x = DOMAIN y
        /\ x.outstanding = y.outstanding /\ x.locked = y.locked
        /\ x.stopped = y.stopped /\ x.closed = y.closed
        /\ x.processedThrough = e.processedThrough
    BY <2>3, StoreFields DEF EntityOf
  <2> HIDE DEF x
  <2>5. EntityOf(x, s, ser[s], sam2[s])
    BY <1>0, <2>3, <2>4 DEF EntityOf
  <2> QED
    BY <2>2, <2>5
<1>2. SameBut(ser, ser, s)
  BY DEF SameBut
<1>3. Tells(<<e>>, View(ser, sam, lock, dep), View(ser, sam2, lock, dep))
  BY <1>1, <1>2, EntityTold
<1> QED
  BY <1>3 DEF e

\* The vault's entity is saved: what of it is mirrored.
LEMMA VaultSaved ==
    ASSUME NEW ser, NEW sam, NEW lock, NEW dep, NEW lock2, NEW dep2, NEW d,
           Mirrors(d, View(ser, sam, lock, dep)),
           NEW x, DOMAIN x = DOMAIN NoVault, x.created,
           x.lastReportedLocked = lock2, x.totalDeposited = dep2
    PROVE  Mirrors([d EXCEPT !.vault = x], View(ser, sam, lock2, dep2))
<1> DEFINE v == View(ser, sam, lock, dep)
           w == View(ser, sam, lock2, dep2)
           d2 == [d EXCEPT !.vault = x]
<1>1. /\ v.series = ser /\ v.samples = sam /\ w.series = ser /\ w.samples = sam
      /\ w.locked = lock2 /\ w.deposited = dep2
  BY DEF View
<1>2. Mirrors(d, v)
  OBVIOUS
<1> HIDE DEF v, w
<1>3. DOMAIN d = Tables
  BY <1>2 DEF Mirrors
<1>4. DOMAIN d2 = Tables /\ d2.vault = x /\ d2.series = d.series
      /\ d2.finalization = d.finalization
  BY <1>3, StoreFields
<1> HIDE DEF d2
<1>5. VaultOf(x, w)
  BY <1>1 DEF VaultOf
<1>6. SeriesOf(d.series, w)
  <2>1. SeriesOf(d.series, v)
    BY <1>2 DEF Mirrors
  <2> QED
    BY <1>1, <2>1 DEF SeriesOf
<1>7. FinalOf(d.finalization, w.series)
  BY <1>1, <1>2 DEF Mirrors
<1>8. DOMAIN w.samples = AllSeries
  BY <1>1, <1>2 DEF Mirrors
<1> QED
  BY <1>4, <1>5, <1>6, <1>7, <1>8 DEF Mirrors, d2, w

LEMMA VaultKnown ==
    ASSUME NEW ser, NEW sam, NEW lock, NEW dep, NEW d,
           Mirrors(d, View(ser, sam, lock, dep))
    PROVE  /\ DOMAIN d.vault = DOMAIN NoVault /\ d.vault.created
           /\ d.vault.lastReportedLocked = lock /\ d.vault.totalDeposited = dep
  BY DEF Mirrors, VaultOf, View

LEMMA VaultHandled ==
    ASSUME NEW d, NEW e, e.source = "vault"
    PROVE  /\ e.event \in {"LockedIncreased", "LockedDecreased", "ReceiptRegistered",
                           "StrategyShipped", "StrategyDocked"}
                => Handle(d, e) = Record(d, e)
           /\ e.event = "Deposited" => Handle(d, e) = HandleDeposited(d, e)
           /\ e.event = "FreeWithdrawn" => Handle(d, e) = HandleFreeWithdrawn(d, e)
<1>1. e.event # "VaultCreated" /\ e.event # "SeriesCreated" /\ e.event # "Swapped"
      => Handle(d, e) = HandleVaultEvent(d, e)
  BY DEF Handle
<1>2. CASE e.event = "LockedIncreased"
  BY <1>1, <1>2 DEF HandleVaultEvent, HandleLockedIncreased
<1>3. CASE e.event = "LockedDecreased"
  BY <1>1, <1>3 DEF HandleVaultEvent, HandleLockedDecreased
<1>4. CASE e.event = "ReceiptRegistered"
  BY <1>1, <1>4 DEF HandleVaultEvent, HandleReceiptRegistered
<1>5. CASE e.event = "StrategyShipped"
  BY <1>1, <1>5 DEF HandleVaultEvent, HandleStrategyShipped
<1>6. CASE e.event = "StrategyDocked"
  BY <1>1, <1>6 DEF HandleVaultEvent, HandleStrategyDocked
<1>7. CASE e.event = "Deposited"
  BY <1>1, <1>7 DEF HandleVaultEvent
<1>8. CASE e.event = "FreeWithdrawn"
  BY <1>1, <1>8 DEF HandleVaultEvent
<1> QED
  BY <1>2, <1>3, <1>4, <1>5, <1>6, <1>7, <1>8

\* What Record makes of a vault: the lock an event reports, or the one before.
LEMMA Recorded ==
    ASSUME NEW d, DOMAIN d.vault = DOMAIN NoVault, d.vault.created, NEW e
    PROVE  \E x : /\ Record(d, e) = [d EXCEPT !.vault = x]
                  /\ DOMAIN x = DOMAIN NoVault /\ x.created
                  /\ x.totalDeposited = d.vault.totalDeposited
                  /\ x.lastReportedLocked = IF "locked" \in DOMAIN e THEN e.locked
                                            ELSE d.vault.lastReportedLocked
<1> DEFINE y == d.vault
           bal == IF "balance" \in DOMAIN e THEN e.balance ELSE y.lastReportedBalance
           lck == IF "locked" \in DOMAIN e THEN e.locked ELSE y.lastReportedLocked
           act == IF "reference" \in DOMAIN e THEN y.actions \union {<<e.event, e.reference>>}
                  ELSE y.actions
           x == [y EXCEPT !.lastReportedBalance = bal, !.lastReportedLocked = lck,
                          !.actions = act]
<1>1. Record(d, e) = [d EXCEPT !.vault = x]
  BY DEF Record
<1>2. DOMAIN y = DOMAIN NoVault /\ y.created
  OBVIOUS
<1> HIDE DEF bal, act, y
<1>3. DOMAIN x = DOMAIN NoVault /\ x.created
      /\ x.totalDeposited = y.totalDeposited /\ x.lastReportedLocked = lck
  BY <1>2, StoreFields
<1> HIDE DEF x
<1> QED
  BY <1>1, <1>3 DEF y

\* The vault reports its lock.
LEMMA LockTold ==
    ASSUME NEW ser, NEW sam, NEW lock, NEW dep, NEW lock2,
           NEW kind \in {"LockedIncreased", "LockedDecreased"}
    PROVE  Tells(<<[source |-> "vault", event |-> kind, locked |-> lock2]>>,
                 View(ser, sam, lock, dep), View(ser, sam, lock2, dep))
<1> DEFINE e == [source |-> "vault", event |-> kind, locked |-> lock2]
<1>1. "locked" \in DOMAIN e /\ e.locked = lock2 /\ e.source = "vault" /\ e.event = kind
  OBVIOUS
<1> HIDE DEF e
<1>2. ASSUME NEW d, Mirrors(d, View(ser, sam, lock, dep))
      PROVE  Mirrors(Handle(d, e), View(ser, sam, lock2, dep))
  <2>1. DOMAIN d.vault = DOMAIN NoVault /\ d.vault.created
        /\ d.vault.totalDeposited = dep
    BY <1>2, VaultKnown
  <2>2. Handle(d, e) = Record(d, e)
    BY <1>1, VaultHandled
  <2>3. PICK x : /\ Record(d, e) = [d EXCEPT !.vault = x]
                 /\ DOMAIN x = DOMAIN NoVault /\ x.created
                 /\ x.totalDeposited = d.vault.totalDeposited
                 /\ x.lastReportedLocked = IF "locked" \in DOMAIN e THEN e.locked
                                           ELSE d.vault.lastReportedLocked
    BY ZenonT(60), <2>1, Recorded
  <2>4. x.totalDeposited = dep /\ x.lastReportedLocked = lock2
    BY <1>1, <2>1, <2>3
  <2>5. Mirrors([d EXCEPT !.vault = x], View(ser, sam, lock2, dep))
    BY <1>2, <2>3, <2>4, VaultSaved
  <2> QED
    BY <2>2, <2>3, <2>5
<1>3. Tells(<<e>>, View(ser, sam, lock, dep), View(ser, sam, lock2, dep))
  BY <1>2, TellsOne
<1> QED
  BY <1>3 DEF e

\* What the vault logs of its receipts and strategies is no part of the view.
LEMMA ReferenceTold ==
    ASSUME NEW ser, NEW sam, NEW lock, NEW dep, NEW ref,
           NEW kind \in {"ReceiptRegistered", "StrategyShipped", "StrategyDocked"}
    PROVE  Tells(Referenced(kind, ref),
                 View(ser, sam, lock, dep), View(ser, sam, lock, dep))
<1> DEFINE e == [source |-> "vault", event |-> kind, reference |-> ref]
<1>1. "locked" \notin DOMAIN e /\ e.source = "vault" /\ e.event = kind
  OBVIOUS
<1> HIDE DEF e
<1>2. ASSUME NEW d, Mirrors(d, View(ser, sam, lock, dep))
      PROVE  Mirrors(Handle(d, e), View(ser, sam, lock, dep))
  <2>1. DOMAIN d.vault = DOMAIN NoVault /\ d.vault.created
        /\ d.vault.totalDeposited = dep /\ d.vault.lastReportedLocked = lock
    BY <1>2, VaultKnown
  <2>2. Handle(d, e) = Record(d, e)
    BY <1>1, VaultHandled
  <2>3. PICK x : /\ Record(d, e) = [d EXCEPT !.vault = x]
                 /\ DOMAIN x = DOMAIN NoVault /\ x.created
                 /\ x.totalDeposited = d.vault.totalDeposited
                 /\ x.lastReportedLocked = IF "locked" \in DOMAIN e THEN e.locked
                                           ELSE d.vault.lastReportedLocked
    BY ZenonT(60), <2>1, Recorded
  <2>4. x.totalDeposited = dep /\ x.lastReportedLocked = lock
    BY <1>1, <2>1, <2>3
  <2>5. Mirrors([d EXCEPT !.vault = x], View(ser, sam, lock, dep))
    BY <1>2, <2>3, <2>4, VaultSaved
  <2> QED
    BY <2>2, <2>3, <2>5
<1>3. Tells(<<e>>, View(ser, sam, lock, dep), View(ser, sam, lock, dep))
  BY <1>2, TellsOne
<1> QED
  BY <1>3 DEF e, Referenced

\* The vault's entity saved twice in one handler.
LEMMA SavedTwice ==
    ASSUME NEW d, DOMAIN d = Tables, NEW x, NEW y
    PROVE  /\ [[d EXCEPT !.vault = x] EXCEPT !.vault = y] = [d EXCEPT !.vault = y]
           /\ [d EXCEPT !.vault = x].vault = x
  BY StoreFields

LEMMA CollateralTold ==
    ASSUME NEW ser, NEW sam, NEW lock, NEW dep, NEW amount, NEW bal, NEW lock2,
           NEW kind \in {"Deposited", "FreeWithdrawn"}, NEW dep2,
           dep2 = IF kind = "Deposited" THEN dep + amount ELSE dep
    PROVE  Tells(<<[source |-> "vault", event |-> kind, amount |-> amount,
                    balance |-> bal, locked |-> lock2]>>,
                 View(ser, sam, lock, dep), View(ser, sam, lock2, dep2))
<1> DEFINE e == [source |-> "vault", event |-> kind, amount |-> amount,
                 balance |-> bal, locked |-> lock2]
<1>1. "locked" \in DOMAIN e /\ e.locked = lock2 /\ e.source = "vault" /\ e.event = kind
      /\ e.amount = amount
  OBVIOUS
<1> HIDE DEF e
<1>2. ASSUME NEW d, Mirrors(d, View(ser, sam, lock, dep))
      PROVE  Mirrors(Handle(d, e), View(ser, sam, lock2, dep2))
  <2>1. DOMAIN d.vault = DOMAIN NoVault /\ d.vault.created
        /\ d.vault.totalDeposited = dep
    BY <1>2, VaultKnown
  <2>2. DOMAIN d = Tables
    BY <1>2 DEF Mirrors
  <2> DEFINE v == d.vault
  <2>3. PICK y : /\ Handle(d, e) = Record([d EXCEPT !.vault = y], e)
                 /\ DOMAIN y = DOMAIN NoVault /\ y.created /\ y.totalDeposited = dep2
    <3>1. CASE kind = "Deposited"
      <4> DEFINE y == [v EXCEPT !.totalDeposited = v.totalDeposited + e.amount]
      <4>1. Handle(d, e) = Record([d EXCEPT !.vault = y], e)
        BY <1>1, <2>1, <3>1, VaultHandled DEF HandleDeposited
      <4>2. DOMAIN y = DOMAIN NoVault /\ y.created /\ y.totalDeposited = dep2
        BY <1>1, <2>1, <3>1, StoreFields
      <4> HIDE DEF y
      <4> QED
        BY <4>1, <4>2
    <3>2. CASE kind = "FreeWithdrawn"
      <4> DEFINE y == [v EXCEPT !.totalWithdrawn = v.totalWithdrawn + e.amount]
      <4>1. Handle(d, e) = Record([d EXCEPT !.vault = y], e)
        BY <1>1, <2>1, <3>2, VaultHandled DEF HandleFreeWithdrawn
      <4>2. DOMAIN y = DOMAIN NoVault /\ y.created /\ y.totalDeposited = dep2
        BY <1>1, <2>1, <3>2, StoreFields
      <4> HIDE DEF y
      <4> QED
        BY <4>1, <4>2
    <3> QED
      BY <3>1, <3>2
  <2> DEFINE d1 == [d EXCEPT !.vault = y]
  <2>4. d1.vault = y
    BY <2>2, SavedTwice
  <2> HIDE DEF d1
  <2>5. PICK x : /\ Record(d1, e) = [d1 EXCEPT !.vault = x]
                 /\ DOMAIN x = DOMAIN NoVault /\ x.created
                 /\ x.totalDeposited = d1.vault.totalDeposited
                 /\ x.lastReportedLocked = IF "locked" \in DOMAIN e THEN e.locked
                                           ELSE d1.vault.lastReportedLocked
    <3>1. DOMAIN d1.vault = DOMAIN NoVault /\ d1.vault.created
      BY <2>3, <2>4
    <3> QED
      BY ZenonT(60), <3>1, Recorded
  <2>6. [d1 EXCEPT !.vault = x] = [d EXCEPT !.vault = x]
    BY <2>2, SavedTwice DEF d1
  <2>7. x.totalDeposited = dep2 /\ x.lastReportedLocked = lock2
    BY <1>1, <2>3, <2>4, <2>5
  <2>8. Mirrors([d EXCEPT !.vault = x], View(ser, sam, lock2, dep2))
    BY <1>2, <2>5, <2>7, VaultSaved
  <2> QED
    BY <2>3, <2>5, <2>6, <2>8 DEF d1
<1>3. Tells(<<e>>, View(ser, sam, lock, dep), View(ser, sam, lock2, dep2))
  BY <1>2, TellsOne
<1> QED
  BY <1>3 DEF e

LEMMA VaultCreatedTold ==
    ASSUME NEW sam, DOMAIN sam = AllSeries
    PROVE  Mirrors(Handle(NoEntities, [source |-> "market", event |-> "VaultCreated"]),
                   View([s \in AllSeries |-> NoSeries], sam, 0, 0))
<1> DEFINE e == [source |-> "market", event |-> "VaultCreated"]
           x == [NoVault EXCEPT !.created = TRUE]
           d == [NoEntities EXCEPT !.vault = x]
           ser == [s \in AllSeries |-> NoSeries]
           v == View(ser, sam, 0, 0)
<1>1. Handle(NoEntities, e) = d
  BY DEF Handle, HandleVaultCreated
<1>2. DOMAIN x = DOMAIN NoVault /\ x.created
      /\ x.lastReportedLocked = 0 /\ x.totalDeposited = 0
  BY DEF NoVault
<1>3. DOMAIN NoEntities = Tables /\ NoEntities.series = << >> /\ NoEntities.finalization = << >>
  BY DEF NoEntities, Tables
<1> HIDE DEF x
<1>4. DOMAIN d = Tables /\ d.vault = x /\ d.series = << >> /\ d.finalization = << >>
  BY <1>3, StoreFields
<1>5. v.series = ser /\ v.locked = 0 /\ v.deposited = 0 /\ DOMAIN v.samples = AllSeries
  BY DEF View
<1>6. \A s \in AllSeries : ser[s] = NoSeries /\ ~ser[s].created /\ ~ser[s].finalized
  BY DEF NoSeries
<1> HIDE DEF e, d, ser, v
<1>7. VaultOf(d.vault, v)
  BY <1>2, <1>4, <1>5 DEF VaultOf
<1>8. SeriesOf(d.series, v) /\ FinalOf(d.finalization, v.series)
  <2>1. DOMAIN << >> = {}
    OBVIOUS
  <2> QED
    BY <1>4, <1>5, <1>6, <2>1 DEF SeriesOf, FinalOf
<1>9. Mirrors(d, v)
  BY <1>4, <1>5, <1>7, <1>8 DEF Mirrors
<1> QED
  BY <1>1, <1>9 DEF e, ser, v

\* What is mirrored is untouched.
LEMMA QuietMirrors ==
    ASSUME NEW v, NEW d, Mirrors(d, v), NEW d2, DOMAIN d2 = Tables, d2.vault = d.vault,
           d2.series = d.series, d2.finalization = d.finalization
    PROVE  Mirrors(d2, v)
  BY DEF Mirrors

LEMMA BalanceMoves ==
    ASSUME NEW d, DOMAIN d = Tables, NEW s, NEW account, NEW units
    PROVE  /\ DOMAIN Moved(d, s, account, units) = Tables
           /\ Moved(d, s, account, units).vault = d.vault
           /\ Moved(d, s, account, units).series = d.series
           /\ Moved(d, s, account, units).finalization = d.finalization
  BY StoreFields DEF Moved

LEMMA TransferTold ==
    ASSUME NEW v, NEW s, NEW from, NEW to, NEW amount
    PROVE  Tells(<<Transfer(s, from, to, amount)>>, v, v)
<1> DEFINE e == Transfer(s, from, to, amount)
<1>1. ASSUME NEW d, Mirrors(d, v) PROVE Mirrors(Handle(d, e), v)
  <2>1. Handle(d, e) = d \/ Handle(d, e) = HandleReceiptTransfer(d, e)
    BY DEF Handle, HandleSeriesEvent, Transfer
  <2> HIDE DEF e
  <2>2. DOMAIN d = Tables
    BY <1>1 DEF Mirrors
  <2> DEFINE d1 == Moved(d, e.series, e.from, -e.amount)
             d2 == Moved(d1, e.series, e.to, e.amount)
  <2>3. DOMAIN d1 = Tables /\ d1.vault = d.vault /\ d1.series = d.series
        /\ d1.finalization = d.finalization
    BY <2>2, BalanceMoves
  <2> HIDE DEF d1
  <2>4. DOMAIN d2 = Tables /\ d2.vault = d1.vault /\ d2.series = d1.series
        /\ d2.finalization = d1.finalization
    BY <2>3, BalanceMoves
  <2>5. HandleReceiptTransfer(d, e) = d2
    BY DEF HandleReceiptTransfer, d1
  <2> HIDE DEF d2
  <2>6. Mirrors(d2, v)
    BY <1>1, <2>3, <2>4, QuietMirrors
  <2> QED
    BY <1>1, <2>1, <2>5, <2>6
<1> HIDE DEF e
<1>2. Tells(<<e>>, v, v)
  BY <1>1, TellsOne
<1> QED
  BY <1>2 DEF e

LEMMA SwappedTold ==
    ASSUME NEW v, NEW f
    PROVE  Tells(Swapped(f), v, v)
<1>1. CASE f.stage = "first"
  BY <1>1, TellsNothing DEF Swapped
<1>2. CASE f.stage # "first"
  <2> DEFINE e == [source |-> "market", event |-> "Swapped", series |-> f.group, leg |-> f.kind,
                   amountIn |-> f.amountIn, amountOut |-> f.amountOut]
  <2>1. ASSUME NEW d, Mirrors(d, v) PROVE Mirrors(Handle(d, e), v)
    <3>1. Handle(d, e) = HandleSwapped(d, e)
      BY DEF Handle
    <3> HIDE DEF e
    <3>2. DOMAIN d = Tables
      BY <2>1 DEF Mirrors
    <3>3. CASE <<e.series, e.leg>> \notin DOMAIN d.order
      BY <2>1, <3>1, <3>3 DEF HandleSwapped
    <3>4. CASE <<e.series, e.leg>> \in DOMAIN d.order
      <4> DEFINE fill == FillOf(d.order[<<e.series, e.leg>>].leg, e.amountIn, e.amountOut)
                 sum  == d.fills[<<e.series, e.leg>>]
                 new  == [units |-> sum.units + fill.units, quote |-> sum.quote + fill.quote]
                 table == [d.fills EXCEPT ![<<e.series, e.leg>>] = new]
                 d2 == [d EXCEPT !.fills = table]
      <4>1. HandleSwapped(d, e) = d2
        BY <3>4 DEF HandleSwapped
      <4> HIDE DEF table
      <4>2. DOMAIN d2 = Tables /\ d2.vault = d.vault /\ d2.series = d.series
            /\ d2.finalization = d.finalization
        BY <3>2, StoreFields
      <4> HIDE DEF d2
      <4> QED
        BY <2>1, <3>1, <4>1, <4>2, QuietMirrors
    <3> QED
      BY <3>3, <3>4
  <2>2. Swapped(f) = <<e>>
    BY <1>2 DEF Swapped
  <2> HIDE DEF e
  <2> QED
    BY <2>1, <2>2, TellsOne
<1> QED
  BY <1>1, <1>2

LEMMA FinalizedTold ==
    ASSUME NEW ser, NEW sam, NEW lock, NEW dep, NEW s \in AllSeries, ser[s].created,
           NEW ser2, SameBut(ser2, ser, s), ser2[s].created, ser2[s].finalized,
           ser2[s].issuanceStopped = ser[s].issuanceStopped, ser2[s].closed = ser[s].closed,
           ser2[s].outstandingUnits = ser[s].outstandingUnits,
           NEW e, e.source = "market", e.event = "Finalized", e.series = s,
           ser2[s].lockedLiability = ser[s].lockedLiability - e.released
    PROVE  Tells(<<e>>, View(ser, sam, lock, dep), View(ser2, sam, lock, dep))
<1>1. ASSUME NEW d, Mirrors(d, View(ser, sam, lock, dep))
      PROVE  Mirrors(Handle(d, e), View(ser2, sam, lock, dep))
  <2>1. s \in DOMAIN d.series /\ EntityOf(d.series[s], s, ser[s], sam[s])
    BY <1>1, SeriesKnown
  <2>2. Handle(d, e) = HandleSeriesEvent(d, e)
    BY <2>1, SeriesHandled
  <2> DEFINE y == d.series[s]
             x == [y EXCEPT !.locked = y.locked - e.released]
             final == With(d.finalization, s, [ppu |-> e.ppu, outstanding |-> e.outstanding])
             table == [d.series EXCEPT ![s] = x]
             d2 == [d EXCEPT !.finalization = final, !.series = table]
  <2>3. Handle(d, e) = d2
    BY <2>2 DEF HandleSeriesEvent, HandleFinalized
  <2>4. EntityOf(y, s, ser[s], sam[s])
    BY <2>1
  <2>5. DOMAIN table = DOMAIN d.series \cup {s} /\ table[s] = x
        /\ \A t \in DOMAIN d.series \ {s} : table[t] = d.series[t]
    BY <2>1
  <2>6. DOMAIN final = DOMAIN d.finalization \cup {s}
    BY DEF With
  <2>7. DOMAIN d = Tables /\ FinalOf(d.finalization, ser)
    BY <1>1 DEF Mirrors, View
  <2> HIDE DEF final, table, x, y
  <2>8. DOMAIN d2 = Tables /\ d2.series = table /\ d2.vault = d.vault
        /\ d2.finalization = final
    BY <2>7, StoreFields
  <2> HIDE DEF d2
  <2>9. FinalOf(d2.finalization, ser2)
    <3>1. \A t \in AllSeries \ {s} : ser2[t] = ser[t]
      BY DEF SameBut
    <3> QED
      BY <2>6, <2>7, <2>8, <3>1 DEF FinalOf
  <2>10. EntityOf(x, s, ser2[s], sam[s])
    <3>1. /\ DOMAIN x = DOMAIN y /\ x.locked = y.locked - e.released
          /\ x.outstanding = y.outstanding /\ x.stopped = y.stopped /\ x.closed = y.closed
          /\ x.processedThrough = y.processedThrough
      BY <2>4, StoreFields DEF EntityOf, x
    <3> QED
      BY <2>4, <3>1 DEF EntityOf
  <2>11. SavedAt(d, d2, s) /\ EntityOf(d2.series[s], s, ser2[s], sam[s])
    BY <2>5, <2>8, <2>10 DEF SavedAt
  <2>12. SameBut(sam, sam, s)
    BY DEF SameBut
  <2>13. Mirrors(d2, View(ser2, sam, lock, dep))
    BY <1>1, <2>9, <2>11, <2>12, OneSeries
  <2> QED
    BY <2>3, <2>13
<1> QED
  BY <1>1, TellsOne

LEMMA OrderSaved ==
    ASSUME NEW d, DOMAIN d = Tables, NEW s, NEW leg
    PROVE  /\ DOMAIN SaveOrder(d, s, leg) = Tables
           /\ SaveOrder(d, s, leg).vault = d.vault
           /\ SaveOrder(d, s, leg).series = d.series
           /\ SaveOrder(d, s, leg).finalization = d.finalization
  BY StoreFields DEF SaveOrder

LEMMA SeriesCreatedTold ==
    ASSUME NEW ser, NEW sam, NEW lock, NEW dep, NEW s \in AllSeries, ~ser[s].created,
           NEW ser2, SameBut(ser2, ser, s), ser2[s].created, ~ser2[s].finalized,
           ~ser[s].finalized,
           ser2[s].issuanceStopped = FALSE, ser2[s].closed = FALSE,
           ser2[s].outstandingUnits = 0, ser2[s].lockedLiability = 0,
           NEW sam2, SameBut(sam2, sam, s), sam2[s] \in {0, 1},
           Params[s].start \in Int
    PROVE  Tells(<<[source |-> "market", event |-> "SeriesCreated", series |-> s,
                    start |-> Params[s].start]>>,
                 View(ser, sam, lock, dep), View(ser2, sam2, lock, dep))
<1> DEFINE e == [source |-> "market", event |-> "SeriesCreated", series |-> s,
                 start |-> Params[s].start]
           x == NewSeries(Params[s].start)
<1>1. ASSUME NEW d PROVE Handle(d, e) = HandleSeriesCreated(d, e)
  BY DEF Handle
<1>2. e.series = s /\ e.start = Params[s].start
  OBVIOUS
<1> HIDE DEF e
<1>3. ASSUME NEW d, Mirrors(d, View(ser, sam, lock, dep))
      PROVE  Mirrors(Handle(d, e), View(ser2, sam2, lock, dep))
  <2> DEFINE table == With(d.series, s, x)
             d1 == [d EXCEPT !.series = table]
             d2 == SaveOrder(d1, s, "ISSUE")
             d3 == SaveOrder(d2, s, "EXIT")
             d4 == SaveOrder(d3, s, "SETTLE")
  <2>1. Handle(d, e) = d4
    BY <1>1, <1>2 DEF HandleSeriesCreated
  <2>2. DOMAIN table = DOMAIN d.series \cup {s} /\ table[s] = x
        /\ \A t \in DOMAIN d.series \ {s} : table[t] = d.series[t]
    BY DEF With
  <2>3. DOMAIN d = Tables /\ FinalOf(d.finalization, ser)
    BY <1>3 DEF Mirrors, View
  <2> HIDE DEF table, x
  <2>4. DOMAIN d1 = Tables /\ d1.series = table /\ d1.vault = d.vault
        /\ d1.finalization = d.finalization
    BY <2>3, StoreFields
  <2> HIDE DEF d1
  <2>5. DOMAIN d2 = Tables /\ d2.series = table /\ d2.vault = d.vault
        /\ d2.finalization = d.finalization
    BY <2>4, OrderSaved
  <2> HIDE DEF d2
  <2>6. DOMAIN d3 = Tables /\ d3.series = table /\ d3.vault = d.vault
        /\ d3.finalization = d.finalization
    BY <2>5, OrderSaved
  <2> HIDE DEF d3
  <2>7. DOMAIN d4 = Tables /\ d4.series = table /\ d4.vault = d.vault
        /\ d4.finalization = d.finalization
    BY <2>6, OrderSaved
  <2> HIDE DEF d4
  <2>8. FinalOf(d4.finalization, ser2)
    <3>1. \A t \in AllSeries \ {s} : ser2[t] = ser[t]
      BY DEF SameBut
    <3> QED
      BY <2>3, <2>7, <3>1 DEF FinalOf
  <2>9. EntityOf(x, s, ser2[s], sam2[s])
    <3>1. /\ DOMAIN x = DOMAIN NewSeries(0)
          /\ x.outstanding = 0 /\ x.locked = 0 /\ x.stopped = FALSE /\ x.closed = FALSE
          /\ x.processedThrough = Params[s].start
      BY DEF NewSeries, x
    <3>2. sam2[s] > 0 => Params[s].start = Params[s].start + sam2[s] - 1
      OBVIOUS
    <3> QED
      BY <3>1, <3>2 DEF EntityOf
  <2>10. SavedAt(d, d4, s) /\ EntityOf(d4.series[s], s, ser2[s], sam2[s])
    BY <2>2, <2>7, <2>9 DEF SavedAt
  <2>11. Mirrors(d4, View(ser2, sam2, lock, dep))
    BY <1>3, <2>8, <2>10, OneSeries
  <2> QED
    BY <2>1, <2>11
<1>4. Tells(<<e>>, View(ser, sam, lock, dep), View(ser2, sam2, lock, dep))
  BY <1>3, TellsOne
<1> QED
  BY <1>4 DEF e

-----------------------------------------------------------------------------
(* The index follows the ledger *)

\* The entities, with the logs of the transaction so far, mirror the ledger,
\* and with the logs there were when a swap in flight began they mirror what
\* a revert of it restores.
Followed ==
    /\ IsLogs(log) /\ Mirrors(Folded(entities, log), Here)
    /\ \A i \in 1..Len(stack) :
        /\ IsLogs(stack[i].saved.log)
        /\ Mirrors(Folded(entities, stack[i].saved.log), Restored(stack[i].saved))
    /\ stack = << >> => log = << >>
    /\ stack # << >> => stack[1].saved.log = << >>

\* Until there is a vault there is nothing.
Bare ==
    /\ stack = << >> /\ log = << >> /\ entities = NoEntities
    /\ series = [s \in AllSeries |-> NoSeries]
    /\ receipts = [s \in AllSeries |-> [a \in Accounts |-> 0]]
    /\ aqua = [s \in AllSeries |-> [k \in Kinds |-> Docked]]
    /\ samples = [s \in AllSeries |-> 0]
    /\ balance = 0 /\ lockedQuote = 0 /\ deposited = 0 /\ advance = 0

IndexFollows == IF isVault THEN Followed ELSE Bare

LEMMA HereNext == Here' = View(series', samples', lockedQuote', deposited')
  BY DEF Here

\* The logs of a step are mirrored by what the step does.
LEMMA LogsFollow ==
    ASSUME Followed, NEW logs, Tells(logs, Here, Here'), log' = log \o logs, UNCHANGED entities
    PROVE  IsLogs(log') /\ Mirrors(Folded(entities', log'), Here')
<1>1. IsLogs(log) /\ Mirrors(Folded(entities, log), Here)
  BY DEF Followed
<1>2. IsLogs(log \o logs) /\ Mirrors(Folded(entities, log \o logs), Here')
  BY <1>1 DEF Tells
<1> QED
  BY <1>2

LEMMA EmitFollows ==
    ASSUME Followed, NEW logs, Tells(logs, Here, Here'), NEW over, Emit(logs, over),
           over <=> stack' = << >>
    PROVE  /\ IsLogs(log') /\ Mirrors(Folded(entities', log'), Here')
           /\ stack' = << >> => log' = << >>
           /\ stack' # << >> => entities' = entities
<1>1. IsLogs(log \o logs) /\ Mirrors(Folded(entities, log \o logs), Here')
  BY DEF Followed, Tells
<1>2. CASE stack' = << >>
  <2>1. log' = << >> /\ entities' = Folded(entities, log \o logs)
    BY <1>2 DEF Emit, Folded
  <2>2. Folded(entities', log') = entities'
    BY <2>1, FoldNothing
  <2>3. IsLogs(<< >>)
    BY EmptySeq DEF IsLogs
  <2> QED
    BY <1>1, <1>2, <2>1, <2>2, <2>3
<1>3. CASE stack' # << >>
  <2>1. log' = log \o logs /\ entities' = entities
    BY <1>3 DEF Emit
  <2> QED
    BY <1>1, <1>3, <2>1
<1> QED
  BY <1>2, <1>3

\* What follows from the parts of the invariant, one state later.
LEMMA FollowsNext ==
    ASSUME IsLogs(log'), Mirrors(Folded(entities', log'), Here'),
           \A i \in 1..Len(stack') :
              /\ IsLogs(stack'[i].saved.log)
              /\ Mirrors(Folded(entities', stack'[i].saved.log), Restored(stack'[i].saved)),
           stack' = << >> => log' = << >>,
           stack' # << >> => stack'[1].saved.log = << >>
    PROVE  Followed'
  BY DEF Followed, Folded, IsLogs, Mirrors, Restored

LEMMA CallFollows ==
    ASSUME Framed, Followed, NEW logs, Tells(logs, Here, Here'), Call(logs)
    PROVE  Followed'
<1>1. UNCHANGED stack /\ Emit(logs, stack = << >>)
  BY DEF Call
<1>2. /\ IsLogs(log') /\ Mirrors(Folded(entities', log'), Here')
      /\ stack' = << >> => log' = << >>
      /\ stack' # << >> => entities' = entities
  BY <1>1, EmitFollows
<1>3. ASSUME NEW i \in 1..Len(stack')
      PROVE  /\ IsLogs(stack'[i].saved.log)
             /\ Mirrors(Folded(entities', stack'[i].saved.log), Restored(stack'[i].saved))
  <2>1. stack' # << >>
    BY EmptySeq
  <2>2. entities' = entities /\ stack' = stack
    BY <1>1, <1>2, <2>1
  <2> QED
    BY <2>2 DEF Followed
<1>4. stack' # << >> => stack'[1].saved.log = << >>
  BY <1>1 DEF Followed
<1> QED
  BY <1>2, <1>3, <1>4, FollowsNext

LEMMA SwapFollows ==
    ASSUME Followed, NEW S, stack \in Seq(S), NEW f \in S, f.saved = Snapshot,
           stack' = Append(stack, f), UNCHANGED entities,
           NEW logs, Tells(logs, Here, Here'), log' = log \o logs
    PROVE  Followed'
<1> DEFINE n == Len(stack)
<1>1. /\ n \in Nat /\ Len(stack') = n + 1 /\ stack' # << >>
      /\ stack'[n + 1] = f /\ \A i \in 1..n : stack'[i] = stack[i]
  BY AppendProperties, LenProperties
<1>2. IsLogs(log') /\ Mirrors(Folded(entities', log'), Here')
  BY LogsFollow
<1>3. f.saved.log = log /\ Restored(f.saved) = Here
  BY DEF Restored, Here, Snapshot
<1> HIDE DEF n
<1>4. ASSUME NEW i \in 1..(n + 1)
      PROVE  /\ IsLogs(stack'[i].saved.log)
             /\ Mirrors(Folded(entities', stack'[i].saved.log), Restored(stack'[i].saved))
  <2>1. CASE i = n + 1
    BY <1>1, <1>3, <2>1 DEF Followed
  <2>2. CASE i # n + 1
    <3>1. i \in 1..n
      BY <1>1, <2>2
    <3>2. stack'[i] = stack[i] /\ i \in 1..Len(stack)
      BY <1>1, <3>1 DEF n
    <3> QED
      BY <3>2 DEF Followed
  <2> QED
    BY <2>1, <2>2
<1>5. stack'[1].saved.log = << >>
  <2>1. CASE n = 0
    <3>1. stack = << >>
      BY <2>1, EmptySeq DEF n
    <3> QED
      BY <1>1, <1>3, <2>1, <3>1 DEF Followed
  <2>2. CASE n # 0
    <3>1. 1 \in 1..n
      BY <1>1, <2>2
    <3>2. stack # << >>
      BY <2>2, EmptySeq DEF n
    <3> QED
      BY <1>1, <3>1, <3>2 DEF Followed
  <2> QED
    BY <2>1, <2>2
<1> QED
  BY <1>1, <1>2, <1>4, <1>5, FollowsNext

\* The innermost frame is gone, its logs with it or not.
LEMMA PopFollows ==
    ASSUME Followed, NEW S, stack \in Seq(S), stack # << >>, stack' = Below,
           IsLogs(log'), Mirrors(Folded(entities', log'), Here'),
           stack' = << >> => log' = << >>,
           stack' # << >> => entities' = entities
    PROVE  Followed'
<1> DEFINE n == Len(stack)
<1>1. /\ n \in Nat \ {0} /\ Len(stack') = n - 1 /\ stack' \in Seq(S)
      /\ \A i \in 1..(n - 1) : stack'[i] = stack[i]
  BY ButLast DEF Below
<1> HIDE DEF n
<1>2. ASSUME stack' # << >> PROVE stack'[1].saved.log = << >>
  <2>1. n - 1 # 0
    BY <1>1, <1>2, EmptySeq
  <2>2. 1 \in 1..(n - 1)
    BY <1>1, <2>1
  <2> QED
    BY <1>1, <2>2 DEF Followed
<1>3. ASSUME NEW i \in 1..(n - 1)
      PROVE  /\ IsLogs(stack'[i].saved.log)
             /\ Mirrors(Folded(entities', stack'[i].saved.log), Restored(stack'[i].saved))
  <2>1. stack' # << >>
    BY <1>1, EmptySeq
  <2>2. stack'[i] = stack[i] /\ entities' = entities
    BY <1>1, <2>1
  <2>3. i \in 1..Len(stack)
    BY <1>1 DEF n
  <2> QED
    BY <2>2, <2>3 DEF Followed
<1> QED
  BY <1>1, <1>2, <1>3, FollowsNext

\* Whether a transfer is the transaction's last.
LEMMA OverWhenEmpty ==
    ASSUME NEW S, stack \in Seq(S), stack # << >>, TransferDone,
           Top.stage \in {"first", "second"}, [Top EXCEPT !.stage = "second"] \in S
    PROVE  Over <=> stack' = << >>
<1> DEFINE n == Len(stack)
<1>1. n \in Nat \ {0}
  BY ButLast
<1>2. CASE Top.stage = "first"
  <2>1. Len(stack') = n /\ ~Over
    BY <1>2, AfterTransfer DEF Over
  <2>2. stack' # << >>
    BY <1>1, <2>1, EmptySeq
  <2> QED
    BY <2>1, <2>2
<1>3. CASE Top.stage # "first"
  <2>1. stack' = Below /\ stack' \in Seq(S)
    BY <1>3, AfterTransfer
  <2>2. Len(stack') = n - 1
    BY <2>1, ButLast DEF Below
  <2>3. stack' = << >> <=> n - 1 = 0
    BY <2>1, <2>2, EmptySeq
  <2>4. Over <=> n = 1
    BY <1>3 DEF Over
  <2> HIDE DEF n
  <2> QED
    BY <1>1, <2>3, <2>4
<1> QED
  BY <1>2, <1>3

LEMMA TransferFollows ==
    ASSUME Framed, Followed, stack # << >>, TransferDone,
           NEW logs, Tells(logs, Here, Here'), Emit(logs, Over)
    PROVE  Followed'
<1>1. PICK R : (\A v \in R : Saved(v)) /\ stack \in Seq(Frames(R))
  BY DEF Framed
<1> DEFINE n == Len(stack)
           f == [Top EXCEPT !.stage = "second"]
           S == Frames(R)
<1>2. Top \in S /\ n \in Nat \ {0} /\ Top = stack[n] /\ stack \in Seq(S)
  BY <1>1, ButLast DEF Top
<1>3. f \in S /\ f.saved = Top.saved /\ Top.stage \in {"first", "second"}
  BY <1>1, <1>2, FramesShaped DEF FrameShape
<1> HIDE DEF S, f, n
<1>4. Over <=> stack' = << >>
  BY <1>2, <1>3, OverWhenEmpty DEF f
<1>5. /\ IsLogs(log') /\ Mirrors(Folded(entities', log'), Here')
      /\ stack' = << >> => log' = << >>
      /\ stack' # << >> => entities' = entities
  BY <1>4, EmitFollows
<1>6. CASE Top.stage # "first"
  <2>1. stack' = Below
    BY <1>6 DEF TransferDone
  <2> QED
    BY <1>2, <1>5, <2>1, PopFollows
<1>7. CASE Top.stage = "first"
  <2>1. /\ Len(stack') = n
        /\ \A i \in 1..(n - 1) : stack'[i] = stack[i]
        /\ stack'[n] = f
    BY <1>2, <1>3, <1>7, AfterTransfer DEF f, n
  <2>2. stack' # << >>
    BY <1>2, <2>1, EmptySeq
  <2>3. entities' = entities
    BY <1>5, <2>2
  <2>4. ASSUME NEW i \in 1..n PROVE stack'[i].saved = stack[i].saved
    <3>1. i = n \/ i \in 1..(n - 1)
      BY <1>2
    <3> QED
      BY <1>2, <1>3, <2>1, <3>1
  <2>5. ASSUME NEW i \in 1..n
        PROVE  /\ IsLogs(stack'[i].saved.log)
               /\ Mirrors(Folded(entities', stack'[i].saved.log), Restored(stack'[i].saved))
    <3>1. i \in 1..Len(stack)
      BY DEF n
    <3> QED
      BY <2>3, <2>4, <3>1 DEF Followed
  <2>6. stack'[1].saved.log = << >>
    <3>1. 1 \in 1..n
      BY <1>2
    <3> QED
      BY <2>4, <3>1 DEF Followed
  <2> QED
    BY <1>5, <2>1, <2>2, <2>5, <2>6, FollowsNext
<1> QED
  BY <1>6, <1>7

LEMMA RevertFollows ==
    ASSUME Framed, Followed, Revert
    PROVE  Followed'
<1> DEFINE n == Len(stack)
<1>1. PICK R : stack \in Seq(Frames(R))
  BY DEF Framed
<1> DEFINE S == Frames(R)
<1>2. /\ stack # << >> /\ stack' = Below /\ log' = Top.saved.log /\ UNCHANGED entities
      /\ Here' = Restored(Top.saved)
  BY HereNext DEF Revert, Restored
<1>3. /\ n \in Nat \ {0} /\ n \in 1..Len(stack) /\ Top = stack[n] /\ stack \in Seq(S)
      /\ stack' \in Seq(S) /\ Len(stack') = n - 1
  BY <1>1, <1>2, ButLast DEF Top, Below
<1> HIDE DEF n, S
<1>4. IsLogs(log') /\ Mirrors(Folded(entities', log'), Here')
  BY <1>2, <1>3 DEF Followed
<1>5. ASSUME stack' = << >> PROVE log' = << >>
  <2>1. n = 1
    BY <1>3, <1>5, EmptySeq
  <2> QED
    BY <1>2, <1>3, <2>1 DEF Followed
<1> QED
  BY <1>2, <1>3, <1>4, <1>5, PopFollows

-----------------------------------------------------------------------------
(* What each step logs *)

LEMMA NothingSeen ==
    ASSUME UNCHANGED <<series, samples, lockedQuote, deposited>>
    PROVE  Here' = Here
  BY DEF Here

LEMMA TwoLogs ==
    ASSUME NEW a, NEW b
    PROVE  <<a>> \o <<b>> = <<a, b>>
<1> DEFINE S == {a, b}
           j == <<a>> \o <<b>>
<1>1. <<a>> \in Seq(S) /\ <<b>> \in Seq(S) /\ <<a, b>> \in Seq(S)
  OBVIOUS
<1>2. Len(<<a>>) = 1 /\ Len(<<b>>) = 1 /\ Len(<<a, b>>) = 2
  OBVIOUS
<1>3. <<a>>[1] = a /\ <<b>>[1] = b /\ <<a, b>>[1] = a /\ <<a, b>>[2] = b
  OBVIOUS
<1> HIDE DEF S
<1>4. /\ j \in Seq(S) /\ Len(j) = 2
      /\ \A i \in 1..2 : j[i] = IF i <= 1 THEN <<a>>[i] ELSE <<b>>[i - 1]
  BY <1>1, <1>2, ConcatProperties
<1> HIDE DEF j
<1>5. j[1] = a /\ j[2] = b
  BY <1>3, <1>4
<1>6. ASSUME NEW i \in 1..Len(j) PROVE j[i] = <<a, b>>[i]
  <2>1. i = 1 \/ i = 2
    BY <1>4
  <2> QED
    BY <1>3, <1>5, <2>1
<1>7. j = <<a, b>>
  BY <1>1, <1>2, <1>4, <1>6, SeqEqual
<1> QED
  BY <1>7 DEF j

LEMMA FourLogs ==
    ASSUME NEW a, NEW b, NEW c, NEW d
    PROVE  (<<a>> \o <<b>>) \o (<<c>> \o <<d>>) = <<a, b, c, d>>
<1> DEFINE S == {a, b, c, d}
           j == <<a, b>> \o <<c, d>>
           q == <<a, b, c, d>>
<1>1. <<a, b>> \in Seq(S) /\ <<c, d>> \in Seq(S) /\ q \in Seq(S)
  OBVIOUS
<1>2. Len(<<a, b>>) = 2 /\ Len(<<c, d>>) = 2 /\ Len(q) = 4
  OBVIOUS
<1>3. /\ <<a, b>>[1] = a /\ <<a, b>>[2] = b /\ <<c, d>>[1] = c /\ <<c, d>>[2] = d
      /\ q[1] = a /\ q[2] = b /\ q[3] = c /\ q[4] = d
  OBVIOUS
<1> HIDE DEF S, q
<1>4. /\ j \in Seq(S) /\ Len(j) = 4
      /\ \A i \in 1..4 : j[i] = IF i <= 2 THEN <<a, b>>[i] ELSE <<c, d>>[i - 2]
  BY <1>1, <1>2, ConcatProperties
<1> HIDE DEF j
<1>5. j[1] = a /\ j[2] = b /\ j[3] = c /\ j[4] = d
  BY <1>3, <1>4
<1>6. ASSUME NEW i \in 1..Len(j) PROVE j[i] = q[i]
  <2>1. i = 1 \/ i = 2 \/ i = 3 \/ i = 4
    BY <1>4
  <2> QED
    BY <1>3, <1>5, <2>1
<1>7. j = q
  BY <1>1, <1>2, <1>4, <1>6, SeqEqual
<1> QED
  BY <1>7, TwoLogs DEF j, q

LEMMA SwapIssueTells ==
    ASSUME Sound, NEW s \in AllSeries, NEW h \in Holders, NEW ask \in Nat,
           NEW exactIn \in BOOLEAN, NEW amount \in Nat, NEW inFirst \in BOOLEAN,
           SwapIssue(s, h, ask, exactIn, amount, inFirst)
    PROVE  \E logs : Emit(logs, FALSE) /\ Tells(logs, Here, Here')
<1> DEFINE fill == IssueFill(s, ask, exactIn, amount)
           a == [source |-> "vault", event |-> "LockedIncreased", locked |-> lockedQuote']
           b == [source |-> "market", event |-> "Issued", series |-> s, units |-> fill.units,
                 quote |-> fill.premium,
                 newOutstanding |-> series'[s].outstandingUnits,
                 newLocked |-> series'[s].lockedLiability]
<1>1. Emit(<<a, b>>, FALSE)
  BY DEF SwapIssue, LockMoved
<1>2. b.source = "market" /\ b.event = "Issued" /\ b.series = s
      /\ b.newOutstanding = series'[s].outstandingUnits
      /\ b.newLocked = series'[s].lockedLiability
  OBVIOUS
<1> HIDE DEF a, b
<1>3. UNCHANGED <<samples, deposited>> /\ series[s].created
  BY DEF SwapIssue
<1>4. /\ SameBut(series', series, s) /\ series'[s].created
      /\ (series'[s].finalized <=> series[s].finalized)
      /\ series'[s].issuanceStopped = series[s].issuanceStopped
      /\ series'[s].closed = series[s].closed
  <2> DEFINE out == series[s].outstandingUnits + fill.units
             r == [series[s] EXCEPT !.outstandingUnits = out,
                                    !.lockedLiability = Liability(s, out)]
  <2>1. series' = [series EXCEPT ![s] = r]
    BY DEF SwapIssue, OnIssue
  <2>2. series \in [AllSeries -> SeriesState] /\ series[s] \in SeriesState
    BY SeriesFields DEF Sound, Ledger
  <2> HIDE DEF out
  <2>3. /\ r.created = series[s].created /\ r.finalized = series[s].finalized
        /\ r.issuanceStopped = series[s].issuanceStopped /\ r.closed = series[s].closed
    BY <2>2 DEF SeriesState
  <2> HIDE DEF r
  <2> QED
    BY <1>3, <2>1, <2>2, <2>3 DEF SameBut
<1>5. Tells(<<a>>, View(series, samples, lockedQuote, deposited),
            View(series, samples, lockedQuote', deposited))
  BY LockTold DEF a
<1>6. Tells(<<b>>, View(series, samples, lockedQuote', deposited),
            View(series', samples, lockedQuote', deposited))
  BY <1>2, <1>3, <1>4, ReportTold
<1>7. Here' = View(series', samples, lockedQuote', deposited)
  BY <1>3 DEF Here
<1>8. Tells(<<a>> \o <<b>>, Here, Here')
  BY <1>5, <1>6, <1>7, TellsThen DEF Here
<1> QED
  BY <1>1, <1>8, TwoLogs

\* The logs of a burn.
LEMMA BurntTells ==
    ASSUME Sound, NEW f, f.group \in AllSeries, f.kind \in {"EXIT", "SETTLE"},
           series[f.group].created, UNCHANGED <<samples, deposited>>,
           OnBurn(f.group, f.kind, f.amountIn, f.amountOut)
    PROVE  Tells(Burnt(f), Here, Here')
<1> DEFINE s == f.group
           a == Transfer(s, f.taker, "vault", f.amountIn)
           b == Transfer(s, "vault", "zero", f.amountIn)
           c == [source |-> "vault", event |-> "LockedDecreased", locked |-> lockedQuote']
           e == [source |-> "market", event |-> IF f.kind = "EXIT" THEN "Exited" ELSE "Settled",
                 series |-> s, units |-> f.amountIn, quote |-> f.amountOut,
                 newOutstanding |-> series'[s].outstandingUnits,
                 newLocked |-> series'[s].lockedLiability]
<1>1. Burnt(f) = <<a, b, c, e>>
  BY DEF Burnt, LockMoved
<1>2. e.source = "market" /\ e.event \in {"Issued", "Exited", "Settled"} /\ e.series = s
      /\ e.newOutstanding = series'[s].outstandingUnits
      /\ e.newLocked = series'[s].lockedLiability
  OBVIOUS
<1> HIDE DEF c, e
<1>3. /\ SameBut(series', series, s) /\ series'[s].created
      /\ (series'[s].finalized <=> series[s].finalized)
      /\ series'[s].issuanceStopped = series[s].issuanceStopped
      /\ series'[s].closed = series[s].closed
  <2> DEFINE out == series[s].outstandingUnits - f.amountIn
             left == LiabilityAfter(s, f.kind, out)
             r == [series[s] EXCEPT !.outstandingUnits = out, !.lockedLiability = left]
  <2>1. series' = [series EXCEPT ![s] = r]
    BY DEF OnBurn
  <2>2. series \in [AllSeries -> SeriesState] /\ series[s] \in SeriesState
    BY SeriesFields DEF Sound, Ledger
  <2> HIDE DEF out, left
  <2>3. /\ r.created = series[s].created /\ r.finalized = series[s].finalized
        /\ r.issuanceStopped = series[s].issuanceStopped /\ r.closed = series[s].closed
    BY <2>2 DEF SeriesState
  <2> HIDE DEF r
  <2> QED
    BY <2>1, <2>2, <2>3 DEF SameBut
<1> DEFINE v == View(series, samples, lockedQuote, deposited)
           w == View(series, samples, lockedQuote', deposited)
           x == View(series', samples, lockedQuote', deposited)
<1>4. Tells(<<a>>, v, v) /\ Tells(<<b>>, v, v)
  BY TransferTold
<1>5. Tells(<<c>>, v, w)
  BY LockTold DEF c
<1>6. Tells(<<e>>, w, x)
  BY <1>2, <1>3, ReportTold
<1>7. Here = v /\ Here' = x
  BY DEF Here
<1> HIDE DEF a, b, v, w, x
<1>8. Tells(<<a>> \o <<b>>, v, v)
  BY <1>4, TellsThen
<1>9. Tells(<<c>> \o <<e>>, v, x)
  BY <1>5, <1>6, TellsThen
<1>10. Tells((<<a>> \o <<b>>) \o (<<c>> \o <<e>>), v, x)
  BY <1>8, <1>9, TellsThen
<1> QED
  BY <1>1, <1>7, <1>10, FourLogs

LEMMA TransferInTells ==
    ASSUME Sound, Framed, ClaimsKept, TransferIn
    PROVE  stack # << >> /\ TransferDone
           /\ \E logs : Emit(logs, Over) /\ Tells(logs, Here, Here')
<1>1. stack # << >> /\ TransferDone /\ UNCHANGED <<samples, deposited>>
  BY DEF TransferIn, TransferInNext
<1>2. PICK S : stack \in Seq(S) /\ \A f \in S : FrameShape(f) /\ f.group \in AllSeries
  BY StackShaped
<1>3. Top \in S /\ Len(stack) \in 1..Len(stack)
  BY <1>1, <1>2, ButLast DEF Top
<1>4. Top.kind \in Kinds /\ Top.group \in AllSeries /\ series[Top.group].created
  BY <1>2, <1>3, ClaimsEach DEF FrameShape, FrameClaims, Top
<1>5. CASE Top.kind = "ISSUE"
  <2>1. Emit(Swapped(Top), Over) /\ UNCHANGED <<series, lockedQuote>>
    BY <1>5 DEF TransferIn, Pushed
  <2>2. Tells(Swapped(Top), Here, Here')
    BY <1>1, <2>1, NothingSeen, SwappedTold
  <2> QED
    BY <1>1, <2>1, <2>2
<1>6. CASE Top.kind # "ISSUE"
  <2>1. /\ OnBurn(Top.group, Top.kind, Top.amountIn, Top.amountOut)
        /\ Emit(Burnt(Top) \o Swapped(Top), Over)
    BY <1>6 DEF TransferIn
  <2>2. Top.kind \in {"EXIT", "SETTLE"}
    BY <1>4, <1>6 DEF Kinds
  <2>3. Tells(Burnt(Top), Here, Here')
    BY <1>1, <1>4, <2>1, <2>2, BurntTells
  <2>4. Tells(Swapped(Top), Here', Here')
    BY SwappedTold
  <2>5. Tells(Burnt(Top) \o Swapped(Top), Here, Here')
    BY <2>3, <2>4, TellsThen
  <2> QED
    BY <1>1, <2>1, <2>5
<1> QED
  BY <1>5, <1>6

LEMMA TransferOutTells ==
    ASSUME TransferOut
    PROVE  stack # << >> /\ TransferDone
           /\ \E logs : Emit(logs, Over) /\ Tells(logs, Here, Here')
<1>1. stack # << >> /\ TransferDone /\ UNCHANGED <<series, samples, deposited>>
  BY DEF TransferOut, TransferOutNext
<1>2. UNCHANGED lockedQuote
  BY DEF TransferOut, VaultUnchanged, Pulled
<1>3. Here' = Here
  BY <1>1, <1>2, NothingSeen
<1>4. Tells(Swapped(Top), Here, Here)
  BY SwappedTold
<1>5. CASE Top.kind = "ISSUE"
  <2> DEFINE t == <<Transfer(Top.group, "vault", Top.taker, Top.amountOut)>>
  <2>1. Emit(t \o Swapped(Top), Over)
    BY <1>5 DEF TransferOut
  <2>2. Tells(t, Here, Here)
    BY TransferTold
  <2> HIDE DEF t
  <2>3. Tells(t \o Swapped(Top), Here, Here)
    BY <1>4, <2>2, TellsThen
  <2> QED
    BY <1>1, <1>3, <2>1, <2>3
<1>6. CASE Top.kind # "ISSUE"
  <2>1. Emit(Swapped(Top), Over)
    BY <1>6 DEF TransferOut
  <2> QED
    BY <1>1, <1>3, <1>4, <2>1
<1> QED
  BY <1>5, <1>6

LEMMA CreateSeriesTells ==
    ASSUME Sound, NEW s \in AllSeries, CreateSeries(s), series[s] = NoSeries,
           DOMAIN samples = AllSeries
    PROVE  \E logs : Call(logs) /\ Tells(logs, Here, Here')
<1> DEFINE p == Params[s]
           seeded == IF p.start <= now THEN 1 ELSE 0
           v == View(series, samples, lockedQuote, deposited)
           w == View(series', samples', lockedQuote, deposited)
           l1 == Referenced("ReceiptRegistered", s)
           l2 == Referenced("StrategyShipped", <<s, "ISSUE">>)
           l3 == Referenced("StrategyShipped", <<s, "EXIT">>)
           l4 == Referenced("StrategyShipped", <<s, "SETTLE">>)
           l5 == <<[source |-> "market", event |-> "SeriesCreated", series |-> s,
                    start |-> p.start]>>
           l6 == IF seeded = 1 THEN <<Progress(s, 1)>> ELSE << >>
           l7 == <<Transfer(s, "zero", "vault", p.maxUnits)>>
<1>1. Call(l1 \o l2 \o l3 \o l4 \o l5 \o l6 \o l7)
  BY DEF CreateSeries
<1>2. /\ UNCHANGED <<lockedQuote, deposited>>
      /\ series' = [series EXCEPT ![s].created = TRUE]
      /\ samples' = [samples EXCEPT ![s] = seeded]
  BY DEF CreateSeries, VaultUnchanged
<1>3. Here = v /\ Here' = w
  BY <1>2 DEF Here
<1>4. Tells(l1, v, v) /\ Tells(l2, v, v) /\ Tells(l3, v, v) /\ Tells(l4, v, v)
  BY ReferenceTold
<1>5. Tells(l7, w, w)
  BY TransferTold
<1>6. /\ SameBut(series', series, s) /\ series'[s].created /\ ~series'[s].finalized
      /\ ~series[s].finalized /\ ~series[s].created
      /\ series'[s].issuanceStopped = FALSE /\ series'[s].closed = FALSE
      /\ series'[s].outstandingUnits = 0 /\ series'[s].lockedLiability = 0
  <2> DEFINE r == [NoSeries EXCEPT !.created = TRUE]
  <2>1. series' = [series EXCEPT ![s] = r]
    BY <1>2
  <2>2. series \in [AllSeries -> SeriesState]
    BY DEF Sound, Ledger
  <2>3. /\ r.created /\ ~r.finalized /\ r.issuanceStopped = FALSE /\ r.closed = FALSE
        /\ r.outstandingUnits = 0 /\ r.lockedLiability = 0
        /\ ~NoSeries.created /\ ~NoSeries.finalized
    BY DEF NoSeries
  <2> HIDE DEF r
  <2> QED
    BY <2>1, <2>2, <2>3 DEF SameBut
<1>7. SameBut(samples', samples, s) /\ samples'[s] = seeded
  BY <1>2 DEF SameBut
<1>8. p.start \in Int /\ seeded \in {0, 1}
  BY ParamsAssumption DEF ValidParams
<1>9. Tells(l5, v, w)
  BY <1>6, <1>7, <1>8, SeriesCreatedTold
<1>10. Tells(l6, w, w)
  <2>1. CASE seeded = 1
    <3>1. l6 = <<Progress(s, samples'[s])>>
      BY <1>7, <2>1
    <3>2. series'[s].created /\ SameBut(samples', samples', s)
      BY <1>6 DEF SameBut
    <3> HIDE DEF l6, seeded
    <3> QED
      BY <3>1, <3>2, ProgressTold
  <2>2. CASE seeded # 1
    <3>1. l6 = << >>
      BY <2>2
    <3> QED
      BY <3>1, TellsNothing
  <2> QED
    BY <2>1, <2>2
<1> HIDE DEF l1, l2, l3, l4, l5, l6, l7, v, w
<1>11. Tells(l1 \o l2, v, v)
  BY <1>4, TellsThen
<1>12. Tells(l1 \o l2 \o l3, v, v)
  BY <1>4, <1>11, TellsThen
<1>13. Tells(l1 \o l2 \o l3 \o l4, v, v)
  BY <1>4, <1>12, TellsThen
<1>14. Tells(l1 \o l2 \o l3 \o l4 \o l5, v, w)
  BY <1>9, <1>13, TellsThen
<1>15. Tells(l1 \o l2 \o l3 \o l4 \o l5 \o l6, v, w)
  BY <1>10, <1>14, TellsThen
<1>16. Tells(l1 \o l2 \o l3 \o l4 \o l5 \o l6 \o l7, v, w)
  BY <1>5, <1>15, TellsThen
<1> QED
  BY <1>1, <1>3, <1>16

LEMMA CheckpointTells ==
    ASSUME NEW s \in AllSeries, NEW n, Checkpoint(s, n), DOMAIN samples = AllSeries
    PROVE  \E logs : Call(logs) /\ Tells(logs, Here, Here')
<1> DEFINE stored == Least(samples[s] + n, AvailableSamples(s))
<1>1. /\ series[s].created /\ samples' = [samples EXCEPT ![s] = stored]
      /\ Call(<<Progress(s, stored)>>)
      /\ UNCHANGED <<series, lockedQuote, deposited>>
  BY DEF Checkpoint, VaultUnchanged
<1> HIDE DEF stored
<1>2. samples'[s] = stored /\ SameBut(samples', samples, s)
  BY <1>1 DEF SameBut
<1>3. Here' = View(series, samples', lockedQuote, deposited)
  BY <1>1 DEF Here
<1>4. Tells(<<Progress(s, samples'[s])>>, View(series, samples, lockedQuote, deposited),
            View(series, samples', lockedQuote, deposited))
  BY <1>1, <1>2, ProgressTold
<1> QED
  BY <1>1, <1>2, <1>3, <1>4 DEF Here

\* An optional report of the lock.
LEMMA MaybeLockTold ==
    ASSUME NEW ser, NEW sam, NEW dep, NEW less, less \in Int,
           \/ less > 0
           \/ ~(less > 0) /\ UNCHANGED lockedQuote
    PROVE  Tells(IF less > 0 THEN <<LockMoved("LockedDecreased")>> ELSE << >>,
                 View(ser, sam, lockedQuote, dep), View(ser, sam, lockedQuote', dep))
<1>1. CASE less > 0
  <2> DEFINE c == [source |-> "vault", event |-> "LockedDecreased", locked |-> lockedQuote']
  <2>1. Tells(<<c>>, View(ser, sam, lockedQuote, dep), View(ser, sam, lockedQuote', dep))
    BY LockTold
  <2>2. c = LockMoved("LockedDecreased")
    BY DEF LockMoved
  <2> HIDE DEF c
  <2> QED
    BY <1>1, <2>1, <2>2
<1>2. CASE ~(less > 0)
  <2>1. lockedQuote' = lockedQuote
    BY <1>2
  <2>2. Tells(<< >>, View(ser, sam, lockedQuote, dep), View(ser, sam, lockedQuote, dep))
    BY TellsNothing
  <2> QED
    BY <1>2, <2>1, <2>2
<1> QED
  BY <1>1, <1>2

LEMMA FinalizeTells ==
    ASSUME Sound, NEW s \in AllSeries, NEW variance \in Variances, Finalize(s, variance)
    PROVE  \E logs : Call(logs) /\ Tells(logs, Here, Here')
<1> DEFINE ppu  == PayoutPerUnit(variance, Params[s].cap, Params[s].notional)
           left == FinalLiability(series[s].outstandingUnits, ppu)
           released == series[s].lockedLiability - left
           r    == [series[s] EXCEPT !.finalized = TRUE, !.payoutPerUnit = ppu,
                                     !.lockedLiability = left]
           l1 == IF released > 0 THEN <<LockMoved("LockedDecreased")>> ELSE << >>
           e  == [source |-> "market", event |-> "Finalized", series |-> s, ppu |-> ppu,
                  outstanding |-> series[s].outstandingUnits, released |-> released]
<1>1. /\ series' = [series EXCEPT ![s] = r] /\ series[s].created
      /\ Call(l1 \o <<e>>)
      /\ UNCHANGED <<samples, deposited>>
      /\ released > 0 \/ (~(released > 0) /\ UNCHANGED lockedQuote)
  BY DEF Finalize, VaultUnchanged
<1>2. ppu \in Nat
  BY ParamTypes, InputsAssumption, PayoutPerUnitNat
<1> HIDE DEF ppu
<1>3. series[s].outstandingUnits \in Nat /\ series[s].lockedLiability \in Nat
      /\ series[s] \in SeriesState /\ series \in [AllSeries -> SeriesState]
  BY SeriesFields DEF Sound, Ledger
<1>4. left \in Nat
  BY <1>2, <1>3, FinalLiabilityNat
<1> HIDE DEF left
<1>5. released \in Int /\ left = series[s].lockedLiability - released
  BY <1>3, <1>4
<1>6. e.source = "market" /\ e.event = "Finalized" /\ e.series = s /\ e.released = released
  OBVIOUS
<1>7. /\ r.created = series[s].created /\ r.finalized = TRUE
      /\ r.issuanceStopped = series[s].issuanceStopped /\ r.closed = series[s].closed
      /\ r.outstandingUnits = series[s].outstandingUnits /\ r.lockedLiability = left
  BY <1>3 DEF SeriesState
<1> HIDE DEF r, e, released
<1>8. series'[s] = r /\ SameBut(series', series, s)
  BY <1>1, <1>3 DEF SameBut
<1>9. Tells(l1, View(series, samples, lockedQuote, deposited),
            View(series, samples, lockedQuote', deposited))
  BY <1>1, <1>5, MaybeLockTold
<1>10. Tells(<<e>>, View(series, samples, lockedQuote', deposited),
             View(series', samples, lockedQuote', deposited))
  <2>1. /\ series'[s].created /\ series'[s].finalized
        /\ series'[s].issuanceStopped = series[s].issuanceStopped
        /\ series'[s].closed = series[s].closed
        /\ series'[s].outstandingUnits = series[s].outstandingUnits
        /\ series'[s].lockedLiability = series[s].lockedLiability - e.released
    BY <1>1, <1>5, <1>6, <1>7, <1>8
  <2> QED
    BY ZenonT(60), <1>1, <1>6, <1>8, <2>1, FinalizedTold
<1>11. Here' = View(series', samples, lockedQuote', deposited)
  BY <1>1 DEF Here
<1> HIDE DEF l1
<1>12. Tells(l1 \o <<e>>, Here, Here')
  BY <1>9, <1>10, <1>11, TellsThen DEF Here
<1> QED
  BY <1>1, <1>12

LEMMA DockedTold ==
    ASSUME NEW s, NEW kind, NEW ser, NEW sam, NEW lock, NEW dep
    PROVE  Tells(DockedLog(s, kind), View(ser, sam, lock, dep), View(ser, sam, lock, dep))
  BY ReferenceTold, TellsNothing DEF DockedLog

LEMMA StopIssuanceTells ==
    ASSUME Sound, NEW s \in AllSeries, StopIssuance(s)
    PROVE  \E logs : Call(logs) /\ Tells(logs, Here, Here')
<1> DEFINE e == [source |-> "market", event |-> "IssuanceStopped", series |-> s]
           r == [series[s] EXCEPT !.issuanceStopped = TRUE]
           v == View(series, samples, lockedQuote, deposited)
           w == View(series', samples, lockedQuote, deposited)
           l == DockedLog(s, "ISSUE")
<1>1. /\ series' = [series EXCEPT ![s] = r] /\ series[s].created
      /\ Call(l \o <<e>>)
      /\ UNCHANGED <<samples, lockedQuote, deposited>>
  BY DEF StopIssuance, VaultUnchanged
<1>2. e.source = "market" /\ e.event = "IssuanceStopped" /\ e.series = s
  OBVIOUS
<1>3. series[s] \in SeriesState /\ series \in [AllSeries -> SeriesState]
  BY SeriesFields DEF Sound, Ledger
<1>4. /\ r.created = series[s].created /\ r.finalized = series[s].finalized
      /\ r.issuanceStopped = TRUE /\ r.closed = series[s].closed
      /\ r.outstandingUnits = series[s].outstandingUnits
      /\ r.lockedLiability = series[s].lockedLiability
  BY <1>3 DEF SeriesState
<1> HIDE DEF r, e
<1>5. series'[s] = r /\ SameBut(series', series, s)
  BY <1>1, <1>3 DEF SameBut
<1>6. Tells(<<e>>, v, w)
  <2>1. /\ series'[s].created /\ (series'[s].finalized <=> series[s].finalized)
        /\ series'[s].issuanceStopped = TRUE /\ series'[s].closed = series[s].closed
        /\ series'[s].outstandingUnits = series[s].outstandingUnits
        /\ series'[s].lockedLiability = series[s].lockedLiability
    BY <1>1, <1>4, <1>5
  <2> QED
    BY <1>1, <1>2, <1>5, <2>1, StopTold
<1>7. Tells(l, v, v)
  BY DockedTold
<1>8. Here = v /\ Here' = w
  BY <1>1 DEF Here
<1> HIDE DEF l, v, w
<1>9. Tells(l \o <<e>>, v, w)
  BY <1>6, <1>7, TellsThen
<1> QED
  BY <1>1, <1>8, <1>9

LEMMA BurnWorthlessTells ==
    ASSUME Sound, NEW s \in AllSeries, series[s].created, NEW h, NEW units,
           BurnWorthless(s, h, units)
    PROVE  \E logs : Call(logs) /\ Tells(logs, Here, Here')
<1> DEFINE e == [source |-> "market", event |-> "WorthlessBurned", series |-> s,
                 units |-> units]
           r == [series[s] EXCEPT !.outstandingUnits = series[s].outstandingUnits - units]
           v == View(series, samples, lockedQuote, deposited)
           w == View(series', samples, lockedQuote, deposited)
           a == Transfer(s, h, "zero", units)
<1>1. /\ series' = [series EXCEPT ![s] = r]
      /\ Call(<<a, e>>)
      /\ UNCHANGED <<samples, lockedQuote, deposited>>
  BY DEF BurnWorthless, VaultUnchanged
<1>2. e.source = "market" /\ e.event = "WorthlessBurned" /\ e.series = s /\ e.units = units
  OBVIOUS
<1>3. series[s] \in SeriesState /\ series \in [AllSeries -> SeriesState]
  BY SeriesFields DEF Sound, Ledger
<1>4. /\ r.created = series[s].created /\ r.finalized = series[s].finalized
      /\ r.issuanceStopped = series[s].issuanceStopped /\ r.closed = series[s].closed
      /\ r.outstandingUnits = series[s].outstandingUnits - units
      /\ r.lockedLiability = series[s].lockedLiability
  BY <1>3 DEF SeriesState
<1> HIDE DEF r, e
<1>5. series'[s] = r /\ SameBut(series', series, s)
  BY <1>1, <1>3 DEF SameBut
<1>6. Tells(<<e>>, v, w)
  <2>1. /\ series'[s].created /\ (series'[s].finalized <=> series[s].finalized)
        /\ series'[s].issuanceStopped = series[s].issuanceStopped
        /\ series'[s].closed = series[s].closed
        /\ series'[s].outstandingUnits = series[s].outstandingUnits - units
        /\ series'[s].lockedLiability = series[s].lockedLiability
    BY <1>4, <1>5
  <2> QED
    BY <1>2, <1>5, <2>1, WorthlessTold
<1>7. Tells(<<a>>, v, v)
  BY TransferTold
<1>8. Here = v /\ Here' = w
  BY <1>1 DEF Here
<1> HIDE DEF a, v, w
<1>9. Tells(<<a>> \o <<e>>, v, w)
  BY <1>6, <1>7, TellsThen
<1> QED
  BY <1>1, <1>8, <1>9, TwoLogs

LEMMA CloseSeriesTells ==
    ASSUME Sound, NEW s \in AllSeries, CloseSeries(s)
    PROVE  \E logs : Call(logs) /\ Tells(logs, Here, Here')
<1> DEFINE unsold   == receipts[s]["vault"]
           residual == series[s].lockedLiability
           e == [source |-> "market", event |-> "SeriesClosed", series |-> s]
           r == [series[s] EXCEPT !.closed = TRUE, !.lockedLiability = 0]
           u == View(series, samples, lockedQuote, deposited)
           v == View(series, samples, lockedQuote', deposited)
           w == View(series', samples, lockedQuote', deposited)
           l1 == DockedLog(s, "ISSUE")
           l2 == DockedLog(s, "EXIT")
           l3 == DockedLog(s, "SETTLE")
           l4 == IF unsold > 0 THEN <<Transfer(s, "vault", "zero", unsold)>> ELSE << >>
           l5 == IF residual > 0 THEN <<LockMoved("LockedDecreased")>> ELSE << >>
<1>1. /\ series' = [series EXCEPT ![s] = r] /\ series[s].created
      /\ Call(l1 \o l2 \o l3 \o l4 \o l5 \o <<e>>)
      /\ UNCHANGED <<samples, deposited>>
      /\ residual > 0 \/ (~(residual > 0) /\ UNCHANGED lockedQuote)
  BY DEF CloseSeries, VaultUnchanged
<1>2. e.source = "market" /\ e.event = "SeriesClosed" /\ e.series = s
  OBVIOUS
<1>3. series[s] \in SeriesState /\ series \in [AllSeries -> SeriesState] /\ residual \in Nat
  BY SeriesFields DEF Sound, Ledger
<1>4. /\ r.created = series[s].created /\ r.finalized = series[s].finalized
      /\ r.issuanceStopped = series[s].issuanceStopped /\ r.closed = TRUE
      /\ r.outstandingUnits = series[s].outstandingUnits /\ r.lockedLiability = 0
  BY <1>3 DEF SeriesState
<1> HIDE DEF r, e
<1>5. series'[s] = r /\ SameBut(series', series, s)
  BY <1>1, <1>3 DEF SameBut
<1>6. Tells(<<e>>, v, w)
  <2>1. /\ series'[s].created /\ (series'[s].finalized <=> series[s].finalized)
        /\ series'[s].issuanceStopped = series[s].issuanceStopped
        /\ series'[s].closed = TRUE /\ series'[s].lockedLiability = 0
        /\ series'[s].outstandingUnits = series[s].outstandingUnits
    BY <1>1, <1>4, <1>5
  <2> QED
    BY <1>1, <1>2, <1>5, <2>1, CloseTold
<1>7. Tells(l1, u, u) /\ Tells(l2, u, u) /\ Tells(l3, u, u)
  BY DockedTold
<1>8. Tells(l4, u, u)
  BY TransferTold, TellsNothing
<1>9. Tells(l5, u, v)
  <2>1. residual \in Int
    BY <1>3
  <2> HIDE DEF residual
  <2> QED
    BY <1>1, <2>1, MaybeLockTold
<1>10. Here = u /\ Here' = w
  BY <1>1 DEF Here
<1> HIDE DEF l1, l2, l3, l4, l5, u, v, w
<1>11. Tells(l1 \o l2, u, u)
  BY <1>7, TellsThen
<1>12. Tells(l1 \o l2 \o l3, u, u)
  BY <1>7, <1>11, TellsThen
<1>13. Tells(l1 \o l2 \o l3 \o l4, u, u)
  BY <1>8, <1>12, TellsThen
<1>14. Tells(l1 \o l2 \o l3 \o l4 \o l5, u, v)
  BY <1>9, <1>13, TellsThen
<1>15. Tells(l1 \o l2 \o l3 \o l4 \o l5 \o <<e>>, u, w)
  BY <1>6, <1>14, TellsThen
<1> QED
  BY <1>1, <1>10, <1>15

LEMMA CollateralTells ==
    ASSUME NEW amount, VaultDeposit(amount) \/ VaultWithdrawFree(amount)
    PROVE  \E logs : Call(logs) /\ Tells(logs, Here, Here')
<1>1. PICK kind \in {"Deposited", "FreeWithdrawn"} :
        /\ Call(Collateral(kind, amount))
        /\ deposited' = IF kind = "Deposited" THEN deposited + amount ELSE deposited
        /\ UNCHANGED <<series, samples, lockedQuote>>
  BY DEF VaultDeposit, VaultWithdrawFree, Deposit, WithdrawFree, ledger
<1>2. Here' = View(series, samples, lockedQuote', deposited')
  BY <1>1 DEF Here
<1>3. Tells(Collateral(kind, amount), View(series, samples, lockedQuote, deposited),
            View(series, samples, lockedQuote', deposited'))
  BY <1>1, CollateralTold DEF Collateral
<1> QED
  BY <1>1, <1>2, <1>3 DEF Here

LEMMA ReceiptTransferTells ==
    ASSUME NEW s, NEW from, NEW to, NEW units, ReceiptTransfer(s, from, to, units)
    PROVE  \E logs : Call(logs) /\ Tells(logs, Here, Here')
<1>1. Call(<<Transfer(s, from, to, units)>>)
      /\ UNCHANGED <<series, samples, lockedQuote, deposited>>
  BY DEF ReceiptTransfer, VaultUnchanged
<1>2. Tells(<<Transfer(s, from, to, units)>>, Here, Here)
  BY TransferTold
<1> QED
  BY <1>1, <1>2, NothingSeen

-----------------------------------------------------------------------------
(* The index after every step *)

\* What mirroring says of the ledger itself.
LEMMA FollowedLedger ==
    ASSUME Followed
    PROVE  /\ DOMAIN samples = AllSeries
           /\ \A s \in AllSeries : ~series[s].created => series[s] = NoSeries
<1>1. Here.series = series /\ Here.samples = samples
  BY DEF Here, View
<1>2. Mirrors(Folded(entities, log), Here)
  BY DEF Followed
<1> QED
  BY <1>1, <1>2 DEF Mirrors, SeriesOf

LEMMA ElsewhereFollows ==
    ASSUME Framed, Followed, isVault, Elsewhere
    PROVE  Followed' /\ isVault'
<1>1. CASE Tick \/ UNCHANGED vars
  <2>1. UNCHANGED <<stack, log, entities, isVault, series, samples, lockedQuote, deposited>>
    BY <1>1 DEF Tick, vars, chain, ledger
  <2>2. Here' = Here
    BY <2>1, NothingSeen
  <2> QED
    BY <2>1, <2>2 DEF Followed, Folded, IsLogs, Mirrors, Restored
<1>2. CASE \E a \in Deposits : VaultDeposit(a) \/ VaultWithdrawFree(a)
  <2>1. UNCHANGED isVault
    BY <1>2 DEF VaultDeposit, VaultWithdrawFree
  <2> QED
    BY <1>2, <2>1, CollateralTells, CallFollows
<1>3. ASSUME NEW s \in AllSeries, NEW n, Checkpoint(s, n)
      PROVE  Followed' /\ isVault'
  <2>1. UNCHANGED isVault
    BY <1>3 DEF Checkpoint
  <2>2. DOMAIN samples = AllSeries
    BY FollowedLedger
  <2> QED
    BY <1>3, <2>1, <2>2, CheckpointTells, CallFollows
<1>4. ASSUME NEW s, NEW h, NEW to, NEW u, ReceiptTransfer(s, h, to, u)
      PROVE  Followed' /\ isVault'
  <2>1. UNCHANGED isVault
    BY <1>4 DEF ReceiptTransfer
  <2> QED
    BY <1>4, <2>1, ReceiptTransferTells, CallFollows
<1>5. ~CreateVault
  BY DEF CreateVault
<1> QED
  BY <1>1, <1>2, <1>3, <1>4, <1>5 DEF Elsewhere

LEMMA SeriesChangeFollows ==
    ASSUME Sound, Framed, ClaimsKept, Followed, isVault, NEW s \in AllSeries, SeriesChange(s)
    PROVE  Followed' /\ isVault'
<1>1. UNCHANGED isVault
  BY DEF SeriesChange, CreateSeries, Finalize, StopIssuance, CloseSeries, BurnWorthless
<1>2. CreateSeries(s) => series[s] = NoSeries /\ DOMAIN samples = AllSeries
  BY FollowedLedger DEF CreateSeries
<1>3. \A h, u : BurnWorthless(s, h, u) => series[s].created
  BY ClaimsEach DEF BurnWorthless, ClaimsNow, SeriesClaims
<1>4. \E logs : Call(logs) /\ Tells(logs, Here, Here')
  BY <1>2, <1>3, CreateSeriesTells, FinalizeTells, StopIssuanceTells, CloseSeriesTells,
     BurnWorthlessTells DEF SeriesChange
<1> QED
  BY SMTT(30), <1>1, <1>4, CallFollows

\* A swap begins with what its pricing logs, which is nothing for a payout.
LEMMA SwapCallFollows ==
    ASSUME Sound, Framed, Followed, isVault, NEW s \in AllSeries, NEW h \in Holders,
           NEW inFirst \in BOOLEAN, SwapCall(s, h, inFirst)
    PROVE  Followed' /\ isVault'
<1>1. ASSUME NEW kind \in Kinds, NEW in \in Nat, NEW out \in Nat,
             EnterSwap(Frame(s, kind, h, in, out, inFirst)), UNCHANGED entities,
             NEW logs, Tells(logs, Here, Here'), log' = log \o logs
      PROVE  Followed'
  <2> DEFINE f == Frame(s, kind, h, in, out, inFirst)
  <2>1. PICK S : stack \in Seq(Frames(S)) /\ f \in Frames(S)
    BY <1>1, EnterFramed
  <2>2. f.saved = Snapshot
    BY DEF Frame
  <2>3. stack' = Append(stack, f)
    BY <1>1 DEF EnterSwap
  <2> HIDE DEF f
  <2> DEFINE R == Frames(S)
  <2>4. stack \in Seq(R) /\ f \in R
    BY <2>1
  <2> HIDE DEF R
  <2> QED
    BY <1>1, <2>2, <2>3, <2>4, SwapFollows
<1>2. CASE \E ask \in Nat, exactIn \in BOOLEAN, a \in Nat :
                SwapIssue(s, h, ask, exactIn, a, inFirst)
  <2>1. PICK ask \in Nat, exactIn \in BOOLEAN, a \in Nat :
                SwapIssue(s, h, ask, exactIn, a, inFirst)
    BY <1>2
  <2> DEFINE fill == IssueFill(s, ask, exactIn, a)
  <2>2. /\ EnterSwap(Frame(s, "ISSUE", h, fill.premium, fill.units, inFirst))
        /\ UNCHANGED isVault
    BY <2>1 DEF SwapIssue
  <2>3. fill.premium \in Nat /\ fill.units \in Nat
    BY <2>1, IssueFillNat DEF SwapIssue
  <2>4. PICK logs : Emit(logs, FALSE) /\ Tells(logs, Here, Here')
    BY <2>1, SwapIssueTells
  <2>5. log' = log \o logs /\ UNCHANGED entities
    BY <2>4 DEF Emit
  <2> HIDE DEF fill
  <2> QED
    BY <1>1, <2>2, <2>3, <2>4, <2>5 DEF Kinds
<1>3. CASE \E kind \in {"EXIT", "SETTLE"}, in \in Nat, paid \in Nat :
                SwapPayout(s, kind, h, in, paid, inFirst)
  <2>1. PICK kind \in {"EXIT", "SETTLE"}, in \in Nat, paid \in Nat :
                SwapPayout(s, kind, h, in, paid, inFirst)
    BY <1>3
  <2>2. /\ EnterSwap(Frame(s, kind, h, in, paid, inFirst))
        /\ UNCHANGED <<isVault, log, entities, series, samples, lockedQuote, deposited>>
    BY <2>1 DEF SwapPayout, chain, ledger
  <2>3. Tells(<< >>, Here, Here')
    BY <2>2, NothingSeen, TellsNothing
  <2>4. log' = log \o << >>
    <3>1. PICK T : log \in Seq(T)
      BY DEF Followed, IsLogs
    <3> QED
      BY <2>2, <3>1, ConcatEmptySeq
  <2> QED
    BY <1>1, <2>2, <2>3, <2>4 DEF Kinds
<1> QED
  BY <1>2, <1>3, SwapCalls

LEMMA FollowedNext ==
    ASSUME Sound, Framed, ClaimsKept, Followed, isVault, [Next]_vars
    PROVE  Followed' /\ isVault'
<1>1. CASE TransferIn
  <2>1. UNCHANGED isVault
    BY <1>1 DEF TransferIn
  <2> QED
    BY <1>1, <2>1, TransferInTells, TransferFollows
<1>2. CASE TransferOut
  <2>1. UNCHANGED isVault
    BY <1>2 DEF TransferOut
  <2> QED
    BY <1>2, <2>1, TransferOutTells, TransferFollows
<1>3. CASE Revert
  <2>1. UNCHANGED isVault
    BY <1>3 DEF Revert
  <2> QED
    BY <1>3, <2>1, RevertFollows
<1> QED
  BY <1>1, <1>2, <1>3, NextCases, ElsewhereFollows, SeriesChangeFollows, SwapCallFollows

\* The log of the vault's creation is the first there is.
LEMMA CreateVaultFollows ==
    ASSUME Bare, CreateVault
    PROVE  Followed' /\ isVault'
<1> DEFINE e == [source |-> "market", event |-> "VaultCreated"]
<1>1. /\ Call(<<e>>) /\ isVault'
      /\ UNCHANGED <<series, samples, lockedQuote, deposited>>
  BY DEF CreateVault, chain, ledger
<1> HIDE DEF e
<1>2. << >> \o <<e>> = Append(<< >>, e) /\ << >> \in Seq({e})
  <2>1. << >> \in Seq({e})
    BY EmptySeq
  <2> QED
    BY <2>1, AppendIsConcat
<1>3. /\ stack' = << >> /\ log' = << >>
      /\ entities' = Folded(NoEntities, << >> \o <<e>>)
  <2>1. stack = << >> /\ log = << >> /\ entities = NoEntities
    BY DEF Bare
  <2>2. UNCHANGED stack /\ Emit(<<e>>, stack = << >>)
    BY <1>1 DEF Call
  <2> QED
    BY <2>1, <2>2 DEF Emit, Folded
<1>4. entities' = Handle(NoEntities, e)
  <2>1. Folded(NoEntities, Append(<< >>, e)) = Handle(Folded(NoEntities, << >>), e)
    BY ZenonT(60), <1>2, FoldAppend
  <2> QED
    BY <1>2, <1>3, <2>1, FoldNothing
<1>5. Mirrors(entities', Here')
  <2>1. DOMAIN samples = AllSeries
    BY DEF Bare
  <2>2. Here' = View([s \in AllSeries |-> NoSeries], samples, 0, 0)
    BY <1>1 DEF Bare, Here
  <2> QED
    BY <1>4, <2>1, <2>2, VaultCreatedTold DEF e
<1>6. IsLogs(log') /\ Mirrors(Folded(entities', log'), Here')
  BY <1>3, <1>5, EmptySeq, FoldNothing DEF IsLogs
<1>7. \A i \in 1..Len(stack') : FALSE
  BY <1>3, EmptySeq
<1> QED
  BY <1>1, <1>3, <1>6, <1>7, FollowsNext

\* Without a vault nothing else can happen.
LEMMA BareNext ==
    ASSUME Sound, Bare, ~isVault, [Next]_vars
    PROVE  IF isVault' THEN Followed' ELSE Bare'
<1>1. CASE CreateVault
  BY <1>1, CreateVaultFollows
<1>2. CASE Tick \/ UNCHANGED vars
  <2>1. UNCHANGED <<stack, log, entities, isVault, series, receipts, aqua, samples, balance,
                    lockedQuote, deposited, advance>>
    BY <1>2 DEF Tick, vars, chain, ledger
  <2> QED
    BY <2>1 DEF Bare
<1>3. ASSUME NEW s \in AllSeries PROVE ~series[s].created /\ ~series[s].finalized
  BY DEF Bare, NoSeries
<1>4. ~\E a \in Deposits : VaultDeposit(a) \/ VaultWithdrawFree(a)
  BY DEF VaultDeposit, VaultWithdrawFree
<1>5. ASSUME NEW s \in AllSeries, NEW n PROVE ~Checkpoint(s, n)
  BY <1>3 DEF Checkpoint
<1>6. ASSUME NEW s \in AllSeries, NEW h \in Holders, NEW u \in UnitAmounts, NEW to
      PROVE  ~ReceiptTransfer(s, h, to, u)
  <2>1. u \in Nat \ {0}
    BY InputsAssumption
  <2>2. receipts[s][h] = 0
    BY DEF Bare, Accounts
  <2> QED
    BY <2>1, <2>2 DEF ReceiptTransfer
<1>7. ASSUME NEW s \in AllSeries PROVE ~SeriesChange(s)
  BY <1>3 DEF SeriesChange, CreateSeries, Finalize, StopIssuance, CloseSeries, BurnWorthless
<1>8. ASSUME NEW s \in AllSeries, NEW h \in Holders, NEW inFirst \in BOOLEAN
      PROVE  ~SwapCall(s, h, inFirst)
  <2>1. \A ask, exactIn, a : ~SwapIssue(s, h, ask, exactIn, a, inFirst)
    BY <1>3 DEF SwapIssue
  <2> QED
    BY <1>3, <2>1, SwapCalls
<1>9. ~TransferIn /\ ~TransferOut /\ ~Revert
  BY DEF Bare, TransferIn, TransferInNext, TransferOut, TransferOutNext, Revert
<1> QED
  BY <1>1, <1>2, <1>4, <1>5, <1>6, <1>7, <1>8, <1>9, NextCases DEF Elsewhere

LEMMA IndexFollowsAlways == Spec => []IndexFollows
<1>1. Init => IndexFollows
  BY DEF Init, IndexFollows, Bare
<1>2. Sound /\ Framed /\ ClaimsKept /\ IndexFollows /\ [Next]_vars => IndexFollows'
  <2> SUFFICES ASSUME Sound, Framed, ClaimsKept, IndexFollows, [Next]_vars
               PROVE  IF isVault' THEN Followed' ELSE Bare'
    BY DEF IndexFollows
  <2>1. CASE isVault
    BY <2>1, FollowedNext DEF IndexFollows
  <2>2. CASE ~isVault
    BY <2>2, BareNext DEF IndexFollows
  <2> QED
    BY <2>1, <2>2
<1> QED
  BY <1>1, <1>2, SoundAlways, ClaimsAlways, PTL DEF Spec

\* Whatever swaps nested, whichever of them reverted with the logs of all that
\* ran inside, the handlers of the subgraph leave the series and the vault
\* entities equal to the contracts once the transaction is over.
THEOREM EntitiesTheorem == Spec => []EntitiesAreLedger
<1>1. ASSUME Followed, stack = << >> PROVE EntitiesAreLedger
  <2>1. log = << >> /\ Mirrors(Folded(entities, log), Here)
    BY <1>1 DEF Followed
  <2>2. Mirrors(entities, Here)
    BY <2>1, FoldNothing
  <2>3. /\ Here.series = series /\ Here.samples = samples
        /\ Here.locked = lockedQuote /\ Here.deposited = deposited
    BY DEF Here, View
  <2>4. /\ VaultOf(entities.vault, Here) /\ SeriesOf(entities.series, Here)
        /\ FinalOf(entities.finalization, series)
    BY <2>2, <2>3 DEF Mirrors
  <2>5. /\ DOMAIN entities.series = {s \in AllSeries : series[s].created}
        /\ entities.vault.lastReportedLocked = lockedQuote
        /\ entities.vault.totalDeposited = deposited
    BY <2>3, <2>4 DEF VaultOf, SeriesOf
  <2>6. ASSUME NEW s \in DOMAIN entities.series
        PROVE  /\ Has(s).outstanding = series[s].outstandingUnits
               /\ Has(s).locked = series[s].lockedLiability
               /\ Has(s).stopped = series[s].issuanceStopped
               /\ Has(s).closed = series[s].closed
               /\ samples[s] > 0 =>
                    Has(s).processedThrough = Params[s].start + samples[s] - 1
               /\ (s \in DOMAIN entities.finalization) <=> series[s].finalized
    <3>1. s \in AllSeries /\ series[s].created
      BY <2>5
    <3>2. EntityOf(entities.series[s], s, series[s], samples[s])
      BY <2>3, <2>4, <3>1 DEF SeriesOf
    <3> QED
      BY <2>4, <3>1, <3>2 DEF EntityOf, FinalOf, Has
  <2> QED
    BY <2>5, <2>6 DEF EntitiesAreLedger
<1>2. ASSUME Bare PROVE EntitiesAreLedger
  <2>1. /\ entities.series = << >> /\ entities.vault = NoVault
        /\ lockedQuote = 0 /\ deposited = 0
    BY <1>2 DEF Bare, NoEntities
  <2>2. DOMAIN << >> = {} /\ NoVault.lastReportedLocked = 0 /\ NoVault.totalDeposited = 0
    BY DEF NoVault
  <2>3. \A s \in AllSeries : ~series[s].created
    BY <1>2 DEF Bare, NoSeries
  <2> QED
    BY <2>1, <2>2, <2>3 DEF EntitiesAreLedger
<1>3. IndexFollows => EntitiesAreLedger
  <2>1. stack # << >> => EntitiesAreLedger
    BY DEF EntitiesAreLedger
  <2> QED
    BY <1>1, <1>2, <2>1 DEF IndexFollows
<1> QED
  BY <1>3, IndexFollowsAlways, PTL

-----------------------------------------------------------------------------
(***************************************************************************)
(* Orders.  The burn legs of a series stand as long as it is open, and the *)
(* accumulator stores no more samples than the window has offered.         *)
(***************************************************************************)

\* What the window has to offer at a time.
SamplesAt(s, t) ==
    LET p == Params[s] IN IF t < p.start THEN 0 ELSE Least(t, p.expiry) - p.start + 1

\* The burn legs of a series r are shipped exactly while it is open, the issue
\* leg never longer, and no more samples are stored than there are.
Stands(s, r, orders, n, t) ==
    LET open == r.created /\ ~r.closed IN
    /\ r.closed => r.created
    /\ orders["EXIT"] # Docked <=> open
    /\ orders["SETTLE"] # Docked <=> open
    /\ orders["ISSUE"] # Docked => open
    /\ \A k \in Kinds : orders[k] >= Docked
    /\ n <= SamplesAt(s, t)

Standing(ser, aq, sam, t) ==
    /\ sam \in [AllSeries -> Nat]
    /\ \A s \in AllSeries : Stands(s, ser[s], aq[s], sam[s], t)

\* So it is now, and so a revert leaves it.
OrdersStand ==
    /\ now \in Nat
    /\ Standing(series, aqua, samples, now)
    /\ \A i \in 1..Len(stack) :
        Standing(stack[i].saved.series, stack[i].saved.aqua, stack[i].saved.samples, now)

LEMMA OrdersStandPrime ==
    OrdersStand' <=>
        /\ now' \in Nat
        /\ Standing(series', aqua', samples', now')
        /\ \A i \in 1..Len(stack') :
            Standing(stack'[i].saved.series, stack'[i].saved.aqua, stack'[i].saved.samples, now')
  BY DEF OrdersStand, Standing, Stands, SamplesAt

LEMMA SamplesAtTypes ==
    ASSUME NEW s \in AllSeries, NEW t \in Nat
    PROVE  /\ SamplesAt(s, t) \in Nat /\ SamplesAt(s, t) <= SamplesAt(s, t + 1)
           /\ SamplesAt(s, t) <= TotalSamples(s) /\ TotalSamples(s) \in Nat
           /\ t >= Params[s].start => SamplesAt(s, t) >= 1
<1>1. Params[s].start \in Nat /\ Params[s].expiry \in Nat /\ Params[s].start < Params[s].expiry
  BY ParamsAssumption DEF ValidParams
<1> QED
  BY <1>1 DEF SamplesAt, TotalSamples, Least

\* A step outside the swaps' own.
LEMMA CallStands ==
    ASSUME OrdersStand, UNCHANGED <<now, stack>>, Standing(series', aqua', samples', now)
    PROVE  OrdersStand'
  BY OrdersStandPrime DEF OrdersStand

\* A step that changes one series only.
LEMMA OneStands ==
    ASSUME OrdersStand, NEW s \in AllSeries, samples' \in [AllSeries -> Nat],
           \A x \in AllSeries \ {s} :
               series'[x] = series[x] /\ aqua'[x] = aqua[x] /\ samples'[x] = samples[x],
           Stands(s, series'[s], aqua'[s], samples'[s], now)
    PROVE  Standing(series', aqua', samples', now)
<1>1. ASSUME NEW x \in AllSeries PROVE Stands(x, series'[x], aqua'[x], samples'[x], now)
  BY DEF OrdersStand, Standing
<1> QED
  BY <1>1 DEF Standing

\* Figures of a series that count for nothing here.
LEMMA SameStands ==
    ASSUME NEW s, NEW r, NEW orders, NEW n, NEW t, NEW r2, r2.created = r.created,
           r2.closed = r.closed, Stands(s, r, orders, n, t)
    PROVE  Stands(s, r2, orders, n, t)
  BY DEF Stands

LEMMA EnterStands ==
    ASSUME OrdersStand, NEW S, stack \in Seq(S), NEW f \in S, f.saved = Snapshot,
           stack' = Append(stack, f), UNCHANGED now, Standing(series', aqua', samples', now)
    PROVE  OrdersStand'
<1> DEFINE n == Len(stack)
<1>1. /\ n \in Nat /\ Len(stack') = n + 1
      /\ stack'[n + 1] = f /\ \A i \in 1..n : stack'[i] = stack[i]
  BY AppendProperties, LenProperties
<1>2. Standing(f.saved.series, f.saved.aqua, f.saved.samples, now)
  BY DEF Snapshot, OrdersStand
<1>3. \A i \in 1..n :
        Standing(stack[i].saved.series, stack[i].saved.aqua, stack[i].saved.samples, now)
  BY DEF OrdersStand
<1> HIDE DEF n
<1>4. ASSUME NEW i \in 1..(n + 1)
      PROVE  Standing(stack'[i].saved.series, stack'[i].saved.aqua, stack'[i].saved.samples, now)
  <2>1. CASE i = n + 1
    BY <1>1, <1>2, <2>1
  <2>2. CASE i # n + 1
    <3>1. i \in 1..n
      BY <1>1, <2>2
    <3> QED
      BY <1>1, <1>3, <3>1
  <2> QED
    BY <2>1, <2>2
<1> QED
  BY <1>1, <1>4, OrdersStandPrime DEF OrdersStand

LEMMA TransferStands ==
    ASSUME OrdersStand, Framed, ClaimsKept, stack # << >>, TransferDone, UNCHANGED now,
           Standing(series', aqua', samples', now)
    PROVE  OrdersStand'
<1>1. PICK S : /\ stack \in Seq(S)
               /\ \A f \in S :
                        /\ FrameShape(f) /\ f.group \in AllSeries /\ f.taker \in Holders
                        /\ f.side = "VAR"
                        /\ [f EXCEPT !.stage = "second"] \in S
                        /\ [f EXCEPT !.stage = "second"].inFirst = f.inFirst
                        /\ [f EXCEPT !.stage = "second"].stage = "second"
                        /\ SameSwap([f EXCEPT !.stage = "second"], f)
  BY StackShaped
<1>2. Top \in S
  BY <1>1, ButLast DEF Top
<1>3. \A i \in 1..Len(stack') : i \in 1..Len(stack) /\ SameSwap(stack'[i], stack[i])
  BY <1>1, <1>2, SwapMoves DEF ClaimsKept
<1>4. \A i \in 1..Len(stack') : i \in 1..Len(stack) /\ stack'[i].saved = stack[i].saved
  BY <1>3 DEF SameSwap
<1> QED
  BY <1>4, OrdersStandPrime DEF OrdersStand

LEMMA RevertStands ==
    ASSUME OrdersStand, Framed, Revert
    PROVE  OrdersStand'
<1>1. PICK S : stack \in Seq(S)
  BY DEF Framed
<1>2. /\ stack # << >> /\ stack' = Below /\ UNCHANGED now /\ series' = Top.saved.series
      /\ aqua' = Top.saved.aqua /\ samples' = Top.saved.samples
  BY DEF Revert
<1> DEFINE n == Len(stack)
<1>3. /\ n \in Nat \ {0} /\ Len(stack') = n - 1 /\ Top = stack[n]
      /\ \A i \in 1..(n - 1) : stack'[i] = stack[i]
  BY <1>1, <1>2, ButLast DEF Below, Top
<1>4. \A i \in 1..n :
        Standing(stack[i].saved.series, stack[i].saved.aqua, stack[i].saved.samples, now)
  BY DEF OrdersStand
<1> HIDE DEF n
<1>5. Standing(series', aqua', samples', now)
  BY <1>2, <1>3, <1>4
<1>6. \A i \in 1..(n - 1) : i \in 1..n
  BY <1>3
<1> QED
  BY <1>2, <1>3, <1>4, <1>5, <1>6, OrdersStandPrime DEF OrdersStand

(* The steps *)

LEMMA StandsNow ==
    ASSUME Sound, OrdersStand
    PROVE  /\ samples \in [AllSeries -> Nat] /\ now \in Nat
           /\ series \in [AllSeries -> SeriesState] /\ aqua \in [AllSeries -> [Kinds -> Int]]
           /\ \A s \in AllSeries :
                /\ Stands(s, series[s], aqua[s], samples[s], now)
                /\ series[s].created \in BOOLEAN /\ series[s].closed \in BOOLEAN
                /\ \A k \in Kinds : aqua[s][k] \in Int
                /\ samples[s] \in Nat
  BY DEF OrdersStand, Standing, Sound, Ledger, SeriesState

LEMMA ElsewhereStands ==
    ASSUME Sound, OrdersStand, Elsewhere
    PROVE  OrdersStand'
<1>1. CASE Tick
  <2>1. /\ now' = now + 1 /\ stack = << >> /\ stack' = << >>
        /\ UNCHANGED <<series, aqua, samples>>
    BY <1>1 DEF Tick, chain, ledger
  <2>2. ASSUME NEW s \in AllSeries PROVE Stands(s, series[s], aqua[s], samples[s], now + 1)
    <3>1. SamplesAt(s, now) <= SamplesAt(s, now + 1) /\ SamplesAt(s, now) \in Nat
      BY StandsNow, SamplesAtTypes
    <3>2. SamplesAt(s, now + 1) \in Nat
      BY StandsNow, SamplesAtTypes
    <3>3. Stands(s, series[s], aqua[s], samples[s], now) /\ samples[s] \in Nat
      BY StandsNow
    <3>4. samples[s] <= SamplesAt(s, now + 1)
      BY <3>1, <3>2, <3>3 DEF Stands
    <3> QED
      BY <3>3, <3>4 DEF Stands
  <2>3. Standing(series', aqua', samples', now')
    BY <2>1, <2>2, StandsNow DEF Standing
  <2>4. \A i \in 1..Len(stack') : FALSE
    BY <2>1
  <2>5. now' \in Nat
    BY <2>1, StandsNow
  <2> QED
    BY <2>3, <2>4, <2>5, OrdersStandPrime
<1>2. ASSUME NEW s \in AllSeries, NEW n \in 1..TotalSamples(s), Checkpoint(s, n)
      PROVE  OrdersStand'
  <2> DEFINE stored == Least(samples[s] + n, AvailableSamples(s))
  <2>1. /\ samples' = [samples EXCEPT ![s] = stored]
        /\ UNCHANGED <<now, stack, series, aqua>>
    BY <1>2 DEF Checkpoint, Call
  <2>2. AvailableSamples(s) = SamplesAt(s, now)
    BY DEF AvailableSamples, SamplesAt
  <2>3. SamplesAt(s, now) \in Nat /\ samples[s] + n \in Nat
    BY StandsNow, SamplesAtTypes
  <2>4. stored \in Nat /\ stored <= SamplesAt(s, now)
    BY <2>2, <2>3 DEF Least
  <2> HIDE DEF stored
  <2>5. /\ samples' \in [AllSeries -> Nat] /\ samples'[s] = stored
        /\ \A x \in AllSeries \ {s} : samples'[x] = samples[x]
    BY <2>1, <2>4, StandsNow
  <2>6. Stands(s, series'[s], aqua'[s], samples'[s], now)
    BY <2>1, <2>4, <2>5, StandsNow DEF Stands
  <2>7. Standing(series', aqua', samples', now)
    BY <2>1, <2>5, <2>6, OneStands
  <2> QED
    BY <2>1, <2>7, CallStands
<1>3. CASE UNCHANGED <<now, stack, series, aqua, samples>>
  BY <1>3, CallStands DEF OrdersStand
<1>4. CASE CreateVault \/ UNCHANGED vars
  <2>1. UNCHANGED <<now, stack, series, aqua, samples>>
    BY <1>4 DEF CreateVault, Call, vars, chain, ledger
  <2> QED
    BY <1>3, <2>1
<1>5. CASE \E a \in Deposits : VaultDeposit(a) \/ VaultWithdrawFree(a)
  <2>1. UNCHANGED <<now, stack, series, aqua, samples>>
    BY <1>5 DEF VaultDeposit, VaultWithdrawFree, Call, ledger
  <2> QED
    BY <1>3, <2>1
<1>6. ASSUME NEW s \in AllSeries, NEW h \in Holders, NEW u \in UnitAmounts,
             NEW to \in Accounts, ReceiptTransfer(s, h, to, u)
      PROVE  OrdersStand'
  <2>1. UNCHANGED <<now, stack, series, aqua, samples>>
    BY <1>6 DEF ReceiptTransfer, Call
  <2> QED
    BY <1>3, <2>1
<1> QED
  BY <1>1, <1>2, <1>4, <1>5, <1>6 DEF Elsewhere

\* The controller keeps the other figures of a series apart from these.
LEMMA FigureStands ==
    ASSUME Sound, OrdersStand, NEW s \in AllSeries,
           \A x \in AllSeries \ {s} : series'[x] = series[x],
           series'[s].created = series[s].created, series'[s].closed = series[s].closed,
           UNCHANGED <<aqua, samples>>
    PROVE  Standing(series', aqua', samples', now)
<1>1. samples' \in [AllSeries -> Nat] /\ Stands(s, series[s], aqua[s], samples[s], now)
  BY StandsNow
<1>2. Stands(s, series'[s], aqua'[s], samples'[s], now)
  BY <1>1, SameStands
<1> QED
  BY <1>1, <1>2, OneStands

LEMMA CreateSeriesStands ==
    ASSUME Sound, OrdersStand, NEW s \in AllSeries, CreateSeries(s)
    PROVE  OrdersStand'
<1> DEFINE p == Params[s]
           seeded == IF p.start <= now THEN 1 ELSE 0
           most == Liability(s, p.maxUnits)
<1>1. /\ ~series[s].created /\ UNCHANGED <<now, stack>>
      /\ series' = [series EXCEPT ![s].created = TRUE]
      /\ aqua' = [aqua EXCEPT ![s] = [k \in Kinds |-> IF k = "ISSUE" THEN p.maxUnits
                                                       ELSE most]]
      /\ samples' = [samples EXCEPT ![s] = seeded]
  BY DEF CreateSeries, Call
<1>2. p.maxUnits \in Nat /\ most \in Nat /\ p.start \in Nat
  BY ParamTypes, LiabilityNat, ParamsAssumption DEF ValidParams
<1>3. seeded \in Nat /\ seeded <= SamplesAt(s, now)
  <2>1. SamplesAt(s, now) \in Nat /\ (now >= p.start => SamplesAt(s, now) >= 1)
    BY StandsNow, SamplesAtTypes
  <2>2. now \in Nat
    BY StandsNow
  <2> HIDE DEF p
  <2> QED
    BY <1>2, <2>1, <2>2
<1> HIDE DEF p, seeded, most
<1>4. /\ samples' \in [AllSeries -> Nat] /\ samples'[s] = seeded
      /\ aqua'[s] = [k \in Kinds |-> IF k = "ISSUE" THEN p.maxUnits ELSE most]
      /\ \A x \in AllSeries \ {s} :
            series'[x] = series[x] /\ aqua'[x] = aqua[x] /\ samples'[x] = samples[x]
  BY <1>1, <1>3, StandsNow
<1>5. series'[s].created = TRUE /\ series'[s].closed = series[s].closed
  BY <1>1, StandsNow DEF SeriesState
<1>6. series[s].closed = FALSE
  BY <1>1, StandsNow DEF Stands
<1>7. /\ aqua'[s]["EXIT"] = most /\ aqua'[s]["SETTLE"] = most
      /\ \A k \in Kinds : aqua'[s][k] \in Nat
  BY <1>2, <1>4 DEF Kinds
<1>8. /\ aqua'[s]["EXIT"] # Docked /\ aqua'[s]["SETTLE"] # Docked
      /\ \A k \in Kinds : aqua'[s][k] >= Docked
  BY <1>2, <1>7 DEF Docked
<1>9. Stands(s, series'[s], aqua'[s], samples'[s], now)
  BY <1>3, <1>4, <1>5, <1>6, <1>8 DEF Stands
<1>10. Standing(series', aqua', samples', now)
  BY <1>4, <1>9, OneStands
<1> QED
  BY <1>1, <1>10, CallStands

LEMMA StopIssuanceStands ==
    ASSUME Sound, OrdersStand, NEW s \in AllSeries, StopIssuance(s)
    PROVE  OrdersStand'
<1>1. /\ UNCHANGED <<now, stack, samples>>
      /\ series' = [series EXCEPT ![s].issuanceStopped = TRUE]
      /\ aqua' = [aqua EXCEPT ![s]["ISSUE"] = Docked]
  BY DEF StopIssuance, Call
<1>2. /\ \A x \in AllSeries \ {s} : series'[x] = series[x] /\ aqua'[x] = aqua[x]
      /\ series'[s].created = series[s].created /\ series'[s].closed = series[s].closed
  BY <1>1, StandsNow DEF SeriesState
<1>3. aqua'[s]["ISSUE"] = Docked /\ \A k \in Kinds \ {"ISSUE"} : aqua'[s][k] = aqua[s][k]
  BY <1>1, StandsNow DEF Kinds
<1>4. Stands(s, series[s], aqua[s], samples[s], now) /\ samples' \in [AllSeries -> Nat]
  BY <1>1, StandsNow
<1>5. Stands(s, series'[s], aqua'[s], samples'[s], now)
  BY <1>1, <1>2, <1>3, <1>4 DEF Stands, Kinds, Docked
<1>6. Standing(series', aqua', samples', now)
  BY <1>1, <1>2, <1>4, <1>5, OneStands
<1> QED
  BY <1>1, <1>6, CallStands

LEMMA CloseSeriesStands ==
    ASSUME Sound, OrdersStand, NEW s \in AllSeries, CloseSeries(s)
    PROVE  OrdersStand'
<1>1. /\ UNCHANGED <<now, stack, samples>> /\ series[s].created
      /\ series' = [series EXCEPT ![s].closed = TRUE, ![s].lockedLiability = 0]
      /\ aqua' = [aqua EXCEPT ![s] = [k \in Kinds |-> Docked]]
  BY DEF CloseSeries, Call
<1>2. /\ \A x \in AllSeries \ {s} : series'[x] = series[x] /\ aqua'[x] = aqua[x]
      /\ series'[s].created = series[s].created /\ series'[s].closed = TRUE
  BY <1>1, StandsNow DEF SeriesState
<1>3. \A k \in Kinds : aqua'[s][k] = Docked
  BY <1>1, StandsNow
<1>4. Stands(s, series[s], aqua[s], samples[s], now) /\ samples' \in [AllSeries -> Nat]
  BY <1>1, StandsNow
<1>5. Stands(s, series'[s], aqua'[s], samples'[s], now)
  <2>1. \A k \in Kinds : aqua'[s][k] = Docked /\ aqua'[s][k] >= Docked
    BY <1>3 DEF Docked
  <2>2. /\ aqua'[s]["EXIT"] = Docked /\ aqua'[s]["SETTLE"] = Docked
        /\ aqua'[s]["ISSUE"] = Docked
    BY <1>3 DEF Kinds
  <2>3. series'[s].created = TRUE /\ samples'[s] <= SamplesAt(s, now)
    BY <1>1, <1>2, <1>4, StandsNow DEF Stands
  <2> QED
    BY <1>2, <2>1, <2>2, <2>3 DEF Stands
<1>6. Standing(series', aqua', samples', now)
  BY <1>1, <1>2, <1>4, <1>5, OneStands
<1> QED
  BY <1>1, <1>6, CallStands

LEMMA SeriesChangeStands ==
    ASSUME Sound, OrdersStand, NEW s \in AllSeries, SeriesChange(s)
    PROVE  OrdersStand'
<1>1. ASSUME NEW v \in Variances, Finalize(s, v) PROVE OrdersStand'
  <2> DEFINE ppu == PayoutPerUnit(v, Params[s].cap, Params[s].notional)
             left == FinalLiability(series[s].outstandingUnits, ppu)
  <2>1. /\ UNCHANGED <<now, stack, aqua, samples>>
        /\ series' = [series EXCEPT ![s].finalized = TRUE, ![s].payoutPerUnit = ppu,
                                    ![s].lockedLiability = left]
    BY <1>1 DEF Finalize, Call
  <2> HIDE DEF ppu, left
  <2>2. /\ \A x \in AllSeries \ {s} : series'[x] = series[x]
        /\ series'[s].created = series[s].created /\ series'[s].closed = series[s].closed
    BY <2>1, StandsNow DEF SeriesState
  <2> QED
    BY <2>1, <2>2, FigureStands, CallStands
<1>2. ASSUME NEW h \in Holders, NEW u \in UnitAmounts, BurnWorthless(s, h, u)
      PROVE  OrdersStand'
  <2>1. /\ UNCHANGED <<now, stack, aqua, samples>>
        /\ series' = [series EXCEPT ![s].outstandingUnits = @ - u]
    BY <1>2 DEF BurnWorthless, Call
  <2>2. /\ \A x \in AllSeries \ {s} : series'[x] = series[x]
        /\ series'[s].created = series[s].created /\ series'[s].closed = series[s].closed
    BY <2>1, StandsNow DEF SeriesState
  <2> QED
    BY <2>1, <2>2, FigureStands, CallStands
<1> QED
  BY <1>1, <1>2, CreateSeriesStands, StopIssuanceStands, CloseSeriesStands DEF SeriesChange

LEMMA SwapStands ==
    ASSUME Sound, Framed, OrdersStand, NEW s \in AllSeries, NEW h \in Holders,
           NEW inFirst \in BOOLEAN, SwapCall(s, h, inFirst)
    PROVE  OrdersStand'
<1>1. ASSUME NEW ask \in Nat, NEW exactIn \in BOOLEAN, NEW a \in Nat,
             SwapIssue(s, h, ask, exactIn, a, inFirst)
      PROVE  OrdersStand'
  <2> DEFINE fill == IssueFill(s, ask, exactIn, a)
             f == Frame(s, "ISSUE", h, fill.premium, fill.units, inFirst)
             out == series[s].outstandingUnits + fill.units
  <2>1. /\ EnterSwap(f) /\ UNCHANGED <<now, aqua, samples>>
        /\ series' = [series EXCEPT ![s].outstandingUnits = out,
                                    ![s].lockedLiability = Liability(s, out)]
    BY <1>1 DEF SwapIssue, OnIssue
  <2>2. fill.premium \in Nat /\ fill.units \in Nat
    <3>1. fill.units > 0
      BY <1>1 DEF SwapIssue
    <3> QED
      BY <3>1, IssueFillNat
  <2> HIDE DEF fill, out
  <2>3. PICK S : stack \in Seq(Frames(S)) /\ f \in Frames(S)
    BY <2>1, <2>2, EnterFramed DEF Kinds
  <2>4. f.saved = Snapshot /\ stack' = Append(stack, f)
    BY <2>1 DEF Frame, EnterSwap
  <2>5. /\ \A x \in AllSeries \ {s} : series'[x] = series[x]
        /\ series'[s].created = series[s].created /\ series'[s].closed = series[s].closed
    BY <2>1, StandsNow DEF SeriesState
  <2>6. Standing(series', aqua', samples', now)
    BY <2>1, <2>5, FigureStands
  <2> HIDE DEF f
  <2> QED
    BY <2>1, <2>3, <2>4, <2>6, EnterStands
<1>2. ASSUME NEW kind \in {"EXIT", "SETTLE"}, NEW in \in Nat, NEW paid \in Nat,
             SwapPayout(s, kind, h, in, paid, inFirst)
      PROVE  OrdersStand'
  <2> DEFINE f == Frame(s, kind, h, in, paid, inFirst)
  <2>1. EnterSwap(f) /\ UNCHANGED <<now, series, aqua, samples>>
    BY <1>2 DEF SwapPayout, chain, ledger
  <2>2. PICK S : stack \in Seq(Frames(S)) /\ f \in Frames(S)
    BY <2>1, EnterFramed DEF Kinds
  <2>3. f.saved = Snapshot /\ stack' = Append(stack, f)
    BY <2>1 DEF Frame, EnterSwap
  <2>4. Standing(series', aqua', samples', now)
    BY <2>1 DEF OrdersStand
  <2> HIDE DEF f
  <2> QED
    BY <2>1, <2>2, <2>3, <2>4, EnterStands
<1> QED
  BY <1>1, <1>2, SwapCalls

LEMMA TransferInStands ==
    ASSUME Sound, Framed, ClaimsKept, OrdersStand, TransferIn
    PROVE  OrdersStand'
<1>1. stack # << >> /\ TransferDone /\ UNCHANGED <<now, aqua, samples>>
  BY DEF TransferIn, TransferInNext
<1> DEFINE s == Top.group
<1>2. s \in AllSeries
  BY <1>1, TransferFramed
<1>3. /\ \A x \in AllSeries \ {s} : series'[x] = series[x]
      /\ series'[s].created = series[s].created /\ series'[s].closed = series[s].closed
  <2>1. CASE UNCHANGED series
    BY <2>1
  <2>2. CASE OnBurn(s, Top.kind, Top.amountIn, Top.amountOut)
    <3> HIDE DEF s
    <3>1. PICK out, left :
            series' = [series EXCEPT ![s].outstandingUnits = out, ![s].lockedLiability = left]
      BY <2>2 DEF OnBurn
    <3> QED
      BY <1>2, <3>1, StandsNow DEF SeriesState
  <2> QED
    BY <2>1, <2>2 DEF TransferIn
<1> HIDE DEF s
<1>4. Standing(series', aqua', samples', now)
  BY <1>1, <1>2, <1>3, FigureStands
<1> QED
  BY <1>1, <1>4, TransferStands

\* A strategy that is paid from is shipped, and stays shipped.
LEMMA TransferOutStands ==
    ASSUME Sound, Framed, ClaimsKept, OrdersStand, TransferOut
    PROVE  OrdersStand'
<1> DEFINE s == Top.group
           kind == Top.kind
           paid == Top.amountOut
<1>1. /\ stack # << >> /\ TransferDone /\ UNCHANGED <<now, series, samples>>
      /\ paid <= aqua[s][kind]
      /\ aqua' = [aqua EXCEPT ![s][kind] = @ - paid]
  BY DEF TransferOut, TransferOutNext
<1>2. s \in AllSeries /\ kind \in Kinds /\ paid \in Nat
  BY <1>1, TransferFramed DEF FrameShape
<1> HIDE DEF s, kind, paid
<1>3. /\ aqua'[s][kind] = aqua[s][kind] - paid
      /\ \A k \in Kinds \ {kind} : aqua'[s][k] = aqua[s][k]
      /\ \A x \in AllSeries \ {s} : aqua'[x] = aqua[x]
  BY <1>1, <1>2, StandsNow
<1>4. aqua[s][kind] \in Int /\ samples' \in [AllSeries -> Nat]
      /\ Stands(s, series[s], aqua[s], samples[s], now)
  BY <1>1, <1>2, StandsNow
<1>5. aqua'[s][kind] # Docked /\ aqua[s][kind] # Docked /\ aqua'[s][kind] >= Docked
  BY <1>1, <1>2, <1>3, <1>4 DEF Docked
<1>6. \A k \in Kinds : aqua'[s][k] >= Docked /\ (aqua'[s][k] = Docked <=> aqua[s][k] = Docked)
  BY <1>3, <1>4, <1>5 DEF Stands
<1>7. Stands(s, series'[s], aqua'[s], samples'[s], now)
  BY <1>1, <1>4, <1>6 DEF Stands, Kinds
<1>8. Standing(series', aqua', samples', now)
  BY <1>1, <1>2, <1>3, <1>4, <1>7, OneStands
<1> QED
  BY <1>1, <1>8, TransferStands

LEMMA OrdersStandAlways == Spec => []OrdersStand
<1>1. Init => OrdersStand
  <2> SUFFICES ASSUME Init PROVE OrdersStand
    OBVIOUS
  <2>1. /\ now = 0 /\ stack = << >> /\ samples = [s \in AllSeries |-> 0]
        /\ series = [s \in AllSeries |-> NoSeries]
        /\ aqua = [s \in AllSeries |-> [k \in Kinds |-> Docked]]
    BY DEF Init
  <2>2. ASSUME NEW s \in AllSeries PROVE Stands(s, series[s], aqua[s], samples[s], now)
    <3>1. /\ series[s] = NoSeries /\ \A k \in Kinds : aqua[s][k] = Docked
          /\ samples[s] = 0 /\ SamplesAt(s, now) \in Nat
      BY <2>1, SamplesAtTypes
    <3> QED
      BY <3>1 DEF Stands, NoSeries, Kinds, Docked
  <2> QED
    BY <2>1, <2>2 DEF OrdersStand, Standing
<1>2. Sound /\ Framed /\ ClaimsKept /\ OrdersStand /\ [Next]_vars => OrdersStand'
  <2> SUFFICES ASSUME Sound, Framed, ClaimsKept, OrdersStand, [Next]_vars
               PROVE  OrdersStand'
    OBVIOUS
  <2>1. CASE Elsewhere
    BY <2>1, ElsewhereStands
  <2>2. CASE \E s \in AllSeries : SeriesChange(s)
    BY <2>2, SeriesChangeStands
  <2>3. CASE \E s \in AllSeries, h \in Holders, inFirst \in BOOLEAN : SwapCall(s, h, inFirst)
    BY <2>3, SwapStands
  <2>4. CASE TransferIn
    BY <2>4, TransferInStands
  <2>5. CASE TransferOut
    BY <2>5, TransferOutStands
  <2>6. CASE Revert
    BY <2>6, RevertStands
  <2> QED
    BY <2>1, <2>2, <2>3, <2>4, <2>5, <2>6, NextCases
<1> QED
  BY <1>1, <1>2, SoundAlways, ClaimsAlways, PTL DEF Spec

-----------------------------------------------------------------------------
(***************************************************************************)
(* The pages.  What a page shows of a series between two transactions,     *)
(* against what the controller takes.                                      *)
(***************************************************************************)

(* Reasons and tabs *)

\* A ticket without a reason against it is not blocked, and one that is not
\* blocked has no reason against it.
LEMMA NoReason ==
    ASSUME NEW n \in Nat, NEW reasons, DOMAIN reasons = 1 .. n,
           \A i \in 1 .. n : reasons[i][1] \in BOOLEAN /\ reasons[i][2] # Unknown
    PROVE  FirstReason(reasons) = Unknown <=> \A i \in 1 .. n : reasons[i][1] = FALSE
<1> DEFINE hits == {i \in DOMAIN reasons : reasons[i][1]}
           first == CHOOSE i \in hits : \A j \in hits : i <= j
<1>1. FirstReason(reasons) = IF hits = {} THEN Unknown ELSE reasons[first][2]
  BY DEF FirstReason
<1>2. hits \subseteq 1 .. n
  OBVIOUS
<1>3. hits # {} => first \in hits
  <2> SUFFICES ASSUME hits # {} PROVE \E i \in hits : \A j \in hits : i <= j
    OBVIOUS
  <2> HIDE DEF hits
  <2>1. hits \subseteq Nat
    BY <1>2
  <2> QED
    BY <2>1, LeastNumber
<1>4. hits = {} <=> \A i \in 1 .. n : reasons[i][1] = FALSE
  OBVIOUS
<1> HIDE DEF hits, first
<1>5. hits # {} => reasons[first][2] # Unknown
  BY <1>2, <1>3
<1> QED
  BY <1>1, <1>4, <1>5

LEMMA TwoReasons ==
    ASSUME NEW a \in BOOLEAN, NEW b \in BOOLEAN, NEW p, NEW q, p # Unknown, q # Unknown
    PROVE  FirstReason(<< <<a, p>>, <<b, q>> >>) = Unknown <=> ~a /\ ~b
<1> DEFINE list == << <<a, p>>, <<b, q>> >>
<1>1. /\ DOMAIN list = 1 .. 2 /\ list[1][1] = a /\ list[2][1] = b
      /\ list[1][2] = p /\ list[2][2] = q
  OBVIOUS
<1> HIDE DEF list
<1>2. \A i \in 1 .. 2 : list[i][1] \in BOOLEAN /\ list[i][2] # Unknown
  BY <1>1
<1>3. FirstReason(list) = Unknown <=> \A i \in 1 .. 2 : list[i][1] = FALSE
  BY <1>1, <1>2, NoReason
<1>4. (\A i \in 1 .. 2 : list[i][1] = FALSE) <=> ~a /\ ~b
  BY <1>1
<1> QED
  BY <1>3, <1>4 DEF list

\* An entry of such a list.
Reasoned(entry) == entry[1] \in BOOLEAN /\ entry[2] # Unknown

LEMMA AReason ==
    ASSUME NEW a \in BOOLEAN, NEW p, p # Unknown
    PROVE  Reasoned(<<a, p>>) /\ <<a, p>>[1] = a
  BY DEF Reasoned

LEMMA NineReasons ==
    ASSUME NEW list, DOMAIN list = 1 .. 9,
           Reasoned(list[1]), Reasoned(list[2]), Reasoned(list[3]),
           Reasoned(list[4]), Reasoned(list[5]), Reasoned(list[6]),
           Reasoned(list[7]), Reasoned(list[8]), Reasoned(list[9])
    PROVE  FirstReason(list) = Unknown
             <=> /\ ~list[1][1] /\ ~list[2][1] /\ ~list[3][1]
                 /\ ~list[4][1] /\ ~list[5][1] /\ ~list[6][1]
                 /\ ~list[7][1] /\ ~list[8][1] /\ ~list[9][1]
<1>2. \A i \in 1 .. 9 : i = 1 \/ i = 2 \/ i = 3 \/ i = 4 \/ i = 5 \/ i = 6 \/ i = 7
                        \/ i = 8 \/ i = 9
  OBVIOUS
<1>3. 1 \in 1 .. 9 /\ 2 \in 1 .. 9 /\ 3 \in 1 .. 9 /\ 4 \in 1 .. 9 /\ 5 \in 1 .. 9
      /\ 6 \in 1 .. 9 /\ 7 \in 1 .. 9 /\ 8 \in 1 .. 9 /\ 9 \in 1 .. 9
  OBVIOUS
<1>4. \A i \in 1 .. 9 : list[i][1] \in BOOLEAN /\ list[i][2] # Unknown
  BY <1>2 DEF Reasoned
<1>5. FirstReason(list) = Unknown <=> \A i \in 1 .. 9 : list[i][1] = FALSE
  BY <1>4, NoReason
<1> QED
  BY <1>2, <1>3, <1>4, <1>5

LEMMA TabSeq ==
    ASSUME NEW offered \in BOOLEAN, NEW S, NEW kind \in S
    PROVE  TabIf(offered, kind) \in Seq(S)
<1>1. <<kind>> \in Seq(S) /\ << >> \in Seq(S)
  OBVIOUS
<1> QED
  BY <1>1 DEF TabIf

\* Every tab that is offered is there, whatever the others are.
LEMMA TabsOffered ==
    ASSUME NEW s, s.issuanceOpen \in BOOLEAN, s.exitOpen \in BOOLEAN
    PROVE  LET sides == sidesFor(s) IN
           /\ (s.status \in {"Upcoming", "Live"} /\ s.exitOpen) =>
                 \E i \in DOMAIN sides : sides[i] = "exit"
           /\ (canRedeem(s) \/ needsWorthlessBurn(s)) =>
                 \E i \in DOMAIN sides : sides[i] = "redeem"
           /\ hasOracleTab(s) => \E i \in DOMAIN sides : sides[i] = "oracle"
<1> DEFINE early == s.status \in {"Upcoming", "Live"}
           ca == early /\ (s.issuanceOpen \/ canBuy(s))
           cb == early /\ (s.exitOpen \/ canExit(s))
           cc == canRedeem(s) \/ needsWorthlessBurn(s)
           cd == hasOracleTab(s)
           one == TabIf(ca, "buy")
           two == one \o TabIf(cb, "exit")
           three == two \o TabIf(cc, "redeem")
           all == three \o TabIf(cd, "oracle")
           K == {"buy", "exit", "redeem", "oracle"}
<1>1. ca \in BOOLEAN /\ cb \in BOOLEAN /\ cc \in BOOLEAN /\ cd \in BOOLEAN
  BY DEF canBuy, canExit, hasOracleTab
<1>2. /\ TabIf(ca, "buy") \in Seq(K) /\ TabIf(cb, "exit") \in Seq(K)
      /\ TabIf(cc, "redeem") \in Seq(K) /\ TabIf(cd, "oracle") \in Seq(K)
  BY <1>1, TabSeq
<1>3. sidesFor(s) = IF all # << >> THEN all ELSE IF s.status = "Live" THEN <<"buy">> ELSE <<"redeem">>
  BY DEF sidesFor
<1>4. early /\ s.exitOpen => cb
  OBVIOUS
<1> HIDE DEF ca, cb, cc, cd
<1> HIDE DEF one
<1>5. one \in Seq(K)
  BY <1>2 DEF one
<1>6. two \in Seq(K)
  BY <1>2, <1>5
<1>7. ASSUME cb PROVE \E i \in DOMAIN all : all[i] = "exit"
  <2>1. TabIf(cb, "exit") = <<"exit">>
    BY <1>7 DEF TabIf
  <2>2. Len(one) + 1 \in DOMAIN two /\ two[Len(one) + 1] = "exit"
    BY <1>5, <2>1
  <2> HIDE DEF two
  <2>3. three \in Seq(K)
    BY <1>2, <1>6
  <2>4. Len(one) + 1 \in DOMAIN three /\ three[Len(one) + 1] = "exit"
    BY <1>2, <1>5, <1>6, <2>2
  <2> HIDE DEF three
  <2>5. Len(one) + 1 \in DOMAIN all /\ all[Len(one) + 1] = "exit"
    BY <1>2, <1>5, <2>3, <2>4
  <2> QED
    BY <2>5
<1> HIDE DEF two
<1>8. three \in Seq(K)
  BY <1>2, <1>6
<1>9. ASSUME cc PROVE \E i \in DOMAIN all : all[i] = "redeem"
  <2>1. TabIf(cc, "redeem") = <<"redeem">>
    BY <1>9 DEF TabIf
  <2>2. Len(two) + 1 \in DOMAIN three /\ three[Len(two) + 1] = "redeem"
    BY <1>6, <2>1
  <2> HIDE DEF three
  <2>3. Len(two) + 1 \in DOMAIN all /\ all[Len(two) + 1] = "redeem"
    BY <1>2, <1>6, <1>8, <2>2
  <2> QED
    BY <2>3
<1>10. ASSUME cd PROVE \E i \in DOMAIN all : all[i] = "oracle"
  <2>1. TabIf(cd, "oracle") = <<"oracle">>
    BY <1>10 DEF TabIf
  <2> HIDE DEF three
  <2>2. Len(three) + 1 \in DOMAIN all /\ all[Len(three) + 1] = "oracle"
    BY <1>8, <2>1
  <2> QED
    BY <2>2
<1>11. (\E i \in DOMAIN all : TRUE) => all # << >>
  OBVIOUS
<1> HIDE DEF all
<1>12. /\ cb => \E i \in DOMAIN sidesFor(s) : sidesFor(s)[i] = "exit"
       /\ cc => \E i \in DOMAIN sidesFor(s) : sidesFor(s)[i] = "redeem"
       /\ cd => \E i \in DOMAIN sidesFor(s) : sidesFor(s)[i] = "oracle"
  BY <1>3, <1>7, <1>9, <1>10, <1>11
<1> QED
  BY <1>4, <1>12 DEF cc, cd

(* What a page shows *)

\* The state of a series between two transactions, with all that was proved
\* of it.
Rested ==
    /\ stack = << >>
    /\ Sound /\ ClaimsKept /\ OrdersStand

LEMMA RestedTypes ==
    ASSUME Rested, NEW s \in AllSeries
    PROVE  /\ series[s].created \in BOOLEAN /\ series[s].finalized \in BOOLEAN
           /\ series[s].closed \in BOOLEAN /\ series[s].issuanceStopped \in BOOLEAN
           /\ series[s].outstandingUnits \in Nat /\ series[s].lockedLiability \in Nat
           /\ series[s].payoutPerUnit \in Nat
           /\ \A k \in Kinds : aqua[s][k] \in Int
           /\ balance \in Int /\ lockedQuote \in Int /\ samples[s] \in Nat /\ now \in Nat
           /\ Params[s].start \in Nat /\ Params[s].expiry \in Nat /\ Params[s].saleEnd \in Nat
           /\ Params[s].start < Params[s].expiry
           /\ AvailableSamples(s) \in Nat /\ TotalSamples(s) \in Nat
           /\ samples[s] <= AvailableSamples(s) /\ AvailableSamples(s) <= TotalSamples(s)
           /\ now >= Params[s].expiry => AvailableSamples(s) = TotalSamples(s)
<1>1. Sound /\ OrdersStand
  BY DEF Rested
<1>2. /\ series[s] \in SeriesState /\ Stands(s, series[s], aqua[s], samples[s], now)
      /\ samples[s] \in Nat /\ now \in Nat
  BY <1>1, StandsNow
<1>3. /\ Params[s].start \in Nat /\ Params[s].expiry \in Nat /\ Params[s].saleEnd \in Nat
      /\ Params[s].start < Params[s].expiry
  BY ParamsAssumption DEF ValidParams
<1>4. AvailableSamples(s) = SamplesAt(s, now)
  BY DEF AvailableSamples, SamplesAt
<1>5. /\ AvailableSamples(s) \in Nat /\ TotalSamples(s) \in Nat
      /\ AvailableSamples(s) <= TotalSamples(s)
  BY <1>2, <1>4, SamplesAtTypes
<1>6. now >= Params[s].expiry => AvailableSamples(s) = TotalSamples(s)
  BY <1>2, <1>3 DEF AvailableSamples, TotalSamples, Least
<1>7. samples[s] <= AvailableSamples(s)
  BY <1>2, <1>4 DEF Stands
<1>8. /\ series[s].created \in BOOLEAN /\ series[s].finalized \in BOOLEAN
      /\ series[s].closed \in BOOLEAN /\ series[s].issuanceStopped \in BOOLEAN
      /\ series[s].outstandingUnits \in Nat /\ series[s].lockedLiability \in Nat
      /\ series[s].payoutPerUnit \in Nat
  BY <1>2 DEF SeriesState
<1>9. /\ \A k \in Kinds : aqua[s][k] \in Int
      /\ balance \in Int /\ lockedQuote \in Int
  BY <1>1, SeriesFields
<1> QED
  BY <1>2, <1>3, <1>5, <1>6, <1>7, <1>8, <1>9

\* The orders of a series that exists, and what its holders have.
LEMMA RestedClaims ==
    ASSUME Rested, NEW s \in Existing, NEW h \in Holders
    PROVE  /\ s \in AllSeries
           /\ receipts[s][h] \in Nat /\ receipts[s][h] <= series[s].outstandingUnits
           /\ series[s].closed => series[s].outstandingUnits = 0
           /\ ~series[s].closed => aqua[s]["EXIT"] # Docked /\ aqua[s]["SETTLE"] # Docked
           /\ \A k \in Kinds : aqua[s][k] # Docked => aqua[s][k] >= 0
<1>1. s \in AllSeries /\ series[s].created
  BY DEF Existing
<1>2. /\ receipts \in Balances /\ ClaimsNow(s) /\ Now(s, "ISSUE", "VAR") = 0
  <2>1. Len(stack) = 0
    BY DEF Rested
  <2> QED
    BY <1>1, <2>1, ClaimsEach DEF Now, Pending, Rested
<1>3. /\ receipts[s][h] \in Nat /\ receipts[s][h] <= Held(receipts[s])
      /\ Held(receipts[s]) \in Nat
  BY <1>1, <1>2, BalanceTypes DEF Accounts
<1>4. Held(receipts[s]) + 0 <= series[s].outstandingUnits
  BY <1>2 DEF ClaimsNow, SeriesClaims
<1>5. receipts[s][h] <= series[s].outstandingUnits
  BY <1>1, <1>3, <1>4, RestedTypes
<1>6. Stands(s, series[s], aqua[s], samples[s], now) /\ \A k \in Kinds : aqua[s][k] \in Int
  BY <1>1, StandsNow DEF Rested
<1>7. /\ ~series[s].closed => aqua[s]["EXIT"] # Docked /\ aqua[s]["SETTLE"] # Docked
      /\ series[s].closed => aqua[s]["SETTLE"] = Docked
  BY <1>1, <1>6 DEF Stands
<1>8. series[s].closed => series[s].outstandingUnits = 0
  BY <1>2, <1>7 DEF ClaimsNow, SeriesClaims
<1>9. \A k \in Kinds : aqua[s][k] # Docked => aqua[s][k] >= 0
  BY <1>6 DEF Stands, Docked
<1> QED
  BY <1>1, <1>3, <1>5, <1>7, <1>8, <1>9

\* The vault between two transactions.
LEMMA RestedVault ==
    ASSUME Rested, SolventInFlight, NEW s \in AllSeries
    PROVE  balance >= lockedQuote /\ series[s].lockedLiability <= lockedQuote
<1>1. advance = 0 /\ balance + advance >= lockedQuote
  BY SolventInFlightParts DEF Chained, Rested
<1>2. series[s].lockedLiability <= lockedQuote
  BY ReservedWithinLock DEF Rested
<1> QED
  BY <1>1, <1>2, RestedTypes

LEMMA StatusShown ==
    ASSUME NEW s \in AllSeries
    PROVE  Shown(s).status = IF series[s].closed THEN "Closed"
                             ELSE IF series[s].finalized THEN "Finalized"
                             ELSE IF now >= Params[s].expiry THEN "ExpiredUnfinalized"
                             ELSE IF now < Params[s].start THEN "Upcoming" ELSE "Live"
<1>1. Lens(s).status = LensStatus(s)
  BY DEF Lens
<1>2. Shown(s).status = statusFrom(LensStatus(s))
  BY <1>1 DEF Shown, fromLensState, Lens
<1>3. /\ statusFrom(0) = "Upcoming" /\ statusFrom(1) = "Live"
      /\ statusFrom(2) = "ExpiredUnfinalized" /\ statusFrom(3) = "Finalized"
      /\ statusFrom(4) = "Closed"
  BY DEF statusFrom, Phases
<1> QED
  BY <1>2, <1>3 DEF LensStatus

LEMMA ShownFields ==
    ASSUME Rested, NEW s \in AllSeries
    PROVE  /\ Shown(s).samplesStored = samples[s]
           /\ Shown(s).samplesAvailable = AvailableSamples(s)
           /\ Shown(s).samplesTotal = TotalSamples(s)
           /\ Shown(s).payoutPerUnit = series[s].payoutPerUnit
           /\ Shown(s).unitsOutstanding = series[s].outstandingUnits
           /\ Shown(s).checkpointsCurrent \in BOOLEAN
           /\ Shown(s).issuanceOpen \in BOOLEAN /\ Shown(s).exitOpen \in BOOLEAN
           /\ Shown(s).settleOpen \in BOOLEAN /\ Shown(s).fullyCollateralized \in BOOLEAN
           /\ Shown(s).checkpointsCurrent <=> samples[s] >= AvailableSamples(s)
           /\ Shown(s).issuanceOpen <=>
                /\ ~series[s].closed /\ ~series[s].issuanceStopped /\ ~series[s].finalized
                /\ now <= Params[s].saleEnd /\ aqua[s]["ISSUE"] > 0
           /\ Shown(s).exitOpen <=>
                /\ ~series[s].closed /\ ~series[s].finalized /\ now < Params[s].expiry
                /\ series[s].outstandingUnits > 0 /\ aqua[s]["EXIT"] # Docked
           /\ Shown(s).settleOpen <=>
                /\ ~series[s].closed /\ series[s].finalized
                /\ series[s].outstandingUnits > 0 /\ aqua[s]["SETTLE"] # Docked
<1>1. ASSUME NEW f \in {"samplesStored", "samplesAvailable", "samplesTotal", "payoutPerUnit",
                        "unitsOutstanding", "checkpointsCurrent", "issuanceOpen", "exitOpen",
                        "settleOpen", "fullyCollateralized"}
      PROVE  Shown(s)[f] = Lens(s)[f]
  BY <1>1 DEF Shown, fromLensState, Lens
<1>2. /\ Lens(s).samplesStored = samples[s]
      /\ Lens(s).samplesAvailable = AvailableSamples(s)
      /\ Lens(s).samplesTotal = TotalSamples(s)
      /\ Lens(s).payoutPerUnit = series[s].payoutPerUnit
      /\ Lens(s).unitsOutstanding = series[s].outstandingUnits
  BY DEF Lens, OracleProgress
<1>3. Lens(s).checkpointsCurrent = (samples[s] >= AvailableSamples(s))
  BY DEF Lens, OracleProgress
<1>4. Lens(s).issuanceOpen =
        (~series[s].closed /\ ~series[s].issuanceStopped /\ ~series[s].finalized
         /\ now <= Params[s].saleEnd
         /\ (IF LegActive(s, "ISSUE") THEN aqua[s]["ISSUE"] ELSE 0) > 0
         /\ LegActive(s, "ISSUE"))
  BY DEF Lens
<1>5. Lens(s).exitOpen =
        (~series[s].closed /\ ~series[s].finalized /\ now < Params[s].expiry
         /\ series[s].outstandingUnits > 0 /\ LegActive(s, "EXIT"))
  BY DEF Lens
<1>6. Lens(s).settleOpen =
        (~series[s].closed /\ series[s].finalized /\ series[s].outstandingUnits > 0
         /\ LegActive(s, "SETTLE"))
  BY DEF Lens
<1>7. Lens(s).fullyCollateralized =
        (VaultState.balance >= VaultState.locked /\ VaultState.allowanceSufficient
         /\ (series[s].outstandingUnits = 0 \/ LegActive(s, "EXIT") \/ LegActive(s, "SETTLE")))
  BY DEF Lens
<1>8. aqua[s]["ISSUE"] \in Int
  BY RestedTypes DEF Kinds
<1>9. Lens(s).issuanceOpen <=>
        /\ ~series[s].closed /\ ~series[s].issuanceStopped /\ ~series[s].finalized
        /\ now <= Params[s].saleEnd /\ aqua[s]["ISSUE"] > 0
  <2>1. /\ (IF LegActive(s, "ISSUE") THEN aqua[s]["ISSUE"] ELSE 0) > 0
        /\ LegActive(s, "ISSUE")
        <=> aqua[s]["ISSUE"] > 0
    BY <1>8 DEF LegActive, Docked
  <2> QED
    BY <1>4, <2>1
<1>10. /\ Lens(s).checkpointsCurrent \in BOOLEAN
       /\ Lens(s).issuanceOpen \in BOOLEAN /\ Lens(s).exitOpen \in BOOLEAN
       /\ Lens(s).settleOpen \in BOOLEAN /\ Lens(s).fullyCollateralized \in BOOLEAN
  <2>1. Lens(s).fullyCollateralized \in BOOLEAN
    BY <1>7
  <2>2. Lens(s).checkpointsCurrent \in BOOLEAN
    BY <1>3
  <2>3. Lens(s).issuanceOpen \in BOOLEAN
    BY <1>4
  <2>4. Lens(s).exitOpen \in BOOLEAN /\ Lens(s).settleOpen \in BOOLEAN
    BY <1>5, <1>6
  <2> QED
    BY <2>1, <2>2, <2>3, <2>4
<1>11. /\ Lens(s).exitOpen <=>
            /\ ~series[s].closed /\ ~series[s].finalized /\ now < Params[s].expiry
            /\ series[s].outstandingUnits > 0 /\ aqua[s]["EXIT"] # Docked
       /\ Lens(s).settleOpen <=>
            /\ ~series[s].closed /\ series[s].finalized
            /\ series[s].outstandingUnits > 0 /\ aqua[s]["SETTLE"] # Docked
  BY <1>5, <1>6 DEF LegActive
<1> QED
  BY <1>1, <1>2, <1>3, <1>9, <1>10, <1>11

LEMMA ShownPhase ==
    ASSUME Rested, NEW s \in AllSeries
    PROVE  /\ Shown(s).status \in {"Closed", "Finalized", "ExpiredUnfinalized", "Upcoming", "Live"}
           /\ Shown(s).status = "Closed" <=> series[s].closed
           /\ Shown(s).status = "Finalized" <=> ~series[s].closed /\ series[s].finalized
           /\ Shown(s).status = "ExpiredUnfinalized" <=>
                ~series[s].closed /\ ~series[s].finalized /\ now >= Params[s].expiry
           /\ Shown(s).status = "Upcoming" <=>
                /\ ~series[s].closed /\ ~series[s].finalized /\ now < Params[s].expiry
                /\ now < Params[s].start
           /\ Shown(s).status = "Live" <=>
                /\ ~series[s].closed /\ ~series[s].finalized /\ now < Params[s].expiry
                /\ now >= Params[s].start
<1>1. now \in Nat /\ Params[s].start \in Nat /\ Params[s].expiry \in Nat
  BY RestedTypes
<1>2. /\ now < Params[s].expiry <=> ~(now >= Params[s].expiry)
      /\ now >= Params[s].start <=> ~(now < Params[s].start)
  BY <1>1
<1> QED
  BY <1>2, StatusShown

LEMMA WalletFields ==
    ASSUME NEW s, NEW h
    PROVE  /\ Wallet(s, h).deployed = TRUE /\ Wallet(s, h).connected = TRUE
           /\ Wallet(s, h).usdc = Unknown /\ Wallet(s, h).receipts = receipts[s][h]
  BY DEF Wallet

LEMMA TypedFields ==
    ASSUME NEW units
    PROVE  /\ Typed(units).parsed = units /\ Typed(units).running = FALSE
           /\ Typed(units).quote.premium = 0
  BY DEF Typed

(* The tickets *)

LEMMA Defined ==
    ASSUME NEW n \in Nat
    PROVE  n # Unknown
<1>1. Unknown \notin Nat
  BY ShownAssumption
<1> QED
  BY <1>1

\* Undefined is none of the reasons.
LEMMA Refused ==
    /\ "Contracts not deployed" # Unknown /\ "Connect a wallet" # Unknown
    /\ "Series closed" # Unknown /\ "Sale closed" # Unknown /\ "Sold out" # Unknown
    /\ "Issuance closed" # Unknown /\ "Update the market first" # Unknown
    /\ "Vault does not back this series" # Unknown /\ "Not for sale" # Unknown
    /\ "Insufficient USDC" # Unknown /\ "Window has not started" # Unknown
    /\ "Expired" # Unknown /\ "No exit market" # Unknown /\ "Exit unavailable" # Unknown
    /\ "No receipts held" # Unknown /\ "Exceeds your balance" # Unknown
    /\ "Locked until expiry" # Unknown /\ "Finalize the variance first" # Unknown
    /\ "Redemption unavailable" # Unknown
  BY ShownAssumption

LEMMA BuyOffered ==
    ASSUME Rested, NEW s \in AllSeries, NEW h \in Holders, NEW units \in Nat,
           Buying(s, h, units).submits
    PROVE  Shown(s).issuanceOpen /\ Shown(s).checkpointsCurrent
<1> DEFINE S == Shown(s)
           W == Wallet(s, h)
           sold == IF S.unitsAvailable = 0 THEN "Sold out" ELSE "Issuance closed"
           a == ~W.deployed
           b == ~W.connected /\ ~FALSE
           c == S.status = "Closed"
           d == S.status \in {"Finalized", "ExpiredUnfinalized"}
           e == ~S.issuanceOpen
           f == ~S.checkpointsCurrent
           g == ~S.fullyCollateralized
           i == ~canBuy(S)
           k == Above(0, W.usdc)
           list == << <<a, "Contracts not deployed">>,
                      <<b, "Connect a wallet">>,
                      <<c, "Series closed">>,
                      <<d, "Sale closed">>,
                      <<e, sold>>,
                      <<f, "Update the market first">>,
                      <<g, "Vault does not back this series">>,
                      <<i, "Not for sale">>,
                      <<k, "Insufficient USDC">> >>
<1>1. FirstReason(list) = Unknown
  <2>1. BuyBlocker(S, W, 0, FALSE) = Unknown
    BY TypedFields DEF Buying, BuyTicket
  <2> QED
    BY <2>1 DEF BuyBlocker
<1>2. /\ S.issuanceOpen \in BOOLEAN /\ S.checkpointsCurrent \in BOOLEAN
      /\ S.fullyCollateralized \in BOOLEAN
  BY ShownFields
<1>3. /\ a \in BOOLEAN /\ b \in BOOLEAN /\ c \in BOOLEAN /\ d \in BOOLEAN
      /\ e \in BOOLEAN /\ f \in BOOLEAN /\ g \in BOOLEAN /\ i \in BOOLEAN
      /\ k \in BOOLEAN
  BY <1>2, WalletFields DEF Above, canBuy
<1>4. sold # Unknown
  BY Refused
<1> HIDE DEF a, b, c, d, e, f, g, i, k, sold
<1>5. /\ DOMAIN list = 1 .. 9 /\ list[1][1] = a /\ list[2][1] = b /\ list[3][1] = c
      /\ list[4][1] = d /\ list[5][1] = e /\ list[6][1] = f /\ list[7][1] = g
      /\ list[8][1] = i /\ list[9][1] = k
  OBVIOUS
<1>6. /\ Reasoned(list[1]) /\ Reasoned(list[2]) /\ Reasoned(list[3])
      /\ Reasoned(list[4]) /\ Reasoned(list[5]) /\ Reasoned(list[6])
      /\ Reasoned(list[7]) /\ Reasoned(list[8]) /\ Reasoned(list[9])
  <2>1. Reasoned(list[1]) /\ Reasoned(list[2]) /\ Reasoned(list[3])
    BY <1>3, <1>4, Refused, AReason
  <2>2. Reasoned(list[4]) /\ Reasoned(list[5]) /\ Reasoned(list[6])
    BY <1>3, <1>4, Refused, AReason
  <2>3. Reasoned(list[7]) /\ Reasoned(list[8]) /\ Reasoned(list[9])
    BY <1>3, <1>4, Refused, AReason
  <2> QED
    BY <2>1, <2>2, <2>3
<1> HIDE DEF list
<1>7. ~e /\ ~f
  BY <1>1, <1>5, <1>6, NineReasons
<1> QED
  BY <1>7 DEF e, f

LEMMA ExitOffered ==
    ASSUME Rested, NEW s \in Existing, NEW h \in Holders, NEW units \in Nat \ {0}
    PROVE  Selling(s, h, units).submits
             <=> /\ Shown(s).status # "Upcoming" /\ Shown(s).status # "Closed"
                 /\ Shown(s).exitOpen /\ Shown(s).checkpointsCurrent
                 /\ units <= receipts[s][h]
<1> DEFINE S == Shown(s)
           W == Wallet(s, h)
           over == IF S.status \in {"Finalized", "ExpiredUnfinalized"}
                   THEN "Expired" ELSE "No exit market"
           a == ~W.deployed
           b == S.status = "Upcoming"
           c == S.status = "Closed"
           d == ~S.exitOpen
           e == ~S.checkpointsCurrent
           f == ~canExit(S)
           g == ~W.connected
           i == W.receipts = 0
           k == Above(units, W.receipts)
           list == << <<a, "Contracts not deployed">>,
                      <<b, "Window has not started">>,
                      <<c, "Series closed">>,
                      <<d, over>>,
                      <<e, "Update the market first">>,
                      <<f, "Exit unavailable">>,
                      <<g, "Connect a wallet">>,
                      <<i, "No receipts held">>,
                      <<k, "Exceeds your balance">> >>
<1>1. Selling(s, h, units).submits <=> FirstReason(list) = Unknown
  <2>1. units # Unknown /\ 0 # Unknown /\ units > 0
    BY Defined
  <2>2. Selling(s, h, units).submits <=> ExitBlocker(S, W, units) = Unknown
    <3> DEFINE T == Typed(units)
    <3>1. Selling(s, h, units).submits =
            (Valid(T) /\ ExitBlocker(S, W, T.parsed) = Unknown /\ ~T.running
             /\ T.quote.premium # Unknown)
      BY DEF Selling, ExitTicket
    <3>2. Valid(T)
      BY <2>1, TypedFields DEF Valid, IsPositive
    <3> QED
      BY <2>1, <3>1, <3>2, TypedFields
  <2> QED
    BY <2>2 DEF ExitBlocker
<1>2. /\ S.exitOpen \in BOOLEAN /\ S.checkpointsCurrent \in BOOLEAN
      /\ receipts[s][h] \in Nat
  BY ShownFields, RestedClaims
<1>3. /\ a \in BOOLEAN /\ b \in BOOLEAN /\ c \in BOOLEAN /\ d \in BOOLEAN
      /\ e \in BOOLEAN /\ f \in BOOLEAN /\ g \in BOOLEAN /\ i \in BOOLEAN
      /\ k \in BOOLEAN
  BY <1>2, WalletFields DEF Above, canExit
<1>4. over # Unknown
  BY Refused
<1>5. (~a /\ ~b /\ ~c /\ ~d /\ ~e /\ ~f /\ ~g /\ ~i /\ ~k)
        <=> /\ S.status # "Upcoming" /\ S.status # "Closed"
            /\ S.exitOpen /\ S.checkpointsCurrent /\ units <= receipts[s][h]
  <2>1. ~a /\ ~g
    BY WalletFields
  <2>2. units # Unknown /\ receipts[s][h] # Unknown
    BY <1>2, Defined
  <2>3. (~i /\ ~k) <=> units <= receipts[s][h]
    <3>1. i <=> receipts[s][h] = 0
      BY WalletFields
    <3>2. k <=> units > receipts[s][h]
      BY <2>2, WalletFields DEF Above
    <3> HIDE DEF i, k
    <3> QED
      BY <1>2, <3>1, <3>2
  <2>4. f <=> ~(S.exitOpen /\ S.checkpointsCurrent)
    BY DEF canExit
  <2> QED
    BY <2>1, <2>3, <2>4
<1> HIDE DEF a, b, c, d, e, f, g, i, k, over, S
<1>6. /\ DOMAIN list = 1 .. 9 /\ list[1][1] = a /\ list[2][1] = b /\ list[3][1] = c
      /\ list[4][1] = d /\ list[5][1] = e /\ list[6][1] = f /\ list[7][1] = g
      /\ list[8][1] = i /\ list[9][1] = k
  OBVIOUS
<1>7. /\ Reasoned(list[1]) /\ Reasoned(list[2]) /\ Reasoned(list[3])
      /\ Reasoned(list[4]) /\ Reasoned(list[5]) /\ Reasoned(list[6])
      /\ Reasoned(list[7]) /\ Reasoned(list[8]) /\ Reasoned(list[9])
  <2>1. Reasoned(list[1]) /\ Reasoned(list[2]) /\ Reasoned(list[3])
    BY <1>3, <1>4, Refused, AReason
  <2>2. Reasoned(list[4]) /\ Reasoned(list[5]) /\ Reasoned(list[6])
    BY <1>3, <1>4, Refused, AReason
  <2>3. Reasoned(list[7]) /\ Reasoned(list[8]) /\ Reasoned(list[9])
    BY <1>3, <1>4, Refused, AReason
  <2> QED
    BY <2>1, <2>2, <2>3
<1> HIDE DEF list
<1>8. FirstReason(list) = Unknown
        <=> ~a /\ ~b /\ ~c /\ ~d /\ ~e /\ ~f /\ ~g /\ ~i /\ ~k
  BY <1>6, <1>7, NineReasons
<1> QED
  BY <1>1, <1>8, <1>5 DEF S

\* A redemption needs a final series that still owes something; a worthless
\* one is burned instead.
LEMMA RedeemOffered ==
    ASSUME Rested, NEW s \in Existing, NEW h \in Holders, NEW units \in Nat \ {0}
    PROVE  LET S == Shown(s)
               open == /\ S.status \in {"Finalized", "Closed"}
                       /\ ~(S.status = "Closed" /\ S.unitsOutstanding = 0)
                       /\ units <= receipts[s][h]
                       /\ needsWorthlessBurn(S) \/ canRedeem(S)
           IN  /\ Redeeming(s, h, units).redeems <=> open /\ ~needsWorthlessBurn(S)
               /\ Redeeming(s, h, units).burns <=> open /\ needsWorthlessBurn(S)
<1> DEFINE S == Shown(s)
           W == Wallet(s, h)
           open == /\ S.status \in {"Finalized", "Closed"}
                   /\ ~(S.status = "Closed" /\ S.unitsOutstanding = 0)
                   /\ units <= receipts[s][h]
                   /\ needsWorthlessBurn(S) \/ canRedeem(S)
           a == ~W.deployed
           b == S.status = "Upcoming"
           c == S.status = "Live"
           d == S.status = "ExpiredUnfinalized"
           e == S.status = "Closed" /\ S.unitsOutstanding = 0
           f == ~W.connected
           g == W.receipts = 0
           i == Above(units, W.receipts)
           k == ~needsWorthlessBurn(S) /\ ~canRedeem(S)
           list == << <<a, "Contracts not deployed">>,
                      <<b, "Window has not started">>,
                      <<c, "Locked until expiry">>,
                      <<d, "Finalize the variance first">>,
                      <<e, "Series closed">>,
                      <<f, "Connect a wallet">>,
                      <<g, "No receipts held">>,
                      <<i, "Exceeds your balance">>,
                      <<k, "Redemption unavailable">> >>
<1>1. /\ Redeeming(s, h, units).redeems
             <=> FirstReason(list) = Unknown /\ ~needsWorthlessBurn(S)
      /\ Redeeming(s, h, units).burns
             <=> FirstReason(list) = Unknown /\ needsWorthlessBurn(S)
  <2>1. units # Unknown /\ units > 0
    BY Defined
  <2>2. /\ Redeeming(s, h, units).redeems
             <=> RedeemBlocker(S, W, units) = Unknown /\ ~needsWorthlessBurn(S)
        /\ Redeeming(s, h, units).burns
             <=> RedeemBlocker(S, W, units) = Unknown /\ needsWorthlessBurn(S)
    <3> DEFINE T == Typed(units)
               live == Valid(T) /\ RedeemBlocker(S, W, T.parsed) = Unknown /\ ~T.running
    <3>1. /\ Redeeming(s, h, units).redeems = (live /\ ~needsWorthlessBurn(S))
          /\ Redeeming(s, h, units).burns = (live /\ needsWorthlessBurn(S))
      BY DEF Redeeming, RedeemTicket
    <3>2. Valid(T)
      BY <2>1, TypedFields DEF Valid, IsPositive
    <3>3. live <=> RedeemBlocker(S, W, units) = Unknown
      BY <3>2, TypedFields
    <3> HIDE DEF live
    <3> QED
      BY <3>1, <3>3
  <2> QED
    BY <2>2 DEF RedeemBlocker
<1>2. receipts[s][h] \in Nat /\ s \in AllSeries
  BY RestedClaims
<1>3. /\ a \in BOOLEAN /\ b \in BOOLEAN /\ c \in BOOLEAN /\ d \in BOOLEAN
      /\ e \in BOOLEAN /\ f \in BOOLEAN /\ g \in BOOLEAN /\ i \in BOOLEAN
      /\ k \in BOOLEAN
  BY <1>2, WalletFields DEF Above, needsWorthlessBurn, canRedeem
<1>5. (~a /\ ~b /\ ~c /\ ~d /\ ~e /\ ~f /\ ~g /\ ~i /\ ~k) <=> open
  <2>1. ~a /\ ~f
    BY WalletFields
  <2>2. units # Unknown /\ receipts[s][h] # Unknown
    BY <1>2, Defined
  <2>3. (~g /\ ~i) <=> units <= receipts[s][h]
    <3>1. g <=> receipts[s][h] = 0
      BY WalletFields
    <3>2. i <=> units > receipts[s][h]
      BY <2>2, WalletFields DEF Above
    <3> HIDE DEF g, i
    <3> QED
      BY <1>2, <3>1, <3>2
  <2>4. (~b /\ ~c /\ ~d) <=> S.status \in {"Finalized", "Closed"}
    BY <1>2, ShownPhase
  <2> QED
    BY <2>1, <2>3, <2>4
<1> HIDE DEF a, b, c, d, e, f, g, i, k, S, open
<1>6. /\ DOMAIN list = 1 .. 9 /\ list[1][1] = a /\ list[2][1] = b /\ list[3][1] = c
      /\ list[4][1] = d /\ list[5][1] = e /\ list[6][1] = f /\ list[7][1] = g
      /\ list[8][1] = i /\ list[9][1] = k
  OBVIOUS
<1>7. /\ Reasoned(list[1]) /\ Reasoned(list[2]) /\ Reasoned(list[3])
      /\ Reasoned(list[4]) /\ Reasoned(list[5]) /\ Reasoned(list[6])
      /\ Reasoned(list[7]) /\ Reasoned(list[8]) /\ Reasoned(list[9])
  <2>1. Reasoned(list[1]) /\ Reasoned(list[2]) /\ Reasoned(list[3])
    BY <1>3, Refused, AReason
  <2>2. Reasoned(list[4]) /\ Reasoned(list[5]) /\ Reasoned(list[6])
    BY <1>3, Refused, AReason
  <2>3. Reasoned(list[7]) /\ Reasoned(list[8]) /\ Reasoned(list[9])
    BY <1>3, Refused, AReason
  <2> QED
    BY <2>1, <2>2, <2>3
<1> HIDE DEF list
<1>8. FirstReason(list) = Unknown
        <=> ~a /\ ~b /\ ~c /\ ~d /\ ~e /\ ~f /\ ~g /\ ~i /\ ~k
  BY <1>6, <1>7, NineReasons
<1> QED
  BY <1>1, <1>8, <1>5 DEF S, open

LEMMA OracleOffered ==
    ASSUME Rested, NEW s \in AllSeries, NEW h \in Holders
    PROVE  /\ Oracle(s, h).checkpoints <=> samples[s] < AvailableSamples(s)
           /\ Oracle(s, h).finalizes <=>
                /\ Shown(s).status = "ExpiredUnfinalized"
                /\ samples[s] >= TotalSamples(s)
           /\ needsCheckpoint(Shown(s)) <=> samples[s] < AvailableSamples(s)
<1> DEFINE S == Shown(s)
           W == Wallet(s, h)
           blocker == FirstReason(<< <<~W.deployed, "Contracts not deployed">>,
                                     <<~W.connected, "Connect a wallet">> >>)
<1>1. blocker = Unknown
  <2> DEFINE a == ~W.deployed
             b == ~W.connected
             p == "Contracts not deployed"
             q == "Connect a wallet"
  <2>1. a \in BOOLEAN /\ b \in BOOLEAN /\ ~a /\ ~b
    BY WalletFields
  <2>2. p # Unknown /\ q # Unknown
    BY Refused
  <2> HIDE DEF a, b, p, q
  <2>3. FirstReason(<< <<a, p>>, <<b, q>> >>) = Unknown
    BY <2>1, <2>2, TwoReasons
  <2> QED
    BY <2>3 DEF a, b, p, q
<1>2. /\ Oracle(s, h).checkpoints = (blocker = Unknown /\ checkpointsBehind(S) > 0 /\ ~FALSE)
      /\ Oracle(s, h).finalizes = (blocker = Unknown /\ needsFinalize(S) /\ ~FALSE)
  BY DEF Oracle, OracleTicket
<1>3. /\ S.samplesStored = samples[s] /\ S.samplesAvailable = AvailableSamples(s)
      /\ S.samplesTotal = TotalSamples(s)
      /\ samples[s] \in Nat /\ AvailableSamples(s) \in Nat /\ TotalSamples(s) \in Nat
  BY ShownFields, RestedTypes
<1>4. checkpointsBehind(S) > 0 <=> samples[s] < AvailableSamples(s)
  BY <1>3 DEF checkpointsBehind
<1>5. needsFinalize(S) <=> S.status = "ExpiredUnfinalized" /\ samples[s] >= TotalSamples(s)
  BY <1>3 DEF needsFinalize
<1> HIDE DEF blocker
<1> QED
  BY <1>1, <1>2, <1>4, <1>5 DEF needsCheckpoint

\* What a series that is offered for redemption still owes.
LEMMA RedeemableShown ==
    ASSUME Rested, NEW s \in AllSeries
    PROVE  /\ canRedeem(Shown(s)) <=>
                /\ ~series[s].closed /\ series[s].finalized
                /\ series[s].outstandingUnits > 0 /\ aqua[s]["SETTLE"] # Docked
                /\ series[s].payoutPerUnit > 0
           /\ needsWorthlessBurn(Shown(s)) <=>
                /\ Shown(s).status \in {"Finalized", "Closed"}
                /\ series[s].payoutPerUnit = 0 /\ series[s].outstandingUnits > 0
  BY ShownFields DEF canRedeem, needsWorthlessBurn, isFinalized

\* Nothing stands in the way of a close that is offered after the sale.
LEMMA CloseOffered ==
    ASSUME Rested, SolventInFlight, NEW s \in Existing, canClose(Shown(s))
    PROVE  Closable(s)
<1>1. s \in AllSeries /\ series[s].created
  BY DEF Existing
<1>2. ~series[s].closed /\ series[s].outstandingUnits = 0
  BY <1>1, ShownFields, ShownPhase DEF canClose
<1>3. Stands(s, series[s], aqua[s], samples[s], now)
  BY <1>1, StandsNow DEF Rested
<1>4. aqua[s]["EXIT"] # Docked /\ aqua[s]["SETTLE"] # Docked
  BY <1>1, <1>2, <1>3 DEF Stands
<1>5. series[s].lockedLiability <= lockedQuote
  BY <1>1, RestedVault
<1> QED
  BY <1>2, <1>4, <1>5 DEF Closable

LEMMA RestedOffers ==
    ASSUME Rested, SolventInFlight, RedeemInFull, NEW s \in Existing, NEW h \in Holders,
           NEW units \in Nat \ {0}
    PROVE  LET r == series[s]
               owed == SettleProceeds(units, r.payoutPerUnit)
           IN  /\ Buying(s, h, units).submits =>
                    IssuanceOpen(s) /\ IsCurrent(s) /\ aqua[s]["ISSUE"] > 0
               /\ Selling(s, h, units).submits =>
                    /\ ExitOpen(s) /\ IsCurrent(s)
                    /\ Pays(s, "EXIT", h, units, 0, Liability(s, r.outstandingUnits - units))
               /\ (Redeeming(s, h, units).redeems /\ owed > 0) =>
                    /\ r.finalized /\ aqua[s]["SETTLE"] # Docked
                    /\ Pays(s, "SETTLE", h, units, owed,
                            FinalLiability(r.outstandingUnits - units, r.payoutPerUnit))
               /\ Redeeming(s, h, units).burns =>
                    r.finalized /\ r.payoutPerUnit = 0 /\ units <= r.outstandingUnits
               /\ Oracle(s, h).checkpoints => samples[s] < AvailableSamples(s)
               /\ Oracle(s, h).finalizes =>
                    ~r.finalized /\ now >= Params[s].expiry /\ samples[s] = TotalSamples(s)
               /\ Shown(s).issuanceOpen => ~r.issuanceStopped
               /\ Position(s, h).shown /\ r.finalized =>
                    Position(s, h).value = SettleProceeds(receipts[s][h], r.payoutPerUnit)
<1> DEFINE r == series[s]
           owed == SettleProceeds(units, r.payoutPerUnit)
<1>1. /\ s \in AllSeries
      /\ receipts[s][h] \in Nat /\ receipts[s][h] <= r.outstandingUnits
      /\ r.closed => r.outstandingUnits = 0
  BY RestedClaims
<1>2. /\ r.outstandingUnits \in Nat /\ r.lockedLiability \in Nat /\ r.payoutPerUnit \in Nat
      /\ balance \in Int /\ lockedQuote \in Int
      /\ balance >= lockedQuote /\ r.lockedLiability <= lockedQuote
      /\ samples[s] \in Nat /\ AvailableSamples(s) \in Nat /\ TotalSamples(s) \in Nat
      /\ samples[s] <= AvailableSamples(s) /\ AvailableSamples(s) <= TotalSamples(s)
  BY <1>1, RestedTypes, RestedVault
<1>3. ASSUME Buying(s, h, units).submits
      PROVE  IssuanceOpen(s) /\ IsCurrent(s) /\ aqua[s]["ISSUE"] > 0
  <2>1. Shown(s).issuanceOpen /\ Shown(s).checkpointsCurrent
    BY <1>1, <1>3, BuyOffered
  <2> QED
    BY <1>1, <2>1, ShownFields DEF IssuanceOpen, IsCurrent
<1>4. ASSUME Selling(s, h, units).submits
      PROVE  /\ ExitOpen(s) /\ IsCurrent(s)
             /\ Pays(s, "EXIT", h, units, 0, Liability(s, r.outstandingUnits - units))
  <2>1. Shown(s).exitOpen /\ Shown(s).checkpointsCurrent /\ units <= receipts[s][h]
    BY <1>4, ExitOffered
  <2>2. /\ ~r.finalized /\ now < Params[s].expiry /\ aqua[s]["EXIT"] # Docked
        /\ samples[s] >= AvailableSamples(s)
    BY <1>1, <2>1, ShownFields
  <2> DEFINE left == Liability(s, r.outstandingUnits - units)
  <2>3. r.lockedLiability = Liability(s, r.outstandingUnits)
    BY <1>1, <2>2, SeriesFields DEF Owed, Rested
  <2>4. r.outstandingUnits - units \in Nat /\ units <= r.outstandingUnits
    <3> HIDE DEF r
    <3> QED
      BY <1>1, <1>2, <2>1
  <2>5. left \in Nat /\ left <= r.lockedLiability
    <3>1. /\ Params[s].notional \in Nat /\ Params[s].cap \in Nat
          /\ r.outstandingUnits - units <= r.outstandingUnits
      BY <1>1, <1>2, ParamTypes
    <3>2. left \in Nat
      BY <1>1, <2>4, LiabilityNat
    <3>3. left <= Liability(s, r.outstandingUnits)
      BY <1>2, <2>4, <3>1, MaxLiabilityMonotone DEF Liability
    <3> QED
      BY <2>3, <3>2, <3>3
  <2>6. aqua[s]["EXIT"] >= 0
    BY <2>2, RestedClaims DEF Kinds
  <2> HIDE DEF left, r
  <2>7. 0 <= r.lockedLiability - left /\ r.lockedLiability - left <= lockedQuote /\ 0 <= balance
    BY <1>2, <2>5
  <2>8. Pays(s, "EXIT", h, units, 0, left)
    BY <2>1, <2>4, <2>6, <2>7 DEF Pays, r
  <2> QED
    BY <2>2, <2>8 DEF ExitOpen, IsCurrent, left, r
<1>5. ASSUME Redeeming(s, h, units).redeems, owed > 0
      PROVE  /\ r.finalized /\ aqua[s]["SETTLE"] # Docked
             /\ Pays(s, "SETTLE", h, units, owed,
                     FinalLiability(r.outstandingUnits - units, r.payoutPerUnit))
  <2>1. canRedeem(Shown(s)) /\ units <= receipts[s][h]
    BY <1>5, RedeemOffered
  <2>2. r.finalized /\ aqua[s]["SETTLE"] # Docked
    BY <1>1, <2>1, RedeemableShown
  <2>3. units \in 1..receipts[s][h]
    BY <1>1, <2>1
  <2>4. Redeemable(s, units)
    BY <1>1, <2>2, <2>3 DEF RedeemInFull, Rested
  <2> QED
    BY <2>1, <2>2, <2>4 DEF Redeemable, Pays
<1>6. ASSUME Redeeming(s, h, units).burns
      PROVE  r.finalized /\ r.payoutPerUnit = 0 /\ units <= r.outstandingUnits
  <2>1. needsWorthlessBurn(Shown(s)) /\ units <= receipts[s][h]
    BY <1>6, RedeemOffered
  <2>2. /\ Shown(s).status \in {"Finalized", "Closed"}
        /\ r.payoutPerUnit = 0 /\ r.outstandingUnits > 0
    BY <1>1, <2>1, RedeemableShown
  <2>3. ~r.closed
    BY <1>1, <1>2, <2>2
  <2>4. r.finalized
    BY <1>1, <2>2, <2>3, ShownPhase
  <2> HIDE DEF r
  <2>5. units <= r.outstandingUnits
    BY <1>1, <1>2, <2>1
  <2> QED
    BY <2>2, <2>4, <2>5
<1>7. Oracle(s, h).checkpoints => samples[s] < AvailableSamples(s)
  BY <1>1, OracleOffered
<1>8. ASSUME Oracle(s, h).finalizes
      PROVE  ~r.finalized /\ now >= Params[s].expiry /\ samples[s] = TotalSamples(s)
  <2>1. Shown(s).status = "ExpiredUnfinalized" /\ samples[s] >= TotalSamples(s)
    BY <1>1, <1>8, OracleOffered
  <2>2. samples[s] = TotalSamples(s)
    BY <1>2, <2>1
  <2> QED
    BY <1>1, <2>1, <2>2, ShownPhase
<1>9. Shown(s).issuanceOpen => ~r.issuanceStopped
  BY <1>1, ShownFields
<1>10. ASSUME r.finalized
       PROVE  Position(s, h).value = SettleProceeds(receipts[s][h], r.payoutPerUnit)
  <2>1. isFinalized(Shown(s))
    BY <1>1, <1>10, ShownPhase DEF isFinalized
  <2>2. Position(s, h).value = (OrZero(Wallet(s, h).receipts) * Shown(s).payoutPerUnit) \div UNIT
    BY <2>1 DEF Position, PositionSummary
  <2>3. OrZero(Wallet(s, h).receipts) = receipts[s][h]
    BY ZenonT(60), WalletFields, Defined, <1>1 DEF OrZero
  <2>4. Shown(s).payoutPerUnit = r.payoutPerUnit /\ UNIT = WAD
    BY <1>1, ShownFields, ShownAssumption
  <2> QED
    BY <2>2, <2>3, <2>4 DEF SettleProceeds, MulDiv
<1> QED
  BY <1>3, <1>4, <1>5, <1>6, <1>7, <1>8, <1>9, <1>10

(* The theorems *)

LEMMA RestedAlways == Spec => [](stack = << >> => Rested)
<1>1. Sound /\ ClaimsKept /\ OrdersStand => (stack = << >> => Rested)
  BY DEF Rested
<1> QED
  BY <1>1, SoundAlways, ClaimsAlways, OrdersStandAlways, PTL

\* What a page offers between two transactions (BuyTicket.tsx, ExitTicket.tsx,
\* RedeemTicket.tsx, OracleTicket.tsx) the controller does.
THEOREM OffersTheorem ==
    ASSUME QuietAfterBurn
    PROVE  Spec => []OffersExecute
<1>1. (stack = << >> => Rested) /\ SolventInFlight /\ RedeemInFull => OffersExecute
  <2> SUFFICES ASSUME Rested, SolventInFlight, RedeemInFull PROVE OffersExecute
    BY DEF OffersExecute, Read
  <2>1. \A n \in UnitAmounts : n \in Nat \ {0}
    BY InputsAssumption
  <2>2. \A s \in Existing : canClose(Shown(s)) => Closable(s)
    BY CloseOffered
  <2> QED
    BY <2>1, <2>2, RestedOffers DEF OffersExecute
<1> QED
  BY <1>1, RestedAlways, SolventAlways, SeriesRedeemTheorem, PTL

\* A holder is never left with a page that has nothing to do (TradeRail.tsx).
THEOREM WayOutTheorem == Spec => []WayOut
<1>1. (stack = << >> => Rested) => WayOut
  <2> SUFFICES ASSUME Rested, NEW s \in Existing, NEW h \in Holders,
                      receipts[s][h] > 0, now >= Params[s].start
               PROVE  \/ Tab(s, "exit") /\ Selling(s, h, receipts[s][h]).submits
                      \/ /\ Tab(s, "oracle")
                         /\ Oracle(s, h).checkpoints \/ Oracle(s, h).finalizes
                      \/ /\ Tab(s, "redeem")
                         /\ \/ Redeeming(s, h, receipts[s][h]).redeems
                            \/ Redeeming(s, h, receipts[s][h]).burns
    BY DEF WayOut, Read
  <2> DEFINE r == series[s]
             held == receipts[s][h]
             S == Shown(s)
  <2>1. /\ s \in AllSeries /\ held \in Nat \ {0} /\ held <= r.outstandingUnits
        /\ r.closed => r.outstandingUnits = 0
        /\ ~r.closed => aqua[s]["EXIT"] # Docked /\ aqua[s]["SETTLE"] # Docked
    BY RestedClaims
  <2>2. r.outstandingUnits \in Nat /\ r.payoutPerUnit \in Nat
        /\ now \in Nat /\ Params[s].expiry \in Nat /\ Params[s].start \in Nat
        /\ samples[s] \in Nat /\ AvailableSamples(s) \in Nat
    BY <2>1, RestedTypes
  <2>3. r.outstandingUnits > 0 /\ ~r.closed
    BY <2>1, <2>2
  <2>4. S.issuanceOpen \in BOOLEAN /\ S.exitOpen \in BOOLEAN
    BY <2>1, ShownFields
  <2>5. /\ (S.status \in {"Upcoming", "Live"} /\ S.exitOpen) => Tab(s, "exit")
        /\ (canRedeem(S) \/ needsWorthlessBurn(S)) => Tab(s, "redeem")
        /\ hasOracleTab(S) => Tab(s, "oracle")
    BY <2>4, TabsOffered DEF Tab
  <2> HIDE DEF held
  <2>6. CASE r.finalized
    <3>1. S.status = "Finalized"
      BY <2>1, <2>3, <2>6, ShownPhase
    <3>2. canRedeem(S) \/ needsWorthlessBurn(S)
      <4>1. CASE r.payoutPerUnit = 0
        BY <2>1, <2>3, <3>1, <4>1, RedeemableShown
      <4>2. CASE r.payoutPerUnit # 0
        <5>1. r.payoutPerUnit > 0
          BY <2>2, <4>2
        <5> QED
          BY <2>1, <2>3, <2>6, <5>1, RedeemableShown
      <4> QED
        BY <4>1, <4>2
    <3>3. held <= receipts[s][h]
      BY <2>1 DEF held
    <3>4. Redeeming(s, h, held).redeems \/ Redeeming(s, h, held).burns
      BY <2>1, <3>1, <3>2, <3>3, RedeemOffered
    <3> QED
      BY <2>5, <3>2, <3>4 DEF held
  <2>7. CASE ~r.finalized /\ now >= Params[s].expiry
    <3>1. S.status = "ExpiredUnfinalized"
      BY <2>1, <2>3, <2>7, ShownPhase
    <3>2. Tab(s, "oracle")
      BY <2>5, <3>1 DEF hasOracleTab
    <3>3. AvailableSamples(s) = TotalSamples(s)
      BY <2>1, <2>7, RestedTypes
    <3>4. samples[s] < AvailableSamples(s) \/ samples[s] >= TotalSamples(s)
      BY <2>2, <3>3
    <3> QED
      BY <2>1, <3>1, <3>2, <3>4, OracleOffered
  <2>8. CASE ~r.finalized /\ ~(now >= Params[s].expiry)
    <3>1. now < Params[s].expiry
      BY <2>2, <2>8
    <3>2. S.status = "Live"
      BY <2>1, <2>3, <2>8, <3>1, ShownPhase
    <3>3. CASE samples[s] < AvailableSamples(s)
      <4>1. needsCheckpoint(S) /\ Oracle(s, h).checkpoints
        BY <2>1, <3>3, OracleOffered
      <4> QED
        BY <2>5, <4>1 DEF hasOracleTab
    <3>4. CASE ~(samples[s] < AvailableSamples(s))
      <4>1. samples[s] >= AvailableSamples(s)
        BY <2>2, <3>4
      <4>2. S.exitOpen /\ S.checkpointsCurrent
        BY <2>1, <2>3, <2>8, <3>1, <4>1, ShownFields
      <4>3. held <= receipts[s][h]
        BY <2>1 DEF held
      <4>4. Selling(s, h, held).submits
        BY <2>1, <3>2, <4>2, <4>3, ExitOffered
      <4> QED
        BY <2>5, <3>2, <4>2, <4>4 DEF held
    <3> QED
      BY <3>3, <3>4
  <2> QED
    BY <2>6, <2>7, <2>8
<1> QED
  BY <1>1, RestedAlways, PTL
=============================================================================

----------------------- MODULE PortfolioMarketProofs ------------------------
(***************************************************************************)
(* Theorems about the portfolio market, for every finite set of groups,    *)
(* all valid parameters, every WAD and any depth of nested swaps: its      *)
(* types, the solvency of its vault, what the lock of the vault is made    *)
(* of, and what its receipts are worth: every reserve covers the claims    *)
(* sold against it, a priced issue is backed, receipts are neither lost    *)
(* nor made, and every holder of a finalized group can redeem in full.     *)
(* Then two things derived from it: what the subgraph's handlers fold out  *)
(* of its logs is its ledger, and what the web pages offer and warn of is  *)
(* what the market will do.                                                *)
(***************************************************************************)
EXTENDS GroupPages, CommonProofs

-----------------------------------------------------------------------------
(***************************************************************************)
(* Arithmetic.  What the rounding of PortfolioMath guarantees for every    *)
(* amount and every WAD.                                                   *)
(***************************************************************************)

\* The defining property of integer division by WAD.
LEMMA DivBounds ==
    ASSUME NEW a \in Nat
    PROVE  /\ a \div WAD \in Nat
           /\ (a \div WAD) * WAD <= a
           /\ a < (a \div WAD) * WAD + WAD
  BY WADAssumption

\* Multiplication by a natural number is monotone.
LEMMA TimesMonotone ==
    ASSUME NEW a \in Nat, NEW b \in Nat, NEW k \in Nat, a <= b
    PROVE  a * k <= b * k
  OBVIOUS

\* A product with WAD orders as its other factor does.
LEMMA TimesWADCancels ==
    ASSUME NEW a \in Int, NEW b \in Int, a * WAD < b * WAD + WAD
    PROVE  a <= b
<1>1. SUFFICES ASSUME b + 1 <= a PROVE FALSE
  OBVIOUS
<1>2. (b + 1) * WAD <= a * WAD
  BY <1>1, WADAssumption
<1>3. (b + 1) * WAD = b * WAD + WAD
  BY WADAssumption
<1> QED
  BY <1>2, <1>3, WADAssumption

LEMMA FloorNat ==
    ASSUME NEW u \in Nat, NEW p \in Nat
    PROVE  FloorMul(u, p) \in Nat
<1>1. u * p \in Nat
  OBVIOUS
<1> QED
  BY <1>1, DivBounds DEF FloorMul

LEMMA CeilNat ==
    ASSUME NEW u \in Nat, NEW p \in Nat
    PROVE  CeilMul(u, p) \in Nat
<1>1. u * p + WAD - 1 \in Nat
  <2>1. u * p \in Nat
    OBVIOUS
  <2> QED
    BY <2>1, WADAssumption
<1> QED
  BY <1>1, DivBounds DEF CeilMul

\* A payout never exceeds the cap: CALM's complement does not underflow.
LEMMA PayoutWithinCap ==
    ASSUME NEW cap \in Nat, NEW x \in Nat, x <= WAD
    PROVE  FloorMul(cap, x) <= cap
<1>1. cap * x \in Nat
  OBVIOUS
<1>2. FloorMul(cap, x) * WAD <= cap * x
  BY <1>1, DivBounds DEF FloorMul
<1>3. cap * x <= cap * WAD
  BY WADAssumption
<1>4. FloorMul(cap, x) \in Nat
  BY FloorNat
<1>5. FloorMul(cap, x) * WAD < cap * WAD + WAD
  <2> DEFINE f == FloorMul(cap, x) * WAD
             c == cap * WAD
  <2>1. f \in Int /\ c \in Int
    BY <1>4, WADAssumption
  <2>2. f <= c
    BY <1>1, <1>2, <1>3, <2>1
  <2> HIDE DEF f, c
  <2>3. f < c + WAD
    BY <2>1, <2>2, WADAssumption
  <2> QED
    BY <2>3 DEF f, c
<1> QED
  BY <1>4, <1>5, TimesWADCancels

\* The normalized outcome is a share of one.
LEMMA OutcomeWithinWAD ==
    ASSUME NEW v \in Nat, NEW cap \in Nat \ {0}
    PROVE  NormalizedOutcome(v, cap) \in 0..WAD
<1>1. CASE v >= cap
  BY <1>1, WADAssumption DEF NormalizedOutcome
<1>2. CASE v < cap
  <2> DEFINE q == (v * WAD) \div cap
  <2>1. v * WAD \in Nat
    BY WADAssumption
  <2>2. q \in Nat /\ q * cap <= v * WAD
    BY <2>1
  <2>3. v * WAD <= cap * WAD
    BY <1>2, WADAssumption
  <2>4. ~(q > WAD)
    <3>1. SUFFICES ASSUME q >= WAD + 1 PROVE FALSE
      BY <2>2, WADAssumption
    <3>2. (WAD + 1) * cap <= q * cap
      BY <3>1, <2>2, WADAssumption
    <3>3. (WAD + 1) * cap = cap * WAD + cap
      BY WADAssumption
    <3> QED
      BY <3>2, <3>3, <2>2, <2>3, <2>1, WADAssumption
  <2> QED
    BY <1>2, <2>2, <2>4, WADAssumption DEF NormalizedOutcome
<1> QED
  BY <1>1, <1>2

\* The reserve, rounded up, is worth at least the exact product.
LEMMA CeilBounds ==
    ASSUME NEW u \in Nat, NEW p \in Nat
    PROVE  /\ u * p <= CeilMul(u, p) * WAD
           /\ CeilMul(u, p) * WAD <= u * p + WAD - 1
<1> DEFINE a == u * p + WAD - 1
           c == (a \div WAD) * WAD
<1>1. u * p \in Nat /\ a \in Nat
  BY WADAssumption
<1>2. CeilMul(u, p) = a \div WAD
  BY DEF CeilMul
<1>3. c \in Int /\ c <= a /\ a < c + WAD
  BY <1>1, DivBounds, WADAssumption
<1> QED
  BY <1>1, <1>2, <1>3, WADAssumption

LEMMA FloorBounds ==
    ASSUME NEW u \in Nat, NEW p \in Nat
    PROVE  /\ FloorMul(u, p) * WAD <= u * p
           /\ u * p < FloorMul(u, p) * WAD + WAD
<1>1. u * p \in Nat
  OBVIOUS
<1> QED
  BY <1>1, DivBounds DEF FloorMul

\* Rounding down is monotone in the units.
LEMMA FloorMonotone ==
    ASSUME NEW u \in Nat, NEW v \in Nat, NEW p \in Nat, u <= v
    PROVE  FloorMul(u, p) <= FloorMul(v, p)
<1> DEFINE a == FloorMul(u, p)
           b == FloorMul(v, p)
<1>1. a \in Nat /\ b \in Nat
  BY FloorNat
<1>2. u * p <= v * p
  BY TimesMonotone
<1>3. a * WAD < b * WAD + WAD
  <2> DEFINE aw == a * WAD
             bw == b * WAD
             up == u * p
             vp == v * p
  <2>1. aw \in Int /\ bw \in Int /\ up \in Int /\ vp \in Int
    BY <1>1, WADAssumption
  <2>2. aw <= up /\ vp < bw + WAD /\ up <= vp
    BY <1>2, FloorBounds
  <2> HIDE DEF aw, bw, up, vp
  <2>3. aw < bw + WAD
    BY <2>1, <2>2, WADAssumption
  <2> QED
    BY <2>3 DEF aw, bw
<1> QED
  BY <1>1, <1>3, TimesWADCancels

\* Two fills never pay more than one fill of their units would: what a burn
\* releases covers what the swap pays for it.
LEMMA FloorSuperadditive ==
    ASSUME NEW u \in Nat, NEW v \in Nat, NEW p \in Nat
    PROVE  FloorMul(u, p) + FloorMul(v, p) <= FloorMul(u + v, p)
<1> DEFINE a == FloorMul(u, p)
           b == FloorMul(v, p)
           c == FloorMul(u + v, p)
<1>1. a \in Nat /\ b \in Nat /\ c \in Nat
  <2>1. u + v \in Nat
    OBVIOUS
  <2> QED
    BY <2>1, FloorNat
<1>2. (a + b) * WAD < c * WAD + WAD
  <2> DEFINE aw == a * WAD
             bw == b * WAD
             cw == c * WAD
             up == u * p
             vp == v * p
  <2>1. /\ aw \in Int /\ bw \in Int /\ cw \in Int
        /\ up \in Int /\ vp \in Int
    BY <1>1, WADAssumption
  <2>2. aw <= up /\ bw <= vp
    BY FloorBounds
  <2>3. (u + v) * p < cw + WAD
    BY FloorBounds
  <2>4. (u + v) * p = up + vp /\ (a + b) * WAD = aw + bw
    BY <1>1, WADAssumption
  <2> HIDE DEF aw, bw, cw, up, vp
  <2>5. aw + bw < cw + WAD
    BY <2>1, <2>2, <2>3, <2>4, WADAssumption
  <2> QED
    BY <2>4, <2>5 DEF cw
<1>3. a + b <= c
  BY <1>1, <1>2, TimesWADCancels
<1> QED
  BY <1>3

\* Rounding up is monotone in the units.
LEMMA CeilMonotone ==
    ASSUME NEW u \in Nat, NEW v \in Nat, NEW p \in Nat, u <= v
    PROVE  CeilMul(u, p) <= CeilMul(v, p)
<1> DEFINE a == CeilMul(u, p)
           b == CeilMul(v, p)
<1>1. a \in Nat /\ b \in Nat
  BY CeilNat
<1>2. u * p <= v * p
  BY TimesMonotone
<1>3. a * WAD < b * WAD + WAD
  <2> DEFINE aw == a * WAD
             bw == b * WAD
             up == u * p
             vp == v * p
  <2>1. aw \in Int /\ bw \in Int /\ up \in Int /\ vp \in Int
    BY <1>1, WADAssumption
  <2>2. aw <= up + WAD - 1 /\ vp <= bw /\ up <= vp
    BY <1>2, CeilBounds
  <2> HIDE DEF aw, bw, up, vp
  <2>3. aw < bw + WAD
    BY <2>1, <2>2, WADAssumption
  <2> QED
    BY <2>3 DEF aw, bw
<1> QED
  BY <1>1, <1>3, TimesWADCancels

\* The shared reserve covers both sides at every outcome: HIGH and CALM split
\* the cap payout, so their claims together never exceed the larger side's cap.
THEOREM ReserveCoversOutcome ==
    ASSUME NEW h \in Nat, NEW c \in Nat, NEW cap \in Nat,
           NEW hp \in Nat, NEW cp \in Nat, hp + cp = cap
    PROVE  FloorMul(h, hp) + FloorMul(c, cp) <= Reserve(h, c, cap)
<1> DEFINE m == MaxOf(h, c)
           a == FloorMul(h, hp)
           b == FloorMul(c, cp)
           r == CeilMul(m, cap)
<1>1. m \in Nat /\ h <= m /\ c <= m
  BY DEF MaxOf
<1> HIDE DEF m
<1>2. a \in Nat /\ b \in Nat /\ r \in Nat
  BY <1>1, FloorNat, CeilNat
<1>3. (a + b) * WAD < r * WAD + WAD
  <2> DEFINE aw == a * WAD
             bw == b * WAD
             rw == r * WAD
             x == h * hp
             y == c * cp
             mx == m * hp
             my == m * cp
  <2>1. /\ aw \in Int /\ bw \in Int /\ rw \in Int
        /\ x \in Int /\ y \in Int /\ mx \in Int /\ my \in Int
    BY <1>1, <1>2, WADAssumption
  <2>2. aw <= x /\ bw <= y
    BY FloorBounds
  <2>3. x <= mx /\ y <= my
    BY <1>1, TimesMonotone
  <2>4. m * cap <= rw
    BY <1>1, CeilBounds
  <2>5. m * cap = mx + my /\ (a + b) * WAD = aw + bw
    <3>1. m * (hp + cp) = m * hp + m * cp
      BY <1>1
    <3>2. (a + b) * WAD = a * WAD + b * WAD
      BY <1>2, WADAssumption
    <3> QED
      BY <3>1, <3>2
  <2> HIDE DEF aw, bw, rw, x, y, mx, my
  <2>6. aw + bw < rw + WAD
    BY <2>1, <2>2, <2>3, <2>4, <2>5, WADAssumption
  <2> QED
    BY <2>5, <2>6 DEF rw
<1>4. a + b <= r
  BY <1>2, <1>3, TimesWADCancels
<1> QED
  BY <1>4 DEF Reserve, m

\* The capacity _priceIssue computes by rounding down is one the lock, which
\* rounds up, never exceeds.
LEMMA CapacityCovers ==
    ASSUME NEW current \in Nat, NEW free \in Nat, NEW cap \in Nat \ {0},
           NEW u \in Nat, u <= MaxSideUnits(current, free, cap)
    PROVE  CeilMul(u, cap) <= current + free
<1> DEFINE n == current + free
           q == (n * WAD) \div cap
           r == CeilMul(u, cap)
<1>1. n \in Nat /\ r \in Nat /\ n * WAD \in Nat
  BY CeilNat, WADAssumption
<1>2. q \in Nat /\ q * cap <= n * WAD
  BY <1>1
<1>3. u * cap <= q * cap
  BY <1>2, TimesMonotone DEF MaxSideUnits
<1>4. r * WAD < n * WAD + WAD
  <2> DEFINE rw == r * WAD
             nw == n * WAD
             uc == u * cap
             qc == q * cap
  <2>1. rw \in Int /\ nw \in Int /\ uc \in Int /\ qc \in Int
    BY <1>1, <1>2, WADAssumption
  <2>2. rw <= uc + WAD - 1 /\ uc <= qc /\ qc <= nw
    BY <1>2, <1>3, CeilBounds
  <2> HIDE DEF rw, nw, uc, qc
  <2>3. rw < nw + WAD
    BY <2>1, <2>2, WADAssumption
  <2> QED
    BY <2>3 DEF rw, nw
<1> QED
  BY <1>1, <1>4, TimesWADCancels

-----------------------------------------------------------------------------
(***************************************************************************)
(* Types.  Every ledger is a natural number.                               *)
(***************************************************************************)

-----------------------------------------------------------------------------
(* The stack of swaps *)

LEMMA StackTop ==
    ASSUME stack \in Seq(Frames), stack # << >>
    PROVE  /\ Len(stack) \in Nat \ {0}
           /\ Top \in Frames
           /\ Below \in Seq(Frames)
           /\ Len(Below) = Len(stack) - 1
           /\ \A i \in 1..(Len(stack) - 1) : Below[i] = stack[i]
<1>1. Below = SubSeq(stack, 1, Len(stack) - 1)
  BY DEF Below
<1>2. /\ Len(stack) \in Nat \ {0}
      /\ stack[Len(stack)] \in Frames
      /\ Below \in Seq(Frames)
      /\ Len(Below) = Len(stack) - 1
      /\ \A i \in 1..(Len(stack) - 1) : Below[i] = stack[i]
  BY <1>1, ButLast
<1> QED
  BY <1>2 DEF Top

LEMMA NextStage ==
    ASSUME NEW f \in Frames
    PROVE  [f EXCEPT !.stage = "second"] \in Frames
  BY DEF Frames

-----------------------------------------------------------------------------
(* Type correctness *)

\* TypeOK, variable by variable.
VarTypes ==
    /\ now \in Nat
    /\ balance \in Nat
    /\ lockedQuote \in Nat
    /\ group \in [Groups -> GroupState]
    /\ held \in [Groups -> UnitsBySide]
    /\ inventory \in [Groups -> UnitsBySide]
    /\ aqua \in [Groups -> [Kinds -> UnitsBySide]]
    /\ advance \in Int
    /\ stack \in Seq(Frames)

LEMMA TypeOKByVariable == TypeOK <=> VarTypes
  BY DEF TypeOK, VarTypes, Snapshot, ChainState

LEMMA TypeOKByVariablePrime == TypeOK' <=> VarTypes'
  BY DEF TypeOK, VarTypes, Snapshot, ChainState

LEMMA ParamTypes ==
    ASSUME NEW g \in Groups
    PROVE  /\ Params[g].capPayoutPerUnit \in Nat \ {0}
           /\ Params[g].maxUnitsPerSide \in Nat \ {0}
           /\ Params[g].capVariance \in Nat \ {0}
           /\ \A s \in Sides : Params[g].ask[s] \in Nat \ {0} /\ Params[g].bid[s] \in Nat
  BY ParamsAssumption DEF ValidParams

\* The fields of a group, for the steps that change them.
LEMMA GroupFields ==
    ASSUME VarTypes, NEW g \in Groups
    PROVE  /\ group[g] \in GroupState
           /\ group[g].outstanding \in UnitsBySide
           /\ group[g].ppu \in UnitsBySide
           /\ group[g].reserveLocked \in Nat
           /\ group[g].exitBuffer \in Nat
           /\ group[g].created \in BOOLEAN
           /\ group[g].finalized \in BOOLEAN
           /\ \A s \in Sides : /\ group[g].outstanding[s] \in Nat
                               /\ group[g].ppu[s] \in Nat
                               /\ held[g][s] \in Nat
                               /\ inventory[g][s] \in Nat
  BY DEF VarTypes, GroupState, UnitsBySide

LEMMA ReserveNat ==
    ASSUME NEW h \in Nat, NEW c \in Nat, NEW cap \in Nat
    PROVE  Reserve(h, c, cap) \in Nat
  BY CeilNat DEF Reserve, MaxOf

LEMMA GroupReserveNat ==
    ASSUME NEW g \in Groups, NEW out \in UnitsBySide
    PROVE  GroupReserve(g, out) \in Nat
  BY ReserveNat, ParamTypes DEF GroupReserve, UnitsBySide, Sides

LEMMA FinalLiabilityNat ==
    ASSUME NEW out \in UnitsBySide, NEW ppu \in UnitsBySide
    PROVE  FinalLiability(out, ppu) \in Nat
<1>1. /\ out["HIGH"] \in Nat /\ out["CALM"] \in Nat
      /\ ppu["HIGH"] \in Nat /\ ppu["CALM"] \in Nat
  BY DEF UnitsBySide, Sides
<1>2. /\ FloorMul(out["HIGH"], ppu["HIGH"]) \in Nat
      /\ FloorMul(out["CALM"], ppu["CALM"]) \in Nat
  BY <1>1, FloorNat
<1> QED
  BY <1>2 DEF FinalLiability, FinalSideLiability

\* Finalization splits the cap payout exactly.
LEMMA PayoutsSplitCap ==
    ASSUME NEW cap \in Nat, NEW x \in 0..WAD
    PROVE  /\ FinalPayouts(x, cap) \in UnitsBySide
           /\ FinalPayouts(x, cap)["HIGH"] + FinalPayouts(x, cap)["CALM"] = cap
<1>1. x \in Nat /\ x <= WAD
  BY WADAssumption
<1>2. FloorMul(cap, x) \in Nat /\ FloorMul(cap, x) <= cap
  BY <1>1, FloorNat, PayoutWithinCap
<1> QED
  BY <1>2 DEF FinalPayouts, UnitsBySide, Sides

\* A priced issue has natural units and premium.
LEMMA IssueFillNat ==
    ASSUME VarTypes, NEW g \in Groups, NEW s \in Sides,
           NEW exactIn \in BOOLEAN, NEW amount \in Nat
    PROVE  /\ IssueFill(g, s, exactIn, amount).units \in Nat
           /\ IssueFill(g, s, exactIn, amount).premium \in Nat
<1> DEFINE p == Params[g]
           self == group[g].outstanding[s]
           maxSelf == MaxSideUnits(group[g].reserveLocked, FreeQuote, p.capPayoutPerUnit)
           capacity == IF maxSelf > self THEN maxSelf - self ELSE 0
           maxFill == MinOf(aqua[g]["ISSUE"][s], capacity)
           asked == IF exactIn THEN IssueUnitsFor(amount, p.ask[s]) ELSE amount
           units == MinOf(asked, maxFill)
<1>1. /\ p.capPayoutPerUnit \in Nat \ {0} /\ p.ask[s] \in Nat \ {0}
      /\ self \in Nat /\ group[g].reserveLocked \in Nat
  BY ParamTypes, GroupFields
<1>2. FreeQuote \in Nat
  BY DEF FreeQuote, VarTypes
<1>3. aqua[g]["ISSUE"][s] \in Nat
  BY DEF VarTypes, UnitsBySide, Kinds
<1>4. maxSelf \in Nat
  <2>1. (group[g].reserveLocked + FreeQuote) * WAD \in Nat
    BY <1>1, <1>2, WADAssumption
  <2> QED
    BY <1>1, <2>1 DEF MaxSideUnits
<1>5. asked \in Nat
  <2>1. amount * WAD \in Nat
    BY WADAssumption
  <2> QED
    BY <1>1, <2>1 DEF IssueUnitsFor
<1> HIDE DEF maxSelf, asked, self, p
<1>6. capacity \in Nat
  BY <1>1, <1>4
<1>7. maxFill \in Nat
  BY <1>3, <1>6 DEF MinOf
<1>8. units \in Nat
  BY <1>5, <1>7 DEF MinOf
<1>9. IssuePremium(units, p.ask[s]) \in Nat
  BY <1>1, <1>8, CeilNat DEF IssuePremium
<1> QED
  BY <1>8, <1>9 DEF IssueFill, maxSelf, asked, self, p

\* A new frame on the stack.
LEMMA EnterSwapType ==
    ASSUME VarTypes, NEW g \in Groups, NEW kind \in Kinds, NEW s \in Sides,
           NEW amountIn \in Nat, NEW amountOut \in Nat, NEW inFirst \in BOOLEAN,
           EnterSwap(Frame(g, kind, s, amountIn, amountOut, inFirst))
    PROVE  stack' \in Seq(Frames)
<1> DEFINE f == Frame(g, kind, s, amountIn, amountOut, inFirst)
<1>1. Snapshot \in ChainState
  BY TypeOKByVariable DEF TypeOK
<1>2. f \in Frames
  BY <1>1 DEF Frame, Frames
<1> HIDE DEF f
<1> QED
  BY <1>2 DEF EnterSwap, VarTypes, f

LEMMA CreateGroupType ==
    ASSUME VarTypes, NEW g \in Groups, CreateGroup(g)
    PROVE  VarTypes'
<1>1. group' \in [Groups -> GroupState]
  BY ZenonT(60) DEF CreateGroup, VarTypes, GroupState
<1>2. inventory' \in [Groups -> UnitsBySide]
  <2>1. [s \in Sides |-> Params[g].maxUnitsPerSide] \in UnitsBySide
    BY ParamTypes DEF UnitsBySide
  <2> QED
    BY <2>1 DEF CreateGroup, VarTypes
<1>3. aqua' \in [Groups -> [Kinds -> UnitsBySide]]
  <2>1. ShipAmounts(g) \in [Kinds -> UnitsBySide]
    <3>1. /\ Params[g].maxUnitsPerSide \in Nat
          /\ Reserve(Params[g].maxUnitsPerSide, 0, Params[g].capPayoutPerUnit) \in Nat
      BY ParamTypes, ReserveNat
    <3> QED
      BY <3>1 DEF ShipAmounts, UnitsBySide
  <2> QED
    BY <2>1 DEF CreateGroup, VarTypes
<1> QED
  BY <1>1, <1>2, <1>3 DEF CreateGroup, VarTypes, VaultUnchanged

LEMMA SwapIssueType ==
    ASSUME VarTypes, NEW g \in Groups, NEW s \in Sides, NEW exactIn \in BOOLEAN,
           NEW amount \in Nat, NEW inFirst \in BOOLEAN,
           SwapIssue(g, s, exactIn, amount, inFirst)
    PROVE  VarTypes'
<1> DEFINE units == IssueFill(g, s, exactIn, amount).units
           premium == IssueFill(g, s, exactIn, amount).premium
           out == [group[g].outstanding EXCEPT ![s] = @ + units]
           newReserve == GroupReserve(g, out)
           delta == newReserve - group[g].reserveLocked
<1>1. units \in Nat /\ premium \in Nat
  BY IssueFillNat
<1>2. /\ ApplyIssue(g, s, units)
      /\ EnterSwap(Frame(g, "ISSUE", s, premium, units, inFirst))
  BY DEF SwapIssue
<1> HIDE DEF units, premium
<1>3. stack' \in Seq(Frames)
  BY <1>1, <1>2, EnterSwapType DEF Kinds
<1>4. out \in UnitsBySide
  BY <1>1, GroupFields DEF UnitsBySide
<1>5. newReserve \in Nat
  BY <1>4, GroupReserveNat
<1>6. /\ delta >= 0
      /\ group' = [group EXCEPT ![g].outstanding = out, ![g].reserveLocked = newReserve]
      /\ IF delta > 0 THEN IncreaseLocked(delta) ELSE VaultUnchanged
  BY <1>2 DEF ApplyIssue
<1> HIDE DEF out, newReserve
<1>7. group' \in [Groups -> GroupState]
  BY ZenonT(60), <1>4, <1>5, <1>6 DEF VarTypes, GroupState
<1>8. balance' \in Nat /\ lockedQuote' \in Nat
  BY SMTT(30), <1>5, <1>6, GroupFields DEF VarTypes, IncreaseLocked, VaultUnchanged
<1> QED
  BY <1>3, <1>7, <1>8 DEF SwapIssue, VarTypes

LEMMA SwapExitType ==
    ASSUME VarTypes, NEW g \in Groups, NEW s \in Sides, NEW amount \in Nat,
           NEW inFirst \in BOOLEAN, SwapExit(g, s, amount, inFirst)
    PROVE  VarTypes'
<1> DEFINE units == MinOf(amount, group[g].outstanding[s])
           paid == MinOf(ExitProceeds(units, Params[g].bid[s]), aqua[g]["EXIT"][s])
<1>1. units \in Nat
  BY GroupFields DEF MinOf
<1>2. paid \in Nat
  <2>1. ExitProceeds(units, Params[g].bid[s]) \in Nat
    BY <1>1, ParamTypes, FloorNat DEF ExitProceeds
  <2>2. aqua[g]["EXIT"][s] \in Nat
    BY DEF VarTypes, UnitsBySide, Kinds
  <2> QED
    BY <2>1, <2>2 DEF MinOf
<1>3. EnterSwap(Frame(g, "EXIT", s, units, paid, inFirst)) /\ UNCHANGED <<now, chain>>
  BY DEF SwapExit
<1> HIDE DEF units, paid
<1>4. stack' \in Seq(Frames)
  BY <1>1, <1>2, <1>3, EnterSwapType DEF Kinds
<1> QED
  BY <1>3, <1>4 DEF VarTypes, chain

LEMMA SwapSettleType ==
    ASSUME VarTypes, NEW g \in Groups, NEW s \in Sides, NEW amount \in Nat,
           NEW inFirst \in BOOLEAN, SwapSettle(g, s, amount, inFirst)
    PROVE  VarTypes'
<1> DEFINE units == MinOf(amount, group[g].outstanding[s])
           paid == MinOf(SettleProceeds(units, group[g].ppu[s]), aqua[g]["SETTLE"][s])
<1>1. units \in Nat
  BY GroupFields DEF MinOf
<1>2. paid \in Nat
  <2>1. SettleProceeds(units, group[g].ppu[s]) \in Nat
    BY <1>1, GroupFields, FloorNat DEF SettleProceeds
  <2>2. aqua[g]["SETTLE"][s] \in Nat
    BY DEF VarTypes, UnitsBySide, Kinds
  <2> QED
    BY <2>1, <2>2 DEF MinOf
<1>3. EnterSwap(Frame(g, "SETTLE", s, units, paid, inFirst)) /\ UNCHANGED <<now, chain>>
  BY DEF SwapSettle
<1> HIDE DEF units, paid
<1>4. stack' \in Seq(Frames)
  BY <1>1, <1>2, <1>3, EnterSwapType DEF Kinds
<1> QED
  BY <1>3, <1>4 DEF VarTypes, chain

\* A burn keeps the types and unlocks at least what the swap pays out.
LEMMA BurnExitEffect ==
    ASSUME VarTypes, NEW g \in Groups, NEW s \in Sides,
           NEW units \in Nat, NEW amountOut \in Nat,
           units <= group[g].outstanding[s],
           BurnExit(g, s, units, amountOut)
    PROVE  /\ group' \in [Groups -> GroupState]
           /\ lockedQuote' \in Nat
           /\ UNCHANGED balance
           /\ lockedQuote' + amountOut <= lockedQuote
<1> DEFINE out == [group[g].outstanding EXCEPT ![s] = @ - units]
           newReserve == ReserveAfterExit(g, s, units)
           released == group[g].reserveLocked - newReserve
           draw == IF amountOut > released THEN amountOut - released ELSE 0
<1>1. out \in UnitsBySide
  BY GroupFields DEF UnitsBySide
<1>2. newReserve \in Nat
  BY <1>1, GroupReserveNat DEF ReserveAfterExit
<1>3. /\ released >= 0
      /\ draw <= group[g].exitBuffer
      /\ group' = [group EXCEPT ![g].exitBuffer = @ - draw,
                                ![g].reserveLocked = newReserve,
                                ![g].outstanding[s] = @ - units]
      /\ DecreaseLocked(released + draw)
  BY DEF BurnExit
<1> HIDE DEF newReserve
<1>4. /\ draw \in Nat /\ released \in Nat /\ released + draw >= amountOut
  BY <1>2, <1>3, GroupFields
<1> HIDE DEF draw
<1>5. group' \in [Groups -> GroupState]
  <2>1. group' = [group EXCEPT ![g] = [group[g] EXCEPT !.exitBuffer = @ - draw,
                                                       !.reserveLocked = newReserve,
                                                       !.outstanding = out]]
    BY <1>3
  <2>2. group[g].exitBuffer - draw \in Nat
    BY <1>3, <1>4, GroupFields
  <2> HIDE DEF out
  <2>3. [group[g] EXCEPT !.exitBuffer = @ - draw, !.reserveLocked = newReserve,
                         !.outstanding = out] \in GroupState
    BY <1>1, <1>2, <2>2, GroupFields DEF GroupState
  <2> QED
    BY <2>1, <2>3 DEF VarTypes
<1> QED
  BY SMTT(30), <1>3, <1>4, <1>5 DEF DecreaseLocked, VarTypes

LEMMA BurnSettleEffect ==
    ASSUME VarTypes, NEW g \in Groups, NEW s \in Sides,
           NEW units \in Nat, NEW amountOut \in Nat,
           units <= group[g].outstanding[s],
           BurnSettle(g, s, units, amountOut)
    PROVE  /\ group' \in [Groups -> GroupState]
           /\ lockedQuote' \in Nat
           /\ UNCHANGED balance
           /\ lockedQuote' + amountOut <= lockedQuote
<1> DEFINE out == [group[g].outstanding EXCEPT ![s] = @ - units]
           newTotal == FinalLiability(out, group[g].ppu)
           released == group[g].reserveLocked - newTotal
<1>1. out \in UnitsBySide
  BY GroupFields DEF UnitsBySide
<1>2. newTotal \in Nat
  BY <1>1, GroupFields, FinalLiabilityNat
<1>3. /\ amountOut <= released
      /\ group' = [group EXCEPT ![g].outstanding = out, ![g].reserveLocked = newTotal]
      /\ DecreaseLocked(released)
  BY DEF BurnSettle
<1> HIDE DEF out, newTotal
<1>4. group' \in [Groups -> GroupState]
  BY ZenonT(60), <1>1, <1>2, <1>3 DEF VarTypes, GroupState
<1>5. released \in Int
  BY <1>2, GroupFields
<1> QED
  BY SMTT(30), <1>3, <1>4, <1>5 DEF DecreaseLocked, VarTypes

LEMMA OnBurnEffect ==
    ASSUME VarTypes, NEW f \in Frames, OnBurn(f)
    PROVE  /\ group' \in [Groups -> GroupState]
           /\ lockedQuote' \in Nat
           /\ UNCHANGED balance
           /\ lockedQuote' + f.amountOut <= lockedQuote
<1>1. /\ f.group \in Groups /\ f.side \in Sides
      /\ f.amountIn \in Nat /\ f.amountOut \in Nat
  BY DEF Frames
<1>2. f.amountIn <= group[f.group].outstanding[f.side]
  BY DEF OnBurn
<1>3. CASE BurnExit(f.group, f.side, f.amountIn, f.amountOut)
  BY <1>1, <1>2, <1>3, BurnExitEffect
<1>4. CASE BurnSettle(f.group, f.side, f.amountIn, f.amountOut)
  BY <1>1, <1>2, <1>4, BurnSettleEffect
<1> QED
  BY <1>3, <1>4 DEF OnBurn

LEMMA TransferInType ==
    ASSUME VarTypes, TransferIn
    PROVE  VarTypes'
<1>1. stack # << >> /\ stack \in Seq(Frames) /\ TransferDone
  BY DEF TransferIn, TransferInNext, VarTypes
<1>2. Top \in Frames /\ stack' \in Seq(Frames)
  BY <1>1, StackTop, NextStage, AfterTransfer
<1>3. /\ Top.group \in Groups /\ Top.side \in Sides
      /\ Top.amountIn \in Nat /\ Top.amountOut \in Nat
  BY <1>2 DEF Frames
<1>4. UNCHANGED <<now, inventory, aqua>>
  BY DEF TransferIn
<1>5. CASE /\ Pushed(Top.amountIn)
           /\ UNCHANGED <<group, held, advance>>
  BY <1>2, <1>3, <1>4, <1>5 DEF Pushed, VarTypes
<1>6. CASE /\ Top.amountIn <= held[Top.group][Top.side]
           /\ held' = [held EXCEPT ![Top.group][Top.side] = @ - Top.amountIn]
           /\ OnBurn(Top)
           /\ advance' = advance - Top.amountOut
  <2>1. /\ group' \in [Groups -> GroupState]
        /\ lockedQuote' \in Nat
        /\ UNCHANGED balance
    BY <1>2, <1>6, OnBurnEffect
  <2>2. held' \in [Groups -> UnitsBySide]
    BY <1>3, <1>6 DEF VarTypes, UnitsBySide
  <2>3. advance' \in Int
    BY <1>3, <1>6 DEF VarTypes
  <2> QED
    BY <1>2, <1>4, <2>1, <2>2, <2>3 DEF VarTypes
<1> QED
  BY <1>5, <1>6 DEF TransferIn

LEMMA TransferOutType ==
    ASSUME VarTypes, TransferOut
    PROVE  VarTypes'
<1>1. stack # << >> /\ stack \in Seq(Frames) /\ TransferDone
  BY DEF TransferOut, TransferOutNext, VarTypes
<1>2. Top \in Frames /\ stack' \in Seq(Frames)
  BY <1>1, StackTop, NextStage, AfterTransfer
<1>3. /\ Top.group \in Groups /\ Top.side \in Sides /\ Top.kind \in Kinds
      /\ Top.amountOut \in Nat
  BY <1>2 DEF Frames
<1>4. /\ UNCHANGED <<now, group>>
      /\ Top.amountOut <= aqua[Top.group][Top.kind][Top.side]
      /\ aqua' = [aqua EXCEPT ![Top.group][Top.kind][Top.side] = @ - Top.amountOut]
  BY DEF TransferOut
<1>5. aqua' \in [Groups -> [Kinds -> UnitsBySide]]
  BY <1>3, <1>4 DEF VarTypes, UnitsBySide
<1>6. CASE /\ Top.amountOut <= inventory[Top.group][Top.side]
           /\ inventory' = [inventory EXCEPT ![Top.group][Top.side] = @ - Top.amountOut]
           /\ held' = [held EXCEPT ![Top.group][Top.side] = @ + Top.amountOut]
           /\ VaultUnchanged
           /\ UNCHANGED advance
  <2>1. inventory' \in [Groups -> UnitsBySide] /\ held' \in [Groups -> UnitsBySide]
    BY SMTT(30), <1>3, <1>6 DEF VarTypes, UnitsBySide
  <2> QED
    BY <1>2, <1>4, <1>5, <1>6, <2>1 DEF VarTypes, VaultUnchanged
<1>7. CASE /\ Pulled(Top.amountOut)
           /\ advance' = advance + Top.amountOut
           /\ UNCHANGED <<inventory, held>>
  BY SMTT(30), <1>2, <1>3, <1>4, <1>5, <1>7 DEF VarTypes, Pulled
<1> QED
  BY <1>6, <1>7 DEF TransferOut

LEMMA RevertType ==
    ASSUME VarTypes, Revert
    PROVE  VarTypes'
<1>1. Top \in Frames /\ Below \in Seq(Frames)
  BY StackTop DEF Revert, VarTypes
<1>2. Top.saved \in ChainState
  BY <1>1 DEF Frames
<1> QED
  BY <1>1, <1>2 DEF Revert, VarTypes, ChainState

LEMMA FinalizeType ==
    ASSUME VarTypes, NEW g \in Groups, NEW variance \in Variances,
           Finalize(g, variance)
    PROVE  VarTypes'
<1> DEFINE p == Params[g]
           payouts == FinalPayouts(NormalizedOutcome(variance, p.capVariance),
                                   p.capPayoutPerUnit)
           newLocked == FinalLiability(group[g].outstanding, payouts)
           released == group[g].reserveLocked + group[g].exitBuffer - newLocked
<1>1. NormalizedOutcome(variance, p.capVariance) \in 0..WAD
  BY ParamTypes, InputsAssumption, OutcomeWithinWAD
<1>2. payouts \in UnitsBySide
  BY <1>1, ParamTypes, PayoutsSplitCap
<1>3. /\ released >= 0
      /\ group' = [group EXCEPT ![g].finalized = TRUE,
                                ![g].ppu = payouts,
                                ![g].reserveLocked = newLocked,
                                ![g].exitBuffer = 0]
      /\ IF released > 0 THEN DecreaseLocked(released) ELSE VaultUnchanged
      /\ UNCHANGED <<now, stack, held, inventory, aqua, advance>>
  BY DEF Finalize
<1> HIDE DEF payouts
<1>4. newLocked \in Nat
  BY <1>2, GroupFields, FinalLiabilityNat
<1> HIDE DEF newLocked
<1>5. group' \in [Groups -> GroupState]
  <2> DEFINE gf == [group[g] EXCEPT !.finalized = TRUE, !.ppu = payouts,
                                    !.reserveLocked = newLocked, !.exitBuffer = 0]
  <2>1. gf \in GroupState
    BY <1>2, <1>4, GroupFields DEF GroupState
  <2>2. group' = [group EXCEPT ![g] = gf]
    BY <1>3
  <2> HIDE DEF gf
  <2> QED
    BY <2>1, <2>2 DEF VarTypes
<1>6. released \in Int
  BY <1>4, GroupFields
<1>7. balance' \in Nat /\ lockedQuote' \in Nat
  BY <1>3, <1>6 DEF VarTypes, DecreaseLocked, VaultUnchanged
<1> QED
  BY <1>3, <1>5, <1>7 DEF VarTypes

LEMMA ReceiptCallType ==
    ASSUME VarTypes, ReceiptCall
    PROVE  VarTypes'
<1>1. ASSUME NEW g \in Groups, NEW s \in Sides, NEW u \in Nat, BurnWorthless(g, s, u)
      PROVE  VarTypes'
  <2>1. held' \in [Groups -> UnitsBySide]
    BY SMTT(30), <1>1, GroupFields DEF BurnWorthless, VarTypes, UnitsBySide
  <2>2. group' \in [Groups -> GroupState]
    <3> DEFINE out == [group[g].outstanding EXCEPT ![s] = @ - u]
    <3>1. out \in UnitsBySide
      BY <1>1, GroupFields DEF BurnWorthless, UnitsBySide
    <3>2. group' = [group EXCEPT ![g] = [group[g] EXCEPT !.outstanding = out]]
      BY <1>1 DEF BurnWorthless
    <3> HIDE DEF out
    <3>3. [group[g] EXCEPT !.outstanding = out] \in GroupState
      BY <3>1, GroupFields DEF GroupState
    <3> QED
      BY <3>2, <3>3 DEF VarTypes
  <2> QED
    BY <1>1, <2>1, <2>2 DEF BurnWorthless, VarTypes, VaultUnchanged
<1>2. ASSUME NEW g \in Groups, NEW s \in Sides, NEW u \in Nat,
             ReceiptTransferToVault(g, s, u)
      PROVE  VarTypes'
  <2>1. held' \in [Groups -> UnitsBySide] /\ inventory' \in [Groups -> UnitsBySide]
    BY <1>2, GroupFields DEF ReceiptTransferToVault, VarTypes, UnitsBySide
  <2> QED
    BY <1>2, <2>1 DEF ReceiptTransferToVault, VarTypes, VaultUnchanged
<1>3. UnitAmounts \subseteq Nat /\ StrayAmounts \subseteq Nat
  BY InputsAssumption
<1> QED
  BY <1>1, <1>2, <1>3 DEF ReceiptCall

LEMMA VaultCallType ==
    ASSUME VarTypes, VaultCall
    PROVE  VarTypes'
<1>1. PICK a \in Amounts :
        \/ VaultDeposit(a)
        \/ VaultWithdrawFree(a)
        \/ \E g \in Groups :
            \/ AllocateExitBuffer(g, a)
            \/ FundExitBuffer(g, a)
            \/ WithdrawExitBuffer(g, a)
  BY DEF VaultCall
<1>2. a \in Nat
  BY InputsAssumption
<1>3. CASE VaultDeposit(a)
  BY <1>2, <1>3 DEF VaultDeposit, Deposit, VarTypes
<1>4. CASE VaultWithdrawFree(a)
  BY <1>2, <1>4 DEF VaultWithdrawFree, WithdrawFree, FreeQuote, VarTypes
<1>5. ASSUME NEW g \in Groups, AllocateExitBuffer(g, a) PROVE VarTypes'
  <2>1. group' \in [Groups -> GroupState]
    <3> DEFINE b == group[g].exitBuffer + a
    <3>1. b \in Nat
      BY <1>2, <1>5, GroupFields DEF AllocateExitBuffer
    <3>2. group' = [group EXCEPT ![g] = [group[g] EXCEPT !.exitBuffer = b]]
      BY <1>5 DEF AllocateExitBuffer, CreditBuffer
    <3> HIDE DEF b
    <3>3. [group[g] EXCEPT !.exitBuffer = b] \in GroupState
      BY <3>1, GroupFields DEF GroupState
    <3> QED
      BY <3>2, <3>3 DEF VarTypes
  <2> QED
    BY <1>2, <1>5, <2>1 DEF AllocateExitBuffer, IncreaseLocked, VarTypes
<1>6. ASSUME NEW g \in Groups, FundExitBuffer(g, a) PROVE VarTypes'
  <2>1. group' \in [Groups -> GroupState]
    <3> DEFINE b == group[g].exitBuffer + a
    <3>1. b \in Nat
      BY <1>2, <1>6, GroupFields DEF FundExitBuffer
    <3>2. group' = [group EXCEPT ![g] = [group[g] EXCEPT !.exitBuffer = b]]
      BY <1>6 DEF FundExitBuffer, CreditBuffer
    <3> HIDE DEF b
    <3>3. [group[g] EXCEPT !.exitBuffer = b] \in GroupState
      BY <3>1, GroupFields DEF GroupState
    <3> QED
      BY <3>2, <3>3 DEF VarTypes
  <2> QED
    BY <1>2, <1>6, <2>1 DEF FundExitBuffer, VarTypes
<1>7. ASSUME NEW g \in Groups, WithdrawExitBuffer(g, a) PROVE VarTypes'
  <2>1. group' \in [Groups -> GroupState]
    <3> DEFINE b == group[g].exitBuffer - a
    <3>1. b \in Nat
      BY <1>2, <1>7, GroupFields DEF WithdrawExitBuffer
    <3>2. group' = [group EXCEPT ![g] = [group[g] EXCEPT !.exitBuffer = b]]
      BY <1>7 DEF WithdrawExitBuffer
    <3> HIDE DEF b
    <3>3. [group[g] EXCEPT !.exitBuffer = b] \in GroupState
      BY <3>1, GroupFields DEF GroupState
    <3> QED
      BY <3>2, <3>3 DEF VarTypes
  <2> QED
    BY <1>2, <1>7, <2>1 DEF WithdrawExitBuffer, DecreaseLocked, VarTypes
<1> QED
  BY <1>1, <1>3, <1>4, <1>5, <1>6, <1>7

\* Every ledger of the market stays a natural number.
THEOREM TypeCorrect == Spec => []TypeOK
<1>1. Init => TypeOK
  <2> SUFFICES ASSUME Init PROVE VarTypes
    BY TypeOKByVariable
  <2>1. Zero \in UnitsBySide /\ EmptyGroup \in GroupState
    BY DEF Zero, EmptyGroup, UnitsBySide, GroupState
  <2>2. << >> \in Seq(Frames)
    BY EmptySeq
  <2> QED
    BY <2>1, <2>2 DEF Init, VarTypes
<1>2. TypeOK /\ [Next]_vars => TypeOK'
  <2> SUFFICES ASSUME VarTypes, [Next]_vars PROVE VarTypes'
    BY TypeOKByVariable, TypeOKByVariablePrime
  <2>1. ASSUME NEW g \in Groups, CreateGroup(g) PROVE VarTypes'
    BY <2>1, CreateGroupType
  <2>2. CASE SwapCall
    <3>1. Amounts \subseteq Nat /\ UnitAmounts \subseteq Nat
      BY InputsAssumption
    <3>2. ASSUME NEW g \in Groups, NEW s \in Sides, NEW b \in BOOLEAN,
                 NEW exactIn \in BOOLEAN, NEW a \in Nat, SwapIssue(g, s, exactIn, a, b)
          PROVE  VarTypes'
      BY <3>2, SwapIssueType
    <3>3. ASSUME NEW g \in Groups, NEW s \in Sides, NEW b \in BOOLEAN,
                 NEW u \in Nat, SwapExit(g, s, u, b) \/ SwapSettle(g, s, u, b)
          PROVE  VarTypes'
      BY <3>3, SwapExitType, SwapSettleType
    <3> QED
      BY <2>2, <3>1, <3>2, <3>3 DEF SwapCall
  <2>3. CASE TransferIn
    BY <2>3, TransferInType
  <2>4. CASE TransferOut
    BY <2>4, TransferOutType
  <2>5. CASE Revert
    BY <2>5, RevertType
  <2>6. ASSUME NEW g \in Groups, NEW v \in Variances, Finalize(g, v) PROVE VarTypes'
    BY <2>6, FinalizeType
  <2>7. CASE ReceiptCall
    BY <2>7, ReceiptCallType
  <2>8. CASE VaultCall
    BY <2>8, VaultCallType
  <2>9. CASE Tick
    BY <2>9 DEF Tick, chain, VarTypes
  <2>10. CASE UNCHANGED vars
    BY <2>10 DEF vars, chain, VarTypes
  <2> QED
    BY <2>1, <2>2, <2>3, <2>4, <2>5, <2>6, <2>7, <2>8, <2>9, <2>10 DEF Next
<1> QED
  BY <1>1, <1>2, PTL DEF Spec

-----------------------------------------------------------------------------
(***************************************************************************)
(* Solvency.  The vault stays solvent, whatever swaps nest in one another, *)
(* as long as takers are not called back between the burn of an exit or    *)
(* settlement and its payment.                                             *)
(***************************************************************************)

LEMMA SolventInFlightParts ==
    SolventInFlight <=> balance + advance >= lockedQuote /\ Chained(stack, advance)
  BY DEF SolventInFlight

LEMMA SolventInFlightPartsPrime ==
    SolventInFlight' <=>
        balance' + advance' >= lockedQuote' /\ Chained(stack', advance')
  BY DEF SolventInFlight, Chained, Ahead

LEMMA FramesShaped == \A f \in Frames : FrameShape(f)
  BY DEF Frames, FrameShape, ChainState

-----------------------------------------------------------------------------
(* The steps *)

\* A call that leaves the swaps in flight alone, and leaves the vault solvent
\* or no worse off.
LEMMA QuietStep ==
    ASSUME QuietAfterBurn, VarTypes, SolventInFlight, VarTypes',
           UNCHANGED <<stack, advance>>,
           \/ balance' - lockedQuote' >= balance - lockedQuote
           \/ Callable /\ balance' >= lockedQuote'
    PROVE  SolventInFlight'
<1>1. balance + advance >= lockedQuote /\ Chained(stack, advance)
  BY SolventInFlightParts
<1>2. /\ balance \in Int /\ lockedQuote \in Int /\ advance \in Int
      /\ balance' \in Int /\ lockedQuote' \in Int
  BY DEF VarTypes
<1>3. Callable => advance >= 0
  BY SolventInFlightParts, FramesShaped, CallableAhead DEF VarTypes
<1>4. balance' + advance >= lockedQuote'
  BY <1>1, <1>2, <1>3, Slack
<1>5. Chained(stack', advance')
  BY <1>1
<1> QED
  BY <1>4, <1>5, SolventInFlightPartsPrime

\* A swap that is priced, and at most raises the lock within the balance.
LEMMA EnterStep ==
    ASSUME QuietAfterBurn, VarTypes, SolventInFlight, VarTypes',
           Callable, NEW f \in Frames, f.saved = Snapshot, f.stage = "first",
           EnterSwap(f), UNCHANGED <<balance, advance>>,
           lockedQuote' = lockedQuote \/ balance' >= lockedQuote'
    PROVE  SolventInFlight'
<1>1. balance + advance >= lockedQuote /\ Chained(stack, advance)
  BY SolventInFlightParts
<1>2. advance >= 0
  BY SolventInFlightParts, FramesShaped, CallableAhead DEF VarTypes
<1>3. /\ f.saved.advance = advance /\ f.saved.balance = balance
      /\ f.saved.lockedQuote = lockedQuote
  BY DEF Snapshot
<1>4. Ahead(f) = 0
  BY DEF Ahead
<1>5. stack \in Seq(Frames) /\ advance \in Int
  BY DEF VarTypes
<1>6. f.saved.balance + advance >= f.saved.lockedQuote
  BY <1>1, <1>3
<1>7. Chained(Append(stack, f), advance)
  BY <1>1, <1>2, <1>3, <1>4, <1>5, <1>6, ChainPush
<1>8. Chained(stack', advance')
  BY <1>7 DEF EnterSwap
<1>9. balance' + advance' >= lockedQuote'
  BY <1>1, <1>2 DEF VarTypes
<1> QED
  BY <1>8, <1>9, SolventInFlightPartsPrime

\* A transfer that accounts for what it paid or burned.
LEMMA TransferStep ==
    ASSUME VarTypes, SolventInFlight, VarTypes', stack # << >>, TransferDone,
           balance' + advance' >= lockedQuote',
           advance' = Top.saved.advance
                        + (IF Top.stage = "first"
                           THEN Ahead([Top EXCEPT !.stage = "second"]) ELSE 0)
    PROVE  SolventInFlight'
<1>1. stack \in Seq(Frames) /\ Top \in Frames /\ Chained(stack, advance)
  BY StackTop, SolventInFlightParts DEF VarTypes
<1>2. [Top EXCEPT !.stage = "second"] \in Frames
  BY <1>1, NextStage
<1>3. [Top EXCEPT !.stage = "second"].saved = Top.saved
  BY <1>1 DEF Frames
<1>4. Chained(stack', advance')
  BY <1>1, <1>2, <1>3, FramesShaped, TransferChained
<1> QED
  BY <1>4, SolventInFlightPartsPrime

LEMMA TransferInSolvent ==
    ASSUME VarTypes, SolventInFlight, TransferIn
    PROVE  SolventInFlight'
<1>1. VarTypes'
  BY TransferInType
<1>2. stack # << >> /\ TransferDone /\ (Top.inFirst <=> Top.stage = "first")
  BY DEF TransferIn, TransferInNext
<1>3. /\ balance + advance >= lockedQuote
      /\ Top \in Frames /\ Top.saved.advance + Ahead(Top) = advance
  BY <1>2, SolventInFlightParts, ChainTop DEF VarTypes, Top
<1>4. /\ Top.amountIn \in Nat /\ Top.amountOut \in Nat
      /\ Top.stage \in {"first", "second"} /\ Top.inFirst \in BOOLEAN
      /\ Top.saved.advance \in Int
  BY <1>3, FramesShaped DEF FrameShape, Frames
<1> DEFINE f == [Top EXCEPT !.stage = "second"]
<1>5. /\ f.kind = Top.kind /\ f.stage = "second" /\ f.inFirst = Top.inFirst
      /\ f.amountOut = Top.amountOut
  BY <1>3 DEF Frames
<1>6. CASE /\ Top.kind = "ISSUE"
           /\ Pushed(Top.amountIn)
           /\ UNCHANGED <<group, held, advance>>
  <2>1. balance' + advance' >= lockedQuote'
    <3>1. balance \in Int /\ lockedQuote \in Int /\ advance \in Int
      BY DEF VarTypes
    <3>2. /\ balance' = balance + Top.amountIn
          /\ lockedQuote' = lockedQuote /\ advance' = advance
      BY <1>6 DEF Pushed
    <3>3. (balance + Top.amountIn) + advance >= lockedQuote
      BY <3>1, <1>3, <1>4
    <3> QED
      BY <3>2, <3>3
  <2>2. Ahead(Top) = 0 /\ Ahead(f) = 0
    BY <1>5, <1>6 DEF Ahead
  <2>3. advance' = Top.saved.advance + (IF Top.stage = "first" THEN Ahead(f) ELSE 0)
    BY <1>3, <1>4, <1>6, <2>2
  <2> QED
    BY <1>1, <1>2, <2>1, <2>3, TransferStep
<1>7. CASE /\ Top.kind # "ISSUE"
           /\ OnBurn(Top)
           /\ advance' = advance - Top.amountOut
  <2>1. UNCHANGED balance /\ lockedQuote' + Top.amountOut <= lockedQuote
    BY <1>3, <1>7, OnBurnEffect
  <2>2. balance' + advance' >= lockedQuote'
    <3>1. balance \in Int /\ lockedQuote \in Int /\ advance \in Int /\ lockedQuote' \in Int
      BY <1>1 DEF VarTypes
    <3>2. balance' = balance /\ advance' = advance - Top.amountOut
      BY <1>7, <2>1
    <3>3. balance + (advance - Top.amountOut) >= lockedQuote'
      BY <3>1, <1>3, <1>4, <2>1
    <3> QED
      BY <3>2, <3>3
  <2>3. CASE Top.stage = "first"
    <3>1. Ahead(Top) = 0 /\ Ahead(f) = -Top.amountOut
      BY <1>2, <1>5, <1>7, <2>3 DEF Ahead
    <3>2. advance' = Top.saved.advance + Ahead(f)
      BY <1>3, <1>4, <1>7, <3>1
    <3> QED
      BY <1>1, <1>2, <2>2, <2>3, <3>2, TransferStep
  <2>4. CASE Top.stage = "second"
    <3>1. Ahead(Top) = Top.amountOut
      BY <1>2, <1>7, <2>4 DEF Ahead
    <3>2. advance' = Top.saved.advance + 0
      BY <1>3, <1>4, <1>7, <3>1
    <3> QED
      BY <1>1, <1>2, <2>2, <2>4, <3>2, TransferStep
  <2> QED
    BY <1>4, <2>3, <2>4
<1> QED
  BY <1>6, <1>7 DEF TransferIn

LEMMA TransferOutSolvent ==
    ASSUME VarTypes, SolventInFlight, TransferOut
    PROVE  SolventInFlight'
<1>1. VarTypes'
  BY TransferOutType
<1>2. stack # << >> /\ TransferDone /\ (Top.inFirst <=> Top.stage = "second")
  BY DEF TransferOut, TransferOutNext
<1>3. /\ balance + advance >= lockedQuote
      /\ Top \in Frames /\ Top.saved.advance + Ahead(Top) = advance
  BY <1>2, SolventInFlightParts, ChainTop DEF VarTypes, Top
<1>4. /\ Top.amountOut \in Nat /\ Top.stage \in {"first", "second"}
      /\ Top.inFirst \in BOOLEAN /\ Top.saved.advance \in Int
  BY <1>3, FramesShaped DEF FrameShape, Frames
<1> DEFINE f == [Top EXCEPT !.stage = "second"]
<1>5. /\ f.kind = Top.kind /\ f.stage = "second" /\ f.inFirst = Top.inFirst
      /\ f.amountOut = Top.amountOut
  BY <1>3 DEF Frames
<1>6. CASE Top.kind = "ISSUE" /\ VaultUnchanged /\ UNCHANGED advance
  <2>1. balance' + advance' >= lockedQuote'
    BY <1>3, <1>6 DEF VaultUnchanged
  <2>2. Ahead(Top) = 0 /\ Ahead(f) = 0
    BY <1>5, <1>6 DEF Ahead
  <2>3. advance' = Top.saved.advance + (IF Top.stage = "first" THEN Ahead(f) ELSE 0)
    BY <1>3, <1>4, <1>6, <2>2
  <2> QED
    BY <1>1, <1>2, <2>1, <2>3, TransferStep
<1>7. CASE /\ Top.kind # "ISSUE"
           /\ Pulled(Top.amountOut)
           /\ advance' = advance + Top.amountOut
  <2>1. balance' + advance' >= lockedQuote'
    <3>1. balance \in Int /\ lockedQuote \in Int /\ advance \in Int
      BY DEF VarTypes
    <3>2. /\ balance' = balance - Top.amountOut
          /\ lockedQuote' = lockedQuote
          /\ advance' = advance + Top.amountOut
      BY <1>7 DEF Pulled
    <3>3. (balance - Top.amountOut) + (advance + Top.amountOut) = balance + advance
      BY <3>1, <1>4
    <3> QED
      BY <3>2, <3>3, <1>3
  <2>2. CASE Top.stage = "first"
    <3>1. Ahead(Top) = 0 /\ Ahead(f) = Top.amountOut
      BY <1>2, <1>5, <1>7, <2>2 DEF Ahead
    <3>2. advance' = Top.saved.advance + Ahead(f)
      BY <1>3, <1>4, <1>7, <3>1
    <3> QED
      BY <1>1, <1>2, <2>1, <2>2, <3>2, TransferStep
  <2>3. CASE Top.stage = "second"
    <3>1. Ahead(Top) = -Top.amountOut
      BY <1>2, <1>7, <2>3 DEF Ahead
    <3>2. advance' = Top.saved.advance + 0
      BY <1>3, <1>4, <1>7, <3>1
    <3> QED
      BY <1>1, <1>2, <2>1, <2>3, <3>2, TransferStep
  <2> QED
    BY <1>4, <2>2, <2>3
<1> QED
  BY <1>6, <1>7 DEF TransferOut

LEMMA RevertSolvent ==
    ASSUME VarTypes, SolventInFlight, Revert
    PROVE  SolventInFlight'
<1>1. stack \in Seq(Frames) /\ stack # << >> /\ Chained(stack, advance)
  BY SolventInFlightParts DEF VarTypes, Revert
<1>2. Top.saved.balance + Top.saved.advance >= Top.saved.lockedQuote
  BY <1>1, ChainTop DEF Top
<1>3. Chained(Below, Top.saved.advance)
  BY <1>1, ChainPop DEF Top, Below
<1> QED
  BY <1>2, <1>3, SolventInFlightPartsPrime DEF Revert

LEMMA SwapIssueSolvent ==
    ASSUME QuietAfterBurn, VarTypes, SolventInFlight,
           NEW g \in Groups, NEW s \in Sides, NEW exactIn \in BOOLEAN,
           NEW amount \in Nat, NEW inFirst \in BOOLEAN,
           SwapIssue(g, s, exactIn, amount, inFirst)
    PROVE  SolventInFlight'
<1> DEFINE units == IssueFill(g, s, exactIn, amount).units
           premium == IssueFill(g, s, exactIn, amount).premium
           f == Frame(g, "ISSUE", s, premium, units, inFirst)
<1>1. VarTypes'
  BY SwapIssueType
<1>2. f \in Frames /\ f.saved = Snapshot /\ f.stage = "first"
  <2>1. units \in Nat /\ premium \in Nat
    BY IssueFillNat
  <2>2. Snapshot \in ChainState
    BY TypeOKByVariable DEF TypeOK
  <2> HIDE DEF units, premium
  <2> QED
    BY <2>1, <2>2 DEF Frame, Frames, Kinds
<1>3. Callable /\ EnterSwap(f) /\ UNCHANGED advance /\ ApplyIssue(g, s, units)
  BY DEF SwapIssue, CanSwap
<1> HIDE DEF units, premium, f
<1>4. UNCHANGED balance /\ (lockedQuote' = lockedQuote \/ balance' >= lockedQuote')
  BY <1>3 DEF ApplyIssue, IncreaseLocked, VaultUnchanged, AssertSolvent
<1> QED
  BY <1>1, <1>2, <1>3, <1>4, EnterStep

\* Exits and settlements change nothing when they are priced.
LEMMA SwapBurnSolvent ==
    ASSUME QuietAfterBurn, VarTypes, SolventInFlight,
           NEW g \in Groups, NEW s \in Sides, NEW u \in Nat, NEW inFirst \in BOOLEAN,
           SwapExit(g, s, u, inFirst) \/ SwapSettle(g, s, u, inFirst)
    PROVE  SolventInFlight'
<1>1. VarTypes'
  BY SwapExitType, SwapSettleType
<1>2. PICK kind, units, paid :
        kind \in {"EXIT", "SETTLE"} /\ EnterSwap(Frame(g, kind, s, units, paid, inFirst))
  BY DEF SwapExit, SwapSettle
<1> DEFINE f == Frame(g, kind, s, units, paid, inFirst)
<1>3. Callable /\ UNCHANGED <<balance, lockedQuote, advance>>
  BY DEF SwapExit, SwapSettle, CanSwap, chain
<1>4. f.saved = Snapshot /\ f.stage = "first" /\ Ahead(f) = 0
  BY DEF Frame, Ahead
<1>5. f \in Frames
  <2>1. stack' \in Seq(Frames) /\ stack' = Append(stack, f)
    BY <1>1, <1>2 DEF VarTypes, EnterSwap
  <2>2. stack \in Seq(Frames)
    BY DEF VarTypes
  <2>3. Len(stack') = Len(stack) + 1 /\ Len(stack) \in Nat
        /\ stack'[Len(stack) + 1] = f
    BY <2>1, <2>2
  <2>4. Len(stack) + 1 \in 1..Len(stack')
    BY <2>3
  <2> QED
    BY <2>1, <2>3, <2>4, ElementOfSeq
<1> HIDE DEF f
<1> QED
  BY <1>1, <1>2, <1>3, <1>4, <1>5, EnterStep DEF f

\* The calls that touch the vault outside a swap's own transfers.
LEMMA FinalizeSolvent ==
    ASSUME QuietAfterBurn, VarTypes, SolventInFlight,
           NEW g \in Groups, NEW v \in Variances, Finalize(g, v)
    PROVE  SolventInFlight'
<1>1. VarTypes' /\ Callable /\ UNCHANGED <<stack, advance>>
  BY FinalizeType DEF Finalize
<1>2. VaultUnchanged \/ AssertSolvent
  BY DEF Finalize, DecreaseLocked
<1>3. balance' - lockedQuote' >= balance - lockedQuote \/ balance' >= lockedQuote'
  BY <1>2 DEF VaultUnchanged, AssertSolvent, VarTypes
<1> QED
  BY SMTT(30), <1>1, <1>3, QuietStep

LEMMA VaultCallSolvent ==
    ASSUME QuietAfterBurn, VarTypes, SolventInFlight, VaultCall
    PROVE  SolventInFlight'
<1>1. VarTypes'
  BY VaultCallType
<1>2. PICK a \in Amounts :
        \/ VaultDeposit(a)
        \/ VaultWithdrawFree(a)
        \/ \E g \in Groups :
            \/ AllocateExitBuffer(g, a)
            \/ FundExitBuffer(g, a)
            \/ WithdrawExitBuffer(g, a)
  BY DEF VaultCall
<1>3. a \in Nat
  BY InputsAssumption
<1>4. Callable /\ UNCHANGED <<stack, advance>>
  BY <1>2 DEF VaultDeposit, VaultWithdrawFree, AllocateExitBuffer, FundExitBuffer,
              WithdrawExitBuffer
<1>5. \/ balance' = balance + a /\ lockedQuote' = lockedQuote
      \/ AssertSolvent
  BY <1>2 DEF VaultDeposit, Deposit, VaultWithdrawFree, WithdrawFree, FundExitBuffer,
              AllocateExitBuffer, IncreaseLocked, WithdrawExitBuffer, DecreaseLocked
<1>6. balance' - lockedQuote' >= balance - lockedQuote \/ balance' >= lockedQuote'
  BY <1>3, <1>5 DEF AssertSolvent, VarTypes
<1> QED
  BY <1>1, <1>4, <1>6, QuietStep

\* The other calls leave the vault alone.
LEMMA IdleSolvent ==
    ASSUME QuietAfterBurn, VarTypes, SolventInFlight, VarTypes',
           UNCHANGED <<balance, lockedQuote, stack, advance>>
    PROVE  SolventInFlight'
<1>1. balance' - lockedQuote' >= balance - lockedQuote
  BY DEF VarTypes
<1> QED
  BY <1>1, QuietStep

LEMMA NextSolvent ==
    ASSUME QuietAfterBurn, VarTypes, SolventInFlight, VarTypes', [Next]_vars
    PROVE  SolventInFlight'
<1>1. ASSUME NEW g \in Groups, CreateGroup(g) PROVE SolventInFlight'
  BY <1>1, IdleSolvent DEF CreateGroup, VaultUnchanged
<1>2. CASE SwapCall
  <2>1. Amounts \subseteq Nat /\ UnitAmounts \subseteq Nat
    BY InputsAssumption
  <2>2. PICK g \in Groups, s \in Sides, inFirst \in BOOLEAN :
          \/ \E a \in Amounts : SwapIssue(g, s, TRUE, a, inFirst)
          \/ \E u \in UnitAmounts :
              \/ SwapIssue(g, s, FALSE, u, inFirst)
              \/ SwapExit(g, s, u, inFirst)
              \/ SwapSettle(g, s, u, inFirst)
    BY <1>2 DEF SwapCall
  <2>3. ASSUME NEW exactIn \in BOOLEAN, NEW a \in Nat,
               SwapIssue(g, s, exactIn, a, inFirst)
        PROVE  SolventInFlight'
    BY <2>3, SwapIssueSolvent
  <2>4. ASSUME NEW u \in Nat, SwapExit(g, s, u, inFirst) \/ SwapSettle(g, s, u, inFirst)
        PROVE  SolventInFlight'
    BY <2>4, SwapBurnSolvent
  <2> QED
    BY <2>1, <2>2, <2>3, <2>4
<1>3. CASE TransferIn
  BY <1>3, TransferInSolvent
<1>4. CASE TransferOut
  BY <1>4, TransferOutSolvent
<1>5. CASE Revert
  BY <1>5, RevertSolvent
<1>6. ASSUME NEW g \in Groups, NEW v \in Variances, Finalize(g, v) PROVE SolventInFlight'
  BY <1>6, FinalizeSolvent
<1>7. CASE ReceiptCall
  <2>1. UNCHANGED <<balance, lockedQuote, stack, advance>>
    BY <1>7 DEF ReceiptCall, BurnWorthless, ReceiptTransferToVault, VaultUnchanged
  <2> QED
    BY <2>1, IdleSolvent
<1>8. CASE VaultCall
  BY <1>8, VaultCallSolvent
<1>9. CASE Tick
  BY <1>9, IdleSolvent DEF Tick, chain
<1>10. CASE UNCHANGED vars
  BY <1>10, IdleSolvent DEF vars, chain
<1> QED
  BY <1>1, <1>2, <1>3, <1>4, <1>5, <1>6, <1>7, <1>8, <1>9, <1>10 DEF Next

\* While swaps are in flight the vault is short by no more than they have paid
\* ahead of their burns, if no taker is called back between a burn and its
\* payment (SwapVM calls takers back there when isFirstTransferFromTaker is
\* set and a preTransferOut callback is asked for).
THEOREM SolventInFlightAlways ==
    ASSUME QuietAfterBurn
    PROVE  Spec => []SolventInFlight
<1>1. Init => SolventInFlight
  BY DEF Init, SolventInFlight, Chained
<1>2. TypeOK /\ TypeOK' /\ SolventInFlight /\ [Next]_vars => SolventInFlight'
  BY NextSolvent, TypeOKByVariable, TypeOKByVariablePrime
<1> QED
  BY <1>1, <1>2, TypeCorrect, PTL DEF Spec

\* TremorPortfolioMarket's core invariant: whenever a transaction is over, the
\* quote tokens in the vault cover everything locked.
THEOREM SolvencyTheorem ==
    ASSUME QuietAfterBurn
    PROVE  Spec => []Solvent
<1>1. TypeOK /\ SolventInFlight => Solvent
  <2> SUFFICES ASSUME VarTypes, SolventInFlight, stack = << >> PROVE balance >= lockedQuote
    BY TypeOKByVariable DEF Solvent
  <2>1. advance = 0 /\ balance + advance >= lockedQuote
    BY DEF SolventInFlight, Chained
  <2> QED
    BY <2>1 DEF VarTypes
<1> QED
  BY <1>1, TypeCorrect, SolventInFlightAlways, PTL

-----------------------------------------------------------------------------
(***************************************************************************)
(* The lock.  The vault locks exactly what the groups have reserved.  The  *)
(* sum over the groups moves with the one group a step changes; a revert   *)
(* restores a ledger of which the same was true.                           *)
(***************************************************************************)

-----------------------------------------------------------------------------
(* What the market's ledger is, or may be restored to *)

Ledgers == {Snapshot} \cup {stack[i].saved : i \in 1..Len(stack)}

LEMMA LedgersPrime ==
    Ledgers' = {Snapshot'} \cup {stack'[i].saved : i \in 1..Len(stack')}
  BY DEF Ledgers, Snapshot

LEMMA LedgersSame ==
    ASSUME UNCHANGED stack
    PROVE  Ledgers' \subseteq Ledgers \cup {Snapshot'}
  BY LedgersPrime DEF Ledgers

LEMMA LedgersPush ==
    ASSUME VarTypes, NEW f, f.saved = Snapshot, EnterSwap(f)
    PROVE  Ledgers' \subseteq Ledgers \cup {Snapshot'}
<1>1. stack' = Append(stack, f) /\ stack \in Seq(Frames)
  BY DEF EnterSwap, VarTypes
<1>2. /\ Len(stack) \in Nat /\ Len(stack') = Len(stack) + 1
      /\ stack'[Len(stack) + 1] = f
      /\ \A i \in 1..Len(stack) : stack'[i] = stack[i]
  BY <1>1
<1>3. ASSUME NEW i \in 1..Len(stack') PROVE stack'[i].saved \in Ledgers
  <2>1. i = Len(stack) + 1 \/ i \in 1..Len(stack)
    BY <1>2
  <2> QED
    BY <2>1, <1>2 DEF Ledgers
<1> QED
  BY <1>3, LedgersPrime

LEMMA LedgersTransfer ==
    ASSUME VarTypes, stack # << >>, TransferDone
    PROVE  Ledgers' \subseteq Ledgers \cup {Snapshot'}
<1>1. /\ Len(stack) \in Nat \ {0} /\ Top \in Frames
      /\ Len(Below) = Len(stack) - 1
      /\ \A i \in 1..(Len(stack) - 1) : Below[i] = stack[i]
      /\ Top = stack[Len(stack)]
  BY StackTop DEF VarTypes, Top
<1>2. Top.stage \in {"first", "second"}
  BY <1>1 DEF Frames
<1>3. CASE Top.stage = "first"
  <2> DEFINE f == [Top EXCEPT !.stage = "second"]
  <2>1. f.saved = Top.saved /\ f \in Frames
    BY <1>1, NextStage DEF Frames
  <2>2. /\ Len(stack') = Len(stack)
        /\ \A i \in 1..(Len(stack) - 1) : stack'[i] = stack[i]
        /\ stack'[Len(stack)] = f
    BY <1>3, <2>1, AfterTransfer DEF VarTypes
  <2> HIDE DEF f
  <2>3. ASSUME NEW i \in 1..Len(stack') PROVE stack'[i].saved \in Ledgers
    <3>1. i = Len(stack) \/ i \in 1..(Len(stack) - 1)
      BY <2>2, <1>1
    <3>2. stack'[i].saved = stack[i].saved /\ i \in 1..Len(stack)
      BY <1>1, <2>1, <2>2, <3>1
    <3> QED
      BY <3>2 DEF Ledgers
  <2> QED
    BY <2>3, LedgersPrime
<1>4. CASE Top.stage = "second"
  <2>1. stack' = Below
    BY <1>1, <1>4, NextStage, AfterTransfer DEF VarTypes
  <2>2. ASSUME NEW i \in 1..Len(stack') PROVE stack'[i].saved \in Ledgers
    <3>1. i \in 1..(Len(stack) - 1) /\ i \in 1..Len(stack) /\ stack'[i] = stack[i]
      BY <2>1, <1>1
    <3> QED
      BY <3>1 DEF Ledgers
  <2> QED
    BY <2>2, LedgersPrime
<1> QED
  BY <1>2, <1>3, <1>4

LEMMA LedgersRevert ==
    ASSUME VarTypes, Revert
    PROVE  Ledgers' \subseteq Ledgers
<1>1. /\ Len(stack) \in Nat \ {0}
      /\ Len(Below) = Len(stack) - 1
      /\ \A i \in 1..(Len(stack) - 1) : Below[i] = stack[i]
      /\ Top = stack[Len(stack)] /\ Top \in Frames
  BY StackTop DEF VarTypes, Revert, Top
<1>2. Snapshot' = Top.saved
  <2>1. Top.saved \in ChainState
    BY <1>1 DEF Frames
  <2> QED
    BY <2>1 DEF Snapshot, Revert, ChainState
<1>3. Len(stack) \in 1..Len(stack) /\ stack' = Below
  BY <1>1 DEF Revert
<1>4. Snapshot' \in Ledgers
  BY <1>1, <1>2, <1>3 DEF Ledgers
<1>5. ASSUME NEW i \in 1..Len(stack') PROVE stack'[i].saved \in Ledgers
  <2>1. i \in 1..(Len(stack) - 1) /\ i \in 1..Len(stack) /\ stack'[i] = stack[i]
    BY <1>1, <1>3
  <2> QED
    BY <2>1 DEF Ledgers
<1> QED
  BY <1>4, <1>5, LedgersPrime

\* A step restores a ledger that was saved, or adds the one it makes.
LEMMA LedgersStep ==
    ASSUME VarTypes, [Next]_vars
    PROVE  Revert \/ Ledgers' \subseteq Ledgers \cup {Snapshot'}
<1>1. ASSUME NEW g \in Groups, CreateGroup(g) PROVE UNCHANGED stack
  BY <1>1 DEF CreateGroup
<1>2. CASE SwapCall
  <2>1. PICK f : f.saved = Snapshot /\ EnterSwap(f)
    <3>1. ASSUME NEW g, NEW k, NEW s, NEW a, NEW b, NEW i,
                 EnterSwap(Frame(g, k, s, a, b, i))
          PROVE  \E f : f.saved = Snapshot /\ EnterSwap(f)
      <4>1. Frame(g, k, s, a, b, i).saved = Snapshot
        BY DEF Frame
      <4> QED
        BY <3>1, <4>1
    <3>2. ASSUME NEW g, NEW s, NEW exactIn, NEW a, NEW inFirst,
                 SwapIssue(g, s, exactIn, a, inFirst)
          PROVE  \E f : f.saved = Snapshot /\ EnterSwap(f)
      BY <3>1, <3>2 DEF SwapIssue
    <3>3. ASSUME NEW g, NEW s, NEW u, NEW inFirst,
                 SwapExit(g, s, u, inFirst) \/ SwapSettle(g, s, u, inFirst)
          PROVE  \E f : f.saved = Snapshot /\ EnterSwap(f)
      BY <3>1, <3>3 DEF SwapExit, SwapSettle
    <3> QED
      BY <1>2, <3>2, <3>3 DEF SwapCall
  <2> QED
    BY <2>1, LedgersPush
<1>3. CASE TransferIn \/ TransferOut
  BY <1>3, LedgersTransfer DEF TransferIn, TransferOut, TransferInNext, TransferOutNext
<1>4. ASSUME NEW g \in Groups, NEW v \in Variances, Finalize(g, v) PROVE UNCHANGED stack
  BY <1>4 DEF Finalize
<1>5. CASE ReceiptCall
  BY <1>5, LedgersSame DEF ReceiptCall, BurnWorthless, ReceiptTransferToVault
<1>6. CASE VaultCall
  BY <1>6, LedgersSame DEF VaultCall, VaultDeposit, VaultWithdrawFree, AllocateExitBuffer,
                           FundExitBuffer, WithdrawExitBuffer
<1>7. CASE Tick \/ UNCHANGED vars
  BY <1>7, LedgersSame DEF Tick, vars
<1> QED
  BY <1>1, <1>2, <1>3, <1>4, <1>5, <1>6, <1>7, LedgersSame DEF Next

-----------------------------------------------------------------------------
(* The lock is the sum of the groups' reserves *)

Locks(gr) == [g \in Groups |-> gr[g].reserveLocked + gr[g].exitBuffer]

LockSums(v) == v.lockedQuote = SumFunction(Locks(v.group))

\* The inductive invariant: the sum is right in every state a revert may
\* restore, too.
LocksSum == \A v \in Ledgers : LockSums(v)

LEMMA LockNow == LockSums(Snapshot) <=> lockedQuote = SumFunction(Locks(group))
  BY DEF LockSums, Snapshot

LEMMA LockNext == LockSums(Snapshot') <=> lockedQuote' = SumFunction(Locks(group'))
  BY DEF LockSums, Snapshot

LEMMA LocksType ==
    ASSUME NEW gr \in [Groups -> GroupState]
    PROVE  Locks(gr) \in [Groups -> Nat] /\ Locks(gr) \in [Groups -> Int]
<1>1. ASSUME NEW g \in Groups
      PROVE  gr[g].reserveLocked + gr[g].exitBuffer \in Nat
  BY DEF GroupState
<1>2. Nat \subseteq Int
  OBVIOUS
<1> QED
  BY <1>1, <1>2 DEF Locks

\* A call that changes group g moves the lock by what it changes of g's
\* reserve and buffer.
LEMMA LockMoves ==
    ASSUME VarTypes, VarTypes', LockSums(Snapshot), NEW g \in Groups, NEW gs,
           group' = [group EXCEPT ![g] = gs],
           lockedQuote' = lockedQuote + (gs.reserveLocked + gs.exitBuffer)
                            - (group[g].reserveLocked + group[g].exitBuffer)
    PROVE  LockSums(Snapshot')
<1> DEFINE old == Locks(group)
           new == Locks(group')
<1>1. old \in [Groups -> Int] /\ new \in [Groups -> Int]
  BY LocksType DEF VarTypes
<1>2. \A h \in Groups \ {g} : new[h] = old[h]
  BY DEF Locks, VarTypes
<1>3. /\ old[g] = group[g].reserveLocked + group[g].exitBuffer
      /\ new[g] = gs.reserveLocked + gs.exitBuffer
  BY DEF Locks, VarTypes
<1>4. lockedQuote = SumFunction(old)
  BY LockNow
<1> HIDE DEF old, new
<1>5. SumFunction(new) = SumFunction(old) + (new[g] - old[g])
  BY <1>1, <1>2, GroupsAssumption, SumExcept
<1>6. lockedQuote' = SumFunction(new)
  BY <1>1, <1>3, <1>4, <1>5 DEF VarTypes
<1> QED
  BY <1>6, LockNext DEF new

LEMMA LockStays ==
    ASSUME LockSums(Snapshot), UNCHANGED <<group, lockedQuote>>
    PROVE  LockSums(Snapshot')
  BY LockNow, LockNext

LEMMA SwapIssueLocks ==
    ASSUME VarTypes, VarTypes', LockSums(Snapshot),
           NEW g \in Groups, NEW s \in Sides, NEW exactIn \in BOOLEAN,
           NEW amount \in Nat, NEW inFirst \in BOOLEAN,
           SwapIssue(g, s, exactIn, amount, inFirst)
    PROVE  LockSums(Snapshot')
<1> DEFINE units == IssueFill(g, s, exactIn, amount).units
           out == [group[g].outstanding EXCEPT ![s] = @ + units]
           new == GroupReserve(g, out)
           gs == [group[g] EXCEPT !.outstanding = out, !.reserveLocked = new]
           delta == new - group[g].reserveLocked
<1>1. /\ group' = [group EXCEPT ![g] = gs]
      /\ delta >= 0
      /\ IF delta > 0 THEN IncreaseLocked(delta) ELSE VaultUnchanged
  BY DEF SwapIssue, ApplyIssue
<1>2. new \in Nat
  <2>1. units \in Nat
    BY IssueFillNat
  <2> HIDE DEF units
  <2>2. out \in UnitsBySide
    BY <2>1, GroupFields DEF UnitsBySide
  <2> QED
    BY <2>2, GroupReserveNat
<1> HIDE DEF out, new
<1>3. gs.reserveLocked = new /\ gs.exitBuffer = group[g].exitBuffer
  BY GroupFields DEF GroupState
<1>4. lockedQuote' = lockedQuote + (new - group[g].reserveLocked)
  BY SMTT(30), <1>1, <1>2, GroupFields DEF IncreaseLocked, VaultUnchanged, VarTypes
<1> HIDE DEF gs
<1>5. lockedQuote' = lockedQuote + (gs.reserveLocked + gs.exitBuffer)
                        - (group[g].reserveLocked + group[g].exitBuffer)
  BY SMTT(30), <1>2, <1>3, <1>4, GroupFields DEF VarTypes
<1> QED
  BY <1>1, <1>5, LockMoves

LEMMA OnBurnLocks ==
    ASSUME VarTypes, VarTypes', LockSums(Snapshot), NEW f \in Frames, OnBurn(f)
    PROVE  LockSums(Snapshot')
<1> DEFINE g == f.group
           out == [group[g].outstanding EXCEPT ![f.side] = @ - f.amountIn]
<1>1. g \in Groups /\ f.side \in Sides /\ f.amountIn \in Nat /\ f.amountOut \in Nat
  BY DEF Frames
<1>2. out \in UnitsBySide
  BY <1>1, GroupFields DEF OnBurn, UnitsBySide
<1>3. group[g].reserveLocked \in Int /\ group[g].exitBuffer \in Int /\ lockedQuote \in Int
  BY <1>1, GroupFields DEF VarTypes
<1>4. CASE BurnExit(g, f.side, f.amountIn, f.amountOut)
  <2> DEFINE new == GroupReserve(g, out)
             released == group[g].reserveLocked - new
             draw == IF f.amountOut > released THEN f.amountOut - released ELSE 0
             gs == [group[g] EXCEPT !.exitBuffer = @ - draw, !.reserveLocked = new,
                                    !.outstanding = out]
  <2>1. group' = [group EXCEPT ![g] = gs] /\ lockedQuote' = lockedQuote - (released + draw)
    <3>1. /\ group' = [group EXCEPT ![g].exitBuffer = @ - draw, ![g].reserveLocked = new,
                                    ![g].outstanding[f.side] = @ - f.amountIn]
          /\ lockedQuote' = lockedQuote - (released + draw)
      BY <1>4 DEF BurnExit, ReserveAfterExit, DecreaseLocked
    <3> HIDE DEF new, draw
    <3> QED
      BY <3>1
  <2>2. new \in Nat
    BY <1>1, <1>2, GroupReserveNat
  <2> HIDE DEF out, new
  <2>3. draw \in Int
    BY <1>1, <2>2, GroupFields
  <2> HIDE DEF draw
  <2>4. gs.reserveLocked = new /\ gs.exitBuffer = group[g].exitBuffer - draw
    BY <1>1, GroupFields DEF GroupState
  <2> HIDE DEF gs
  <2>5. lockedQuote' = lockedQuote + (gs.reserveLocked + gs.exitBuffer)
                          - (group[g].reserveLocked + group[g].exitBuffer)
    BY <1>3, <2>1, <2>2, <2>3, <2>4
  <2> QED
    BY <1>1, <2>1, <2>5, LockMoves
<1>5. CASE BurnSettle(g, f.side, f.amountIn, f.amountOut)
  <2> DEFINE new == FinalLiability(out, group[g].ppu)
             gs == [group[g] EXCEPT !.outstanding = out, !.reserveLocked = new]
  <2>1. /\ group' = [group EXCEPT ![g] = gs]
        /\ lockedQuote' = lockedQuote - (group[g].reserveLocked - new)
    BY <1>5 DEF BurnSettle, DecreaseLocked
  <2>2. new \in Nat
    BY <1>1, <1>2, GroupFields, FinalLiabilityNat
  <2> HIDE DEF out, new
  <2>3. gs.reserveLocked = new /\ gs.exitBuffer = group[g].exitBuffer
    BY <1>1, GroupFields DEF GroupState
  <2> HIDE DEF gs
  <2>4. lockedQuote' = lockedQuote + (gs.reserveLocked + gs.exitBuffer)
                          - (group[g].reserveLocked + group[g].exitBuffer)
    BY <1>3, <2>1, <2>2, <2>3
  <2> QED
    BY <1>1, <2>1, <2>4, LockMoves
<1> QED
  BY <1>4, <1>5 DEF OnBurn

LEMMA TransferLocks ==
    ASSUME VarTypes, VarTypes', LockSums(Snapshot), TransferIn \/ TransferOut
    PROVE  LockSums(Snapshot')
<1>1. stack # << >>
  BY DEF TransferIn, TransferOut, TransferInNext, TransferOutNext
<1>2. Top \in Frames
  BY <1>1, StackTop DEF VarTypes
<1>3. CASE OnBurn(Top)
  BY <1>2, <1>3, OnBurnLocks
<1>4. CASE UNCHANGED <<group, lockedQuote>>
  BY <1>4, LockStays
<1> QED
  BY <1>3, <1>4 DEF TransferIn, TransferOut, Pushed, Pulled, VaultUnchanged

LEMMA FinalizeLocks ==
    ASSUME VarTypes, VarTypes', LockSums(Snapshot),
           NEW g \in Groups, NEW v \in Variances, Finalize(g, v)
    PROVE  LockSums(Snapshot')
<1> DEFINE payouts == FinalPayouts(NormalizedOutcome(v, Params[g].capVariance),
                                   Params[g].capPayoutPerUnit)
           new == FinalLiability(group[g].outstanding, payouts)
           gs == [group[g] EXCEPT !.finalized = TRUE, !.ppu = payouts,
                                  !.reserveLocked = new, !.exitBuffer = 0]
           released == group[g].reserveLocked + group[g].exitBuffer - new
<1>1. /\ group' = [group EXCEPT ![g] = gs]
      /\ released >= 0
      /\ IF released > 0 THEN DecreaseLocked(released) ELSE VaultUnchanged
  BY DEF Finalize
<1>2. new \in Nat
  <2>1. NormalizedOutcome(v, Params[g].capVariance) \in 0..WAD
    BY ParamTypes, InputsAssumption, OutcomeWithinWAD
  <2>2. payouts \in UnitsBySide
    BY <2>1, ParamTypes, PayoutsSplitCap
  <2> HIDE DEF payouts
  <2> QED
    BY <2>2, GroupFields, FinalLiabilityNat
<1> HIDE DEF payouts, new
<1>3. gs.reserveLocked = new /\ gs.exitBuffer = 0
  BY GroupFields DEF GroupState
<1>4. lockedQuote' = lockedQuote - (group[g].reserveLocked + group[g].exitBuffer - new)
  BY <1>1, <1>2, GroupFields, SMTT(30) DEF DecreaseLocked, VaultUnchanged, VarTypes
<1> HIDE DEF gs
<1>5. lockedQuote' = lockedQuote + (gs.reserveLocked + gs.exitBuffer)
                        - (group[g].reserveLocked + group[g].exitBuffer)
  BY SMTT(30), <1>2, <1>3, <1>4, GroupFields DEF VarTypes
<1> QED
  BY <1>1, <1>5, LockMoves

\* A call that leaves the reserves and buffers of all groups alone.
LEMMA SameReserves ==
    ASSUME VarTypes, VarTypes', LockSums(Snapshot), NEW g \in Groups, NEW gs,
           group' = [group EXCEPT ![g] = gs], UNCHANGED lockedQuote,
           gs.reserveLocked = group[g].reserveLocked, gs.exitBuffer = group[g].exitBuffer
    PROVE  LockSums(Snapshot')
<1>1. lockedQuote' = lockedQuote + (gs.reserveLocked + gs.exitBuffer)
                        - (group[g].reserveLocked + group[g].exitBuffer)
  BY GroupFields DEF VarTypes
<1> QED
  BY <1>1, LockMoves

LEMMA CreateGroupLocks ==
    ASSUME VarTypes, VarTypes', LockSums(Snapshot), NEW g \in Groups, CreateGroup(g)
    PROVE  LockSums(Snapshot')
<1> DEFINE gs == [group[g] EXCEPT !.created = TRUE]
<1>1. group' = [group EXCEPT ![g] = gs] /\ UNCHANGED lockedQuote
  BY DEF CreateGroup, VaultUnchanged
<1>2. gs.reserveLocked = group[g].reserveLocked /\ gs.exitBuffer = group[g].exitBuffer
  BY GroupFields DEF GroupState
<1> HIDE DEF gs
<1> QED
  BY <1>1, <1>2, SameReserves

LEMMA BurnWorthlessLocks ==
    ASSUME VarTypes, VarTypes', LockSums(Snapshot), NEW g \in Groups, NEW s \in Sides,
           NEW u \in Nat, BurnWorthless(g, s, u)
    PROVE  LockSums(Snapshot')
<1> DEFINE gs == [group[g] EXCEPT !.outstanding = [group[g].outstanding EXCEPT ![s] = @ - u]]
<1>1. group' = [group EXCEPT ![g] = gs] /\ UNCHANGED lockedQuote
  BY DEF BurnWorthless, VaultUnchanged
<1>2. gs.reserveLocked = group[g].reserveLocked /\ gs.exitBuffer = group[g].exitBuffer
  BY GroupFields DEF GroupState
<1> HIDE DEF gs
<1> QED
  BY <1>1, <1>2, SameReserves

LEMMA VaultCallLocks ==
    ASSUME VarTypes, VarTypes', LockSums(Snapshot), VaultCall
    PROVE  LockSums(Snapshot')
<1>1. PICK a \in Amounts :
        \/ VaultDeposit(a)
        \/ VaultWithdrawFree(a)
        \/ \E g \in Groups :
            \/ AllocateExitBuffer(g, a)
            \/ FundExitBuffer(g, a)
            \/ WithdrawExitBuffer(g, a)
  BY DEF VaultCall
<1>2. a \in Nat
  BY InputsAssumption
<1>3. CASE VaultDeposit(a) \/ VaultWithdrawFree(a)
  BY <1>3, LockStays DEF VaultDeposit, Deposit, VaultWithdrawFree, WithdrawFree
<1>4. ASSUME NEW g \in Groups, NEW b,
             group' = [group EXCEPT ![g] = [group[g] EXCEPT !.exitBuffer = b]],
             lockedQuote' = lockedQuote + (b - group[g].exitBuffer), b \in Int
      PROVE  LockSums(Snapshot')
  <2> DEFINE gs == [group[g] EXCEPT !.exitBuffer = b]
  <2>1. gs.reserveLocked = group[g].reserveLocked /\ gs.exitBuffer = b
    BY GroupFields DEF GroupState
  <2>2. group' = [group EXCEPT ![g] = gs]
    BY <1>4
  <2> HIDE DEF gs
  <2>3. lockedQuote' = lockedQuote + (gs.reserveLocked + gs.exitBuffer)
                          - (group[g].reserveLocked + group[g].exitBuffer)
    BY SMTT(30), <1>4, <2>1, GroupFields DEF VarTypes
  <2> QED
    BY <2>2, <2>3, LockMoves
<1>5. ASSUME NEW g \in Groups, AllocateExitBuffer(g, a) \/ FundExitBuffer(g, a)
      PROVE  LockSums(Snapshot')
  <2>1. group' = [group EXCEPT ![g] = [group[g] EXCEPT !.exitBuffer = group[g].exitBuffer + a]]
    BY <1>5 DEF AllocateExitBuffer, FundExitBuffer, CreditBuffer
  <2>2. lockedQuote' = lockedQuote + ((group[g].exitBuffer + a) - group[g].exitBuffer)
    BY <1>2, <1>5, GroupFields DEF AllocateExitBuffer, FundExitBuffer, IncreaseLocked, VarTypes
  <2>3. group[g].exitBuffer + a \in Int
    BY <1>2, GroupFields
  <2> QED
    BY <2>1, <2>2, <2>3, <1>4
<1>6. ASSUME NEW g \in Groups, WithdrawExitBuffer(g, a)
      PROVE  LockSums(Snapshot')
  <2>1. group' = [group EXCEPT ![g] = [group[g] EXCEPT !.exitBuffer = group[g].exitBuffer - a]]
    BY <1>6 DEF WithdrawExitBuffer
  <2>2. lockedQuote' = lockedQuote + ((group[g].exitBuffer - a) - group[g].exitBuffer)
    BY <1>2, <1>6, GroupFields DEF WithdrawExitBuffer, DecreaseLocked, VarTypes
  <2>3. group[g].exitBuffer - a \in Int
    BY <1>2, GroupFields
  <2> QED
    BY <2>1, <2>2, <2>3, <1>4
<1> QED
  BY <1>1, <1>3, <1>5, <1>6

LEMMA NextLocks ==
    ASSUME VarTypes, VarTypes', LockSums(Snapshot), [Next]_vars
    PROVE  Revert \/ LockSums(Snapshot')
<1>1. ASSUME NEW g \in Groups, CreateGroup(g) PROVE LockSums(Snapshot')
  BY <1>1, CreateGroupLocks
<1>2. CASE SwapCall
  <2>1. Amounts \subseteq Nat /\ UnitAmounts \subseteq Nat
    BY InputsAssumption
  <2>2. ASSUME NEW g \in Groups, NEW s \in Sides, NEW b \in BOOLEAN,
               NEW exactIn \in BOOLEAN, NEW a \in Nat, SwapIssue(g, s, exactIn, a, b)
        PROVE  LockSums(Snapshot')
    BY <2>2, SwapIssueLocks
  <2>3. ASSUME NEW g \in Groups, NEW s \in Sides, NEW b \in BOOLEAN,
               NEW u \in Nat, SwapExit(g, s, u, b) \/ SwapSettle(g, s, u, b)
        PROVE  LockSums(Snapshot')
    BY <2>3, LockStays DEF SwapExit, SwapSettle, chain
  <2> QED
    BY <1>2, <2>1, <2>2, <2>3 DEF SwapCall
<1>3. CASE TransferIn \/ TransferOut
  BY <1>3, TransferLocks
<1>4. ASSUME NEW g \in Groups, NEW v \in Variances, Finalize(g, v) PROVE LockSums(Snapshot')
  BY <1>4, FinalizeLocks
<1>5. CASE ReceiptCall
  <2>1. UnitAmounts \subseteq Nat
    BY InputsAssumption
  <2>2. ASSUME NEW g, NEW s, NEW u, ReceiptTransferToVault(g, s, u)
        PROVE  LockSums(Snapshot')
    BY <2>2, LockStays DEF ReceiptTransferToVault, VaultUnchanged
  <2> QED
    BY <1>5, <2>1, <2>2, BurnWorthlessLocks DEF ReceiptCall
<1>6. CASE VaultCall
  BY <1>6, VaultCallLocks
<1>7. CASE Tick \/ UNCHANGED vars
  BY <1>7, LockStays DEF Tick, vars, chain
<1> QED
  BY <1>1, <1>2, <1>3, <1>4, <1>5, <1>6, <1>7 DEF Next

LEMMA LocksSumInvariant == Spec => []LocksSum
<1>1. Init => LocksSum
  <2> SUFFICES ASSUME Init PROVE LocksSum
    OBVIOUS
  <2>1. Ledgers = {Snapshot}
    <3>1. Len(stack) = 0
      BY DEF Init
    <3> QED
      BY <3>1 DEF Ledgers
  <2>2. \A g \in Groups : Locks(group)[g] = 0
    BY DEF Locks, Init, EmptyGroup
  <2>3. Locks(group) \in [Groups -> Int]
    BY <2>2 DEF Locks
  <2>4. SumFunction(Locks(group)) = 0
    BY <2>2, <2>3, GroupsAssumption, SumZero
  <2>5. LockSums(Snapshot)
    BY <2>4, LockNow DEF Init
  <2> QED
    BY <2>1, <2>5 DEF LocksSum
<1>2. TypeOK /\ TypeOK' /\ LocksSum /\ [Next]_vars => LocksSum'
  <2> SUFFICES ASSUME VarTypes, VarTypes', LocksSum, [Next]_vars PROVE LocksSum'
    BY TypeOKByVariable, TypeOKByVariablePrime
  <2>1. \A v \in Ledgers : LockSums(v)
    BY DEF LocksSum
  <2>2. LockSums(Snapshot)
    BY <2>1 DEF Ledgers
  <2>3. CASE Revert
    <3>1. \A v \in Ledgers' : LockSums(v)
      BY <2>1, <2>3, LedgersRevert
    <3> QED
      BY <3>1 DEF LocksSum, LockSums, Locks
  <2>4. CASE ~Revert
    <3>1. \A v \in Ledgers' : LockSums(v)
      BY <2>1, <2>2, <2>4, LedgersStep, NextLocks
    <3> QED
      BY <3>1 DEF LocksSum, LockSums, Locks
  <2> QED
    BY <2>3, <2>4
<1> QED
  BY <1>1, <1>2, TypeCorrect, PTL DEF Spec

\* The vault's lockedQuote is exactly what its groups have reserved and
\* buffered (_applyIssue, onBurn, onFinalize and the buffer calls move ledger
\* and lock by the same amount), also while swaps are in flight.
THEOREM LockTheorem == Spec => []LockedIsReserved
<1>1. LocksSum => LockedIsReserved
  BY LockNow DEF LocksSum, Ledgers, LockedIsReserved, Locks, Reserved
<1> QED
  BY <1>1, LocksSumInvariant, PTL

-----------------------------------------------------------------------------
(***************************************************************************)
(* Reserves.  What a group has reserved covers the claims sold against it, *)
(* and an issue the market prices is always backed.                        *)
(***************************************************************************)

\* What onFinalize, _applyIssue and onBurn leave a group's reserve at.
GroupBacked(g, gs) ==
    IF gs.finalized
    THEN gs.reserveLocked = FinalLiability(gs.outstanding, gs.ppu)
    ELSE gs.reserveLocked = GroupReserve(g, gs.outstanding)

\* The inductive invariant: so it is now, and so it is in every state that a
\* revert may restore.
Backed ==
    /\ \A g \in Groups : GroupBacked(g, group[g])
    /\ \A i \in 1..Len(stack) : \A g \in Groups : GroupBacked(g, stack[i].saved.group[g])

LEMMA GroupReserveValue ==
    ASSUME NEW g \in Groups, NEW out \in UnitsBySide
    PROVE  GroupReserve(g, out) =
              Reserve(out["HIGH"], out["CALM"], Params[g].capPayoutPerUnit)
  BY DEF GroupReserve

\* The reserve of a live group covers every outcome.
LEMMA ReserveCoversPayouts ==
    ASSUME NEW g \in Groups, NEW out \in UnitsBySide, NEW x \in 0..WAD
    PROVE  FinalLiability(out, FinalPayouts(x, Params[g].capPayoutPerUnit))
              <= GroupReserve(g, out)
<1> DEFINE cap == Params[g].capPayoutPerUnit
           hp == FinalPayouts(x, cap)["HIGH"]
           cp == FinalPayouts(x, cap)["CALM"]
<1>1. cap \in Nat
  BY ParamTypes
<1>2. hp \in Nat /\ cp \in Nat /\ hp + cp = cap
  BY <1>1, PayoutsSplitCap DEF UnitsBySide, Sides
<1>3. out["HIGH"] \in Nat /\ out["CALM"] \in Nat
  BY DEF UnitsBySide, Sides
<1>4. FinalLiability(out, FinalPayouts(x, cap)) =
        FloorMul(out["HIGH"], hp) + FloorMul(out["CALM"], cp)
  BY DEF FinalLiability, FinalSideLiability
<1> HIDE DEF cap, hp, cp
<1>5. FloorMul(out["HIGH"], hp) + FloorMul(out["CALM"], cp)
        <= Reserve(out["HIGH"], out["CALM"], cap)
  BY <1>1, <1>2, <1>3, ReserveCoversOutcome
<1> QED
  BY <1>4, <1>5, GroupReserveValue DEF cap

\* Worthless units add nothing to what a group owes.
LEMMA WorthlessUnits ==
    ASSUME NEW u \in Nat
    PROVE  FloorMul(u, 0) = 0
<1>1. u * 0 = 0
  OBVIOUS
<1>2. 0 \div WAD = 0
  BY WADAssumption
<1> QED
  BY <1>1, <1>2 DEF FloorMul

-----------------------------------------------------------------------------
(* What a step does to the frames below *)

SavedBacked(f) == \A g \in Groups : GroupBacked(g, f.saved.group[g])

LEMMA BackedParts ==
    Backed <=> /\ \A g \in Groups : GroupBacked(g, group[g])
               /\ \A i \in 1..Len(stack) : SavedBacked(stack[i])
  BY DEF Backed, SavedBacked

LEMMA BackedPartsPrime ==
    Backed' <=> /\ \A g \in Groups : GroupBacked(g, group'[g])
                /\ \A i \in 1..Len(stack') : SavedBacked(stack'[i])
  BY DEF Backed, SavedBacked, GroupBacked, FinalLiability, GroupReserve

\* Only group g changes, and it stays backed.
LEMMA OneGroupChanges ==
    ASSUME VarTypes, Backed, NEW g \in Groups, NEW gs,
           group' = [group EXCEPT ![g] = gs], GroupBacked(g, gs),
           \A i \in 1..Len(stack') : SavedBacked(stack'[i])
    PROVE  Backed'
<1>1. ASSUME NEW h \in Groups PROVE GroupBacked(h, group'[h])
  <2>1. group'[h] = IF h = g THEN gs ELSE group[h]
    BY DEF VarTypes
  <2> QED
    BY <2>1, BackedParts
<1> QED
  BY <1>1, BackedPartsPrime

LEMMA SameGroups ==
    ASSUME Backed, UNCHANGED group,
           \A i \in 1..Len(stack') : SavedBacked(stack'[i])
    PROVE  Backed'
  BY BackedParts, BackedPartsPrime

LEMMA SavedPush ==
    ASSUME VarTypes, Backed, NEW f, f.saved = Snapshot, EnterSwap(f)
    PROVE  \A i \in 1..Len(stack') : SavedBacked(stack'[i])
<1>1. stack' = Append(stack, f) /\ stack \in Seq(Frames)
  BY DEF EnterSwap, VarTypes
<1>2. /\ Len(stack) \in Nat /\ Len(stack') = Len(stack) + 1
      /\ stack'[Len(stack) + 1] = f
      /\ \A i \in 1..Len(stack) : stack'[i] = stack[i]
  BY <1>1
<1>3. SavedBacked(f)
  BY BackedParts DEF SavedBacked, Snapshot
<1>4. ASSUME NEW i \in 1..Len(stack') PROVE SavedBacked(stack'[i])
  <2>1. i = Len(stack) + 1 \/ i \in 1..Len(stack)
    BY <1>2
  <2> QED
    BY <2>1, <1>2, <1>3, BackedParts
<1> QED
  BY <1>4

LEMMA SavedTransfer ==
    ASSUME VarTypes, Backed, stack # << >>, TransferDone
    PROVE  \A i \in 1..Len(stack') : SavedBacked(stack'[i])
<1>1. /\ Len(stack) \in Nat \ {0} /\ Top \in Frames
      /\ Len(Below) = Len(stack) - 1
      /\ \A i \in 1..(Len(stack) - 1) : Below[i] = stack[i]
      /\ Top = stack[Len(stack)]
  BY StackTop DEF VarTypes, Top
<1>2. \A i \in 1..Len(stack) : SavedBacked(stack[i])
  BY BackedParts
<1>3. Top.stage \in {"first", "second"}
  BY <1>1 DEF Frames
<1>4. CASE Top.stage = "first"
  <2> DEFINE f == [Top EXCEPT !.stage = "second"]
  <2>1. f.saved = Top.saved /\ f \in Frames
    BY <1>1, NextStage DEF Frames
  <2>2. /\ Len(stack') = Len(stack)
        /\ \A i \in 1..(Len(stack) - 1) : stack'[i] = stack[i]
        /\ stack'[Len(stack)] = f
    BY <1>4, <2>1, AfterTransfer DEF VarTypes
  <2> HIDE DEF f
  <2>3. SavedBacked(f)
    BY <2>1, <1>1, <1>2 DEF SavedBacked
  <2>4. ASSUME NEW i \in 1..Len(stack') PROVE SavedBacked(stack'[i])
    <3>1. i = Len(stack) \/ i \in 1..(Len(stack) - 1)
      BY <2>2, <1>1
    <3>2. \A j \in 1..(Len(stack) - 1) : j \in 1..Len(stack)
      BY <1>1
    <3> QED
      BY <3>1, <3>2, <2>2, <2>3, <1>2
  <2> QED
    BY <2>4
<1>5. CASE Top.stage = "second"
  <2>1. stack' = Below
    BY <1>1, <1>5, NextStage, AfterTransfer DEF VarTypes
  <2>2. ASSUME NEW i \in 1..Len(stack') PROVE SavedBacked(stack'[i])
    <3>1. i \in 1..(Len(stack) - 1) /\ i \in 1..Len(stack)
      BY <2>1, <1>1
    <3> QED
      BY <3>1, <2>1, <1>1, <1>2
  <2> QED
    BY <2>2
<1> QED
  BY <1>3, <1>4, <1>5

LEMMA SavedSame ==
    ASSUME Backed, UNCHANGED stack
    PROVE  \A i \in 1..Len(stack') : SavedBacked(stack'[i])
  BY BackedParts

-----------------------------------------------------------------------------
(* The steps *)

LEMMA SwapIssueBacked ==
    ASSUME VarTypes, Backed, NEW g \in Groups, NEW s \in Sides,
           NEW exactIn \in BOOLEAN, NEW amount \in Nat, NEW inFirst \in BOOLEAN,
           SwapIssue(g, s, exactIn, amount, inFirst)
    PROVE  Backed'
<1> DEFINE units == IssueFill(g, s, exactIn, amount).units
           premium == IssueFill(g, s, exactIn, amount).premium
           f == Frame(g, "ISSUE", s, premium, units, inFirst)
           out == [group[g].outstanding EXCEPT ![s] = @ + units]
           gs == [group[g] EXCEPT !.outstanding = out, !.reserveLocked = GroupReserve(g, out)]
<1>1. EnterSwap(f) /\ f.saved = Snapshot /\ ~group[g].finalized
  BY DEF SwapIssue, Frame
<1>2. group' = [group EXCEPT ![g] = gs]
  BY DEF SwapIssue, ApplyIssue
<1> HIDE DEF f, out
<1>3. /\ gs.finalized = group[g].finalized /\ gs.outstanding = out
      /\ gs.reserveLocked = GroupReserve(g, out)
  BY GroupFields DEF GroupState
<1> HIDE DEF gs
<1>4. GroupBacked(g, gs)
  BY <1>1, <1>3 DEF GroupBacked
<1>5. \A i \in 1..Len(stack') : SavedBacked(stack'[i])
  BY <1>1, SavedPush
<1> QED
  BY <1>2, <1>4, <1>5, OneGroupChanges

LEMMA SwapBurnBacked ==
    ASSUME VarTypes, Backed, NEW g \in Groups, NEW s \in Sides,
           NEW u \in Nat, NEW inFirst \in BOOLEAN,
           SwapExit(g, s, u, inFirst) \/ SwapSettle(g, s, u, inFirst)
    PROVE  Backed'
<1>1. PICK kind, units, paid :
        kind \in {"EXIT", "SETTLE"} /\ EnterSwap(Frame(g, kind, s, units, paid, inFirst))
  BY DEF SwapExit, SwapSettle
<1> DEFINE f == Frame(g, kind, s, units, paid, inFirst)
<1>2. EnterSwap(f) /\ f.saved = Snapshot
  BY <1>1 DEF Frame
<1> HIDE DEF f
<1>3. \A i \in 1..Len(stack') : SavedBacked(stack'[i])
  BY <1>2, SavedPush
<1>4. UNCHANGED group
  BY DEF SwapExit, SwapSettle, chain
<1> QED
  BY <1>3, <1>4, SameGroups

\* onBurn leaves the group it burns for backed.
LEMMA OnBurnBacked ==
    ASSUME VarTypes, NEW f \in Frames, OnBurn(f)
    PROVE  \E gs : group' = [group EXCEPT ![f.group] = gs] /\ GroupBacked(f.group, gs)
<1> DEFINE g == f.group
           out == [group[g].outstanding EXCEPT ![f.side] = @ - f.amountIn]
<1>1. g \in Groups
  BY DEF Frames
<1>2. CASE BurnExit(g, f.side, f.amountIn, f.amountOut)
  <2> DEFINE newReserve == GroupReserve(g, out)
             released == group[g].reserveLocked - newReserve
             draw == IF f.amountOut > released THEN f.amountOut - released ELSE 0
             gs == [group[g] EXCEPT !.exitBuffer = @ - draw,
                                    !.reserveLocked = newReserve,
                                    !.outstanding = out]
  <2>1. group' = [group EXCEPT ![g] = gs] /\ ~group[g].finalized
    <3>1. /\ group' = [group EXCEPT ![g].exitBuffer = @ - draw, ![g].reserveLocked = newReserve,
                                    ![g].outstanding[f.side] = @ - f.amountIn]
          /\ ~group[g].finalized
      BY <1>2 DEF BurnExit, ReserveAfterExit, ExitOpen
    <3> HIDE DEF newReserve, draw
    <3> QED
      BY ZenonT(60), <3>1
  <2> HIDE DEF out, newReserve, draw
  <2>2. /\ gs.finalized = group[g].finalized /\ gs.outstanding = out
        /\ gs.reserveLocked = newReserve
    BY <1>1, GroupFields DEF GroupState
  <2> HIDE DEF gs
  <2>3. GroupBacked(g, gs)
    BY <2>1, <2>2 DEF GroupBacked, newReserve
  <2> QED
    BY <2>1, <2>3
<1>3. CASE BurnSettle(g, f.side, f.amountIn, f.amountOut)
  <2> DEFINE newTotal == FinalLiability(out, group[g].ppu)
             gs == [group[g] EXCEPT !.outstanding = out, !.reserveLocked = newTotal]
  <2>1. group' = [group EXCEPT ![g] = gs] /\ group[g].finalized
    BY <1>3 DEF BurnSettle
  <2> HIDE DEF out, newTotal
  <2>2. /\ gs.finalized = group[g].finalized /\ gs.outstanding = out
        /\ gs.reserveLocked = newTotal /\ gs.ppu = group[g].ppu
    BY <1>1, GroupFields DEF GroupState
  <2> HIDE DEF gs
  <2>3. GroupBacked(g, gs)
    BY <2>1, <2>2 DEF GroupBacked, newTotal
  <2> QED
    BY <2>1, <2>3
<1> QED
  BY <1>2, <1>3 DEF OnBurn

LEMMA TransferBacked ==
    ASSUME VarTypes, Backed, TransferIn \/ TransferOut
    PROVE  Backed'
<1>1. stack # << >> /\ TransferDone
  BY DEF TransferIn, TransferOut, TransferInNext, TransferOutNext
<1>2. \A i \in 1..Len(stack') : SavedBacked(stack'[i])
  BY <1>1, SavedTransfer
<1>3. CASE UNCHANGED group
  BY <1>2, <1>3, SameGroups
<1>4. CASE OnBurn(Top)
  <2>1. Top \in Frames /\ Top.group \in Groups
    BY <1>1, StackTop DEF VarTypes, Frames
  <2> QED
    BY <1>2, <1>4, <2>1, OnBurnBacked, OneGroupChanges
<1> QED
  BY <1>3, <1>4 DEF TransferIn, TransferOut

LEMMA RevertBacked ==
    ASSUME VarTypes, Backed, Revert
    PROVE  Backed'
<1>1. /\ Len(stack) \in Nat \ {0}
      /\ Len(Below) = Len(stack) - 1
      /\ \A i \in 1..(Len(stack) - 1) : Below[i] = stack[i]
      /\ Top = stack[Len(stack)]
  BY StackTop DEF VarTypes, Revert, Top
<1>2. \A i \in 1..Len(stack) : SavedBacked(stack[i])
  BY BackedParts
<1>3. SavedBacked(Top)
  BY <1>1, <1>2
<1>4. ASSUME NEW i \in 1..Len(Below) PROVE SavedBacked(Below[i])
  BY <1>1, <1>2
<1>5. \A g \in Groups : GroupBacked(g, group'[g])
  BY <1>3 DEF Revert, SavedBacked
<1> QED
  BY <1>4, <1>5, BackedPartsPrime DEF Revert

LEMMA FinalizeBacked ==
    ASSUME VarTypes, Backed, NEW g \in Groups, NEW v \in Variances, Finalize(g, v)
    PROVE  Backed'
<1> DEFINE payouts == FinalPayouts(NormalizedOutcome(v, Params[g].capVariance),
                                   Params[g].capPayoutPerUnit)
           newLocked == FinalLiability(group[g].outstanding, payouts)
           gs == [group[g] EXCEPT !.finalized = TRUE, !.ppu = payouts,
                                  !.reserveLocked = newLocked, !.exitBuffer = 0]
<1>1. group' = [group EXCEPT ![g] = gs] /\ UNCHANGED stack
  BY DEF Finalize
<1> HIDE DEF payouts, newLocked
<1>2. /\ gs.finalized /\ gs.ppu = payouts /\ gs.reserveLocked = newLocked
      /\ gs.outstanding = group[g].outstanding
  BY GroupFields DEF GroupState
<1> HIDE DEF gs
<1>3. GroupBacked(g, gs)
  BY <1>2 DEF GroupBacked, newLocked
<1> QED
  BY <1>1, <1>3, SavedSame, OneGroupChanges

LEMMA BurnWorthlessBacked ==
    ASSUME VarTypes, Backed, NEW g \in Groups, NEW s \in Sides, NEW u \in Nat,
           BurnWorthless(g, s, u)
    PROVE  Backed'
<1> DEFINE out == [group[g].outstanding EXCEPT ![s] = @ - u]
           gs == [group[g] EXCEPT !.outstanding = out]
<1>1. /\ group' = [group EXCEPT ![g] = gs] /\ UNCHANGED stack
      /\ group[g].finalized /\ group[g].ppu[s] = 0 /\ u <= group[g].outstanding[s]
  BY DEF BurnWorthless
<1>2. FinalLiability(out, group[g].ppu) = FinalLiability(group[g].outstanding, group[g].ppu)
  <2>1. /\ group[g].outstanding[s] \in Nat /\ group[g].outstanding[s] - u \in Nat
        /\ group[g].outstanding \in UnitsBySide
    BY <1>1, GroupFields
  <2>2. out[s] = group[g].outstanding[s] - u
    BY <2>1 DEF UnitsBySide
  <2>3. \A t \in Sides : t # s => out[t] = group[g].outstanding[t]
    BY <2>1 DEF UnitsBySide
  <2>4. \A t \in Sides : FloorMul(out[t], group[g].ppu[t]) =
                            FloorMul(group[g].outstanding[t], group[g].ppu[t])
    BY <1>1, <2>1, <2>2, <2>3, WorthlessUnits
  <2> QED
    BY <2>4 DEF FinalLiability, FinalSideLiability, Sides
<1> HIDE DEF out
<1>3. /\ gs.finalized = group[g].finalized /\ gs.outstanding = out
      /\ gs.reserveLocked = group[g].reserveLocked /\ gs.ppu = group[g].ppu
  BY GroupFields DEF GroupState
<1> HIDE DEF gs
<1>4. GroupBacked(g, gs)
  BY <1>1, <1>2, <1>3, BackedParts DEF GroupBacked
<1> QED
  BY <1>1, <1>4, SavedSame, OneGroupChanges

\* Creation and the buffer calls keep what GroupBacked looks at.
LEMMA SameClaimsBacked ==
    ASSUME VarTypes, Backed, NEW g \in Groups, NEW gs,
           group' = [group EXCEPT ![g] = gs], UNCHANGED stack,
           gs.finalized = group[g].finalized, gs.outstanding = group[g].outstanding,
           gs.reserveLocked = group[g].reserveLocked, gs.ppu = group[g].ppu
    PROVE  Backed'
<1>1. GroupBacked(g, gs)
  BY BackedParts DEF GroupBacked
<1> QED
  BY <1>1, SavedSame, OneGroupChanges

LEMMA CreateGroupBacked ==
    ASSUME VarTypes, Backed, NEW g \in Groups, CreateGroup(g)
    PROVE  Backed'
<1> DEFINE gs == [group[g] EXCEPT !.created = TRUE]
<1>1. group' = [group EXCEPT ![g] = gs] /\ UNCHANGED stack
  BY DEF CreateGroup
<1>2. /\ gs.finalized = group[g].finalized /\ gs.outstanding = group[g].outstanding
      /\ gs.reserveLocked = group[g].reserveLocked /\ gs.ppu = group[g].ppu
  BY GroupFields DEF GroupState
<1> HIDE DEF gs
<1> QED
  BY <1>1, <1>2, SameClaimsBacked

LEMMA VaultCallBacked ==
    ASSUME VarTypes, Backed, VaultCall
    PROVE  Backed'
<1>1. UNCHANGED stack
  BY DEF VaultCall, VaultDeposit, VaultWithdrawFree, AllocateExitBuffer,
         FundExitBuffer, WithdrawExitBuffer
<1>2. \/ UNCHANGED group
      \/ \E g \in Groups : \E b :
            group' = [group EXCEPT ![g] = [group[g] EXCEPT !.exitBuffer = b]]
  <2>1. ASSUME NEW a, NEW g \in Groups,
               AllocateExitBuffer(g, a) \/ FundExitBuffer(g, a)
        PROVE  group' = [group EXCEPT ![g] =
                            [group[g] EXCEPT !.exitBuffer = group[g].exitBuffer + a]]
    BY <2>1 DEF AllocateExitBuffer, FundExitBuffer, CreditBuffer
  <2>2. ASSUME NEW a, NEW g \in Groups, WithdrawExitBuffer(g, a)
        PROVE  group' = [group EXCEPT ![g] =
                            [group[g] EXCEPT !.exitBuffer = group[g].exitBuffer - a]]
    BY <2>2 DEF WithdrawExitBuffer
  <2> QED
    BY <2>1, <2>2 DEF VaultCall, VaultDeposit, VaultWithdrawFree
<1>3. CASE UNCHANGED group
  BY <1>1, <1>3, SavedSame, SameGroups
<1>4. ASSUME NEW g \in Groups, NEW b,
             group' = [group EXCEPT ![g] = [group[g] EXCEPT !.exitBuffer = b]]
      PROVE  Backed'
  <2> DEFINE gs == [group[g] EXCEPT !.exitBuffer = b]
  <2>1. /\ gs.finalized = group[g].finalized /\ gs.outstanding = group[g].outstanding
        /\ gs.reserveLocked = group[g].reserveLocked /\ gs.ppu = group[g].ppu
    BY GroupFields DEF GroupState
  <2>2. group' = [group EXCEPT ![g] = gs]
    BY <1>4
  <2> HIDE DEF gs
  <2> QED
    BY <1>1, <2>1, <2>2, SameClaimsBacked
<1> QED
  BY <1>2, <1>3, <1>4

LEMMA NextBacked ==
    ASSUME VarTypes, Backed, [Next]_vars
    PROVE  Backed'
<1>1. ASSUME NEW g \in Groups, CreateGroup(g) PROVE Backed'
  BY <1>1, CreateGroupBacked
<1>2. CASE SwapCall
  <2>1. Amounts \subseteq Nat /\ UnitAmounts \subseteq Nat
    BY InputsAssumption
  <2>2. PICK g \in Groups, s \in Sides, inFirst \in BOOLEAN :
          \/ \E a \in Amounts : SwapIssue(g, s, TRUE, a, inFirst)
          \/ \E u \in UnitAmounts :
              \/ SwapIssue(g, s, FALSE, u, inFirst)
              \/ SwapExit(g, s, u, inFirst)
              \/ SwapSettle(g, s, u, inFirst)
    BY <1>2 DEF SwapCall
  <2>3. ASSUME NEW exactIn \in BOOLEAN, NEW a \in Nat,
               SwapIssue(g, s, exactIn, a, inFirst)
        PROVE  Backed'
    BY <2>3, SwapIssueBacked
  <2>4. ASSUME NEW u \in Nat, SwapExit(g, s, u, inFirst) \/ SwapSettle(g, s, u, inFirst)
        PROVE  Backed'
    BY <2>4, SwapBurnBacked
  <2> QED
    BY <2>1, <2>2, <2>3, <2>4
<1>3. CASE TransferIn \/ TransferOut
  BY <1>3, TransferBacked
<1>4. CASE Revert
  BY <1>4, RevertBacked
<1>5. ASSUME NEW g \in Groups, NEW v \in Variances, Finalize(g, v) PROVE Backed'
  BY <1>5, FinalizeBacked
<1>6. CASE ReceiptCall
  <2>1. ASSUME NEW g \in Groups, NEW s \in Sides, NEW u \in Nat, BurnWorthless(g, s, u)
        PROVE  Backed'
    BY <2>1, BurnWorthlessBacked
  <2>2. ASSUME NEW g, NEW s, NEW u, ReceiptTransferToVault(g, s, u) PROVE Backed'
    BY <2>2, SavedSame, SameGroups DEF ReceiptTransferToVault
  <2>3. UnitAmounts \subseteq Nat
    BY InputsAssumption
  <2> QED
    BY <1>6, <2>1, <2>2, <2>3 DEF ReceiptCall
<1>7. CASE VaultCall
  BY <1>7, VaultCallBacked
<1>8. CASE Tick \/ UNCHANGED vars
  <2>1. UNCHANGED <<group, stack>>
    BY <1>8 DEF Tick, vars, chain
  <2> QED
    BY <2>1, SavedSame, SameGroups
<1> QED
  BY <1>1, <1>2, <1>3, <1>4, <1>5, <1>6, <1>7, <1>8 DEF Next

-----------------------------------------------------------------------------
(* The theorems *)

\* A group without claims reserves nothing.
LEMMA NothingReserved ==
    ASSUME NEW g \in Groups
    PROVE  GroupReserve(g, Zero) = 0
<1> DEFINE cap == Params[g].capPayoutPerUnit
           q == (WAD - 1) \div WAD
<1>1. cap \in Nat /\ WAD - 1 \in Nat
  BY ParamTypes, WADAssumption
<1>2. q \in Nat /\ q * WAD <= WAD - 1
  BY <1>1, DivBounds
<1>3. q = 0
  <2> HIDE DEF q
  <2>1. 1 <= q => WAD <= q * WAD
    BY <1>2, WADAssumption
  <2> QED
    BY <1>2, <2>1, WADAssumption
<1>4. 0 * cap + WAD - 1 = WAD - 1
  BY <1>1, WADAssumption
<1>5. Zero["HIGH"] = 0 /\ Zero["CALM"] = 0
  BY DEF Zero, Sides
<1>6. GroupReserve(g, Zero) = CeilMul(0, cap)
  BY <1>5 DEF GroupReserve, Reserve, MaxOf
<1> QED
  BY <1>3, <1>4, <1>6 DEF CeilMul

\* A live group's reserve is the reserve of its outstanding claims, a
\* finalized group's is what they are worth, in every state a transaction
\* leaves behind or a revert restores.
THEOREM BackedAlways == Spec => []Backed
<1>1. Init => Backed
  <2> SUFFICES ASSUME Init PROVE Backed
    OBVIOUS
  <2>1. ASSUME NEW g \in Groups PROVE GroupBacked(g, group[g])
    <3>1. group[g] = EmptyGroup
      BY DEF Init
    <3>2. ~EmptyGroup.finalized /\ EmptyGroup.reserveLocked = 0 /\ EmptyGroup.outstanding = Zero
      BY DEF EmptyGroup
    <3> QED
      BY <3>1, <3>2, NothingReserved DEF GroupBacked
  <2>2. Len(stack) = 0
    BY DEF Init
  <2> QED
    BY <2>1, <2>2 DEF Backed
<1>2. TypeOK /\ Backed /\ [Next]_vars => Backed'
  BY NextBacked, TypeOKByVariable
<1> QED
  BY <1>1, <1>2, TypeCorrect, PTL DEF Spec

\* The reserve of a group covers the most its outstanding claims can extract
\* at any outcome (_applyIssue and _reserveAfterExit keep it at
\* PortfolioMath.reserve), and exactly what they are worth once onFinalize has
\* fixed the payouts.
THEOREM ReserveTheorem == Spec => []ReserveCoversClaims
<1>1. TypeOK /\ Backed => ReserveCoversClaims
  <2> SUFFICES ASSUME VarTypes, Backed, NEW g \in Groups
               PROVE  IF group[g].finalized
                      THEN group[g].reserveLocked =
                              FinalLiability(group[g].outstanding, group[g].ppu)
                      ELSE \A x \in 0..WAD :
                              group[g].reserveLocked >=
                                 FinalLiability(group[g].outstanding,
                                    FinalPayouts(x, Params[g].capPayoutPerUnit))
    BY TypeOKByVariable DEF ReserveCoversClaims
  <2>1. GroupBacked(g, group[g])
    BY DEF Backed
  <2>2. CASE group[g].finalized
    BY <2>1, <2>2 DEF GroupBacked
  <2>3. CASE ~group[g].finalized
    <3>1. group[g].reserveLocked = GroupReserve(g, group[g].outstanding)
      BY <2>1, <2>3 DEF GroupBacked
    <3>2. ASSUME NEW x \in 0..WAD
          PROVE  group[g].reserveLocked >=
                    FinalLiability(group[g].outstanding,
                                   FinalPayouts(x, Params[g].capPayoutPerUnit))
      <4>1. x \in Nat /\ x <= WAD
        BY WADAssumption
      <4>2. FinalPayouts(x, Params[g].capPayoutPerUnit) \in UnitsBySide
        BY ParamTypes, PayoutsSplitCap
      <4>3. FinalLiability(group[g].outstanding,
                           FinalPayouts(x, Params[g].capPayoutPerUnit)) \in Nat
        BY <4>2, GroupFields, FinalLiabilityNat
      <4>4. FinalLiability(group[g].outstanding,
                           FinalPayouts(x, Params[g].capPayoutPerUnit))
              <= GroupReserve(g, group[g].outstanding)
        BY GroupFields, ReserveCoversPayouts
      <4>5. group[g].reserveLocked \in Nat
        BY GroupFields
      <4> QED
        BY <3>1, <4>3, <4>4, <4>5
    <3> QED
      BY <2>3, <3>2
  <2> QED
    BY <2>2, <2>3
<1> QED
  BY <1>1, TypeCorrect, BackedAlways, PTL

\* What raising one side does to the reserve.
LEMMA ReserveOneSide ==
    ASSUME NEW self \in Nat, NEW other \in Nat, NEW u \in Nat, NEW free \in Nat,
           NEW cap \in Nat \ {0},
           self + u <= MaxSideUnits(Reserve(self, other, cap), free, cap)
    PROVE  /\ Reserve(self, other, cap) <= Reserve(self + u, other, cap)
           /\ Reserve(self + u, other, cap) <= Reserve(self, other, cap) + free
<1> DEFINE old == Reserve(self, other, cap)
<1>1. old \in Nat
  BY ReserveNat
<1>2. MaxOf(self, other) \in Nat /\ MaxOf(self + u, other) \in Nat
      /\ MaxOf(self, other) <= MaxOf(self + u, other)
  BY DEF MaxOf
<1>3. Reserve(self, other, cap) <= Reserve(self + u, other, cap)
  BY <1>2, CeilMonotone DEF Reserve
<1>4. CASE self + u > other
  <2>1. Reserve(self + u, other, cap) = CeilMul(self + u, cap)
    BY <1>4 DEF Reserve, MaxOf
  <2> HIDE DEF old
  <2>2. self + u \in Nat /\ self + u <= MaxSideUnits(old, free, cap)
    BY DEF old
  <2>3. CeilMul(self + u, cap) <= old + free
    BY <1>1, <2>2, CapacityCovers
  <2> QED
    BY <1>3, <2>1, <2>3 DEF old
<1>5. CASE ~(self + u > other)
  <2>1. MaxOf(self + u, other) = other /\ MaxOf(self, other) = other
    BY <1>5 DEF MaxOf
  <2>2. Reserve(self + u, other, cap) = old
    BY <2>1 DEF Reserve
  <2> HIDE DEF old
  <2>3. old <= old + free
    BY <1>1
  <2> QED
    BY <1>3, <2>2, <2>3 DEF old
<1> QED
  BY <1>4, <1>5

LEMMA ReserveSymmetric ==
    ASSUME NEW a \in Nat, NEW b \in Nat, NEW cap \in Nat
    PROVE  Reserve(a, b, cap) = Reserve(b, a, cap)
  BY DEF Reserve, MaxOf

\* A fill that _priceIssue cuts to the capacity passes _applyIssue and the
\* vault's increaseLocked.
LEMMA FillIsBacked ==
    ASSUME VarTypes, Backed, NEW g \in Groups, NEW s \in Sides,
           NEW exactIn \in BOOLEAN, NEW a \in Nat,
           ~group[g].finalized, IssueFill(g, s, exactIn, a).units > 0
    PROVE  LET units == IssueFill(g, s, exactIn, a).units
               delta == GroupReserve(g, [group[g].outstanding EXCEPT ![s] = @ + units])
                            - group[g].reserveLocked
           IN  /\ delta >= 0
               /\ delta > 0 => balance >= lockedQuote + delta
<1> DEFINE cap == Params[g].capPayoutPerUnit
           self == group[g].outstanding[s]
           t == IF s = "HIGH" THEN "CALM" ELSE "HIGH"
           other == group[g].outstanding[t]
           units == IssueFill(g, s, exactIn, a).units
           out == [group[g].outstanding EXCEPT ![s] = @ + units]
           old == group[g].reserveLocked
           new == GroupReserve(g, out)
<1>1. /\ cap \in Nat \ {0} /\ self \in Nat /\ other \in Nat /\ t \in Sides
      /\ group[g].outstanding \in UnitsBySide
  BY ParamTypes, GroupFields DEF Sides
<1>2. units \in Nat /\ units > 0
  BY IssueFillNat
<1>3. FreeQuote \in Nat
  BY DEF FreeQuote, VarTypes
<1>4. old = GroupReserve(g, group[g].outstanding) /\ old \in Nat
  BY GroupFields DEF Backed, GroupBacked
<1>5. old = Reserve(self, other, cap)
  BY <1>1, <1>4, ReserveSymmetric DEF GroupReserve, Sides
<1>6. self + units <= MaxSideUnits(old, FreeQuote, cap)
  <2> DEFINE maxSelf == MaxSideUnits(old, FreeQuote, cap)
             capacity == IF maxSelf > self THEN maxSelf - self ELSE 0
             maxFill == MinOf(aqua[g]["ISSUE"][s], capacity)
             asked == IF exactIn THEN IssueUnitsFor(a, Params[g].ask[s]) ELSE a
  <2>1. units = MinOf(asked, maxFill)
    BY DEF IssueFill
  <2>2. maxSelf \in Nat
    <3>1. (old + FreeQuote) * WAD \in Nat
      BY <1>3, <1>4, WADAssumption
    <3> QED
      BY <1>1, <3>1 DEF MaxSideUnits
  <2>3. asked \in Nat
    <3>1. a * WAD \in Nat /\ Params[g].ask[s] \in Nat \ {0}
      BY ParamTypes, WADAssumption
    <3> QED
      BY <3>1 DEF IssueUnitsFor
  <2>4. aqua[g]["ISSUE"][s] \in Nat
    BY DEF VarTypes, UnitsBySide, Kinds
  <2> HIDE DEF maxSelf, asked, units, self, old
  <2>5. capacity \in Nat /\ (capacity > 0 => self + capacity = maxSelf)
    BY <1>1, <2>2
  <2>6. units <= capacity
    <3> HIDE DEF capacity
    <3> QED
      BY <2>1, <2>3, <2>4, <2>5 DEF MinOf
  <2> HIDE DEF capacity
  <2>7. self + units <= maxSelf
    BY <1>1, <1>2, <2>2, <2>5, <2>6
  <2> QED
    BY <2>7 DEF maxSelf
<1>7. new = Reserve(self + units, other, cap)
  <2>1. out \in UnitsBySide /\ out[s] = self + units /\ out[t] = other
    BY <1>1, <1>2 DEF UnitsBySide, Sides
  <2>2. self + units \in Nat
    BY <1>1, <1>2
  <2> HIDE DEF out, self, units, other
  <2> QED
    BY <1>1, <2>1, <2>2, ReserveSymmetric DEF GroupReserve, Sides
<1>8. new \in Nat /\ old <= new /\ new <= old + FreeQuote
  <2>1. self + units \in Nat
    BY <1>1, <1>2
  <2>2. Reserve(self + units, other, cap) \in Nat
    BY <1>1, <2>1, ReserveNat
  <2> HIDE DEF self, units, other, old, new, cap
  <2> QED
    BY <1>1, <1>2, <1>3, <1>5, <1>6, <1>7, <2>2, ReserveOneSide
<1> HIDE DEF old, new
<1>9. new - old >= 0
  BY <1>4, <1>8
<1>10. new - old > 0 => balance >= lockedQuote + (new - old)
  BY <1>3, <1>4, <1>8 DEF FreeQuote, VarTypes
<1> QED
  BY <1>9, <1>10 DEF old, new

\* An issue that _priceIssue lets through never fails in _applyIssue.
THEOREM IssueTheorem == Spec => []IssueBacked
<1>1. TypeOK /\ Backed => IssueBacked
  <2>1. Amounts \cup UnitAmounts \subseteq Nat
    BY InputsAssumption
  <2> SUFFICES ASSUME VarTypes, Backed, NEW g \in Groups, NEW s \in Sides,
                      NEW exactIn \in BOOLEAN, NEW a \in Amounts \cup UnitAmounts,
                      group[g].created /\ ~group[g].finalized,
                      IssueFill(g, s, exactIn, a).units > 0
               PROVE  LET units == IssueFill(g, s, exactIn, a).units
                          delta == GroupReserve(g, [group[g].outstanding
                                                      EXCEPT ![s] = @ + units])
                                      - group[g].reserveLocked
                      IN  /\ delta >= 0
                          /\ delta > 0 => balance >= lockedQuote + delta
    BY TypeOKByVariable DEF IssueBacked
  <2>2. a \in Nat
    BY <2>1
  <2> QED
    BY <2>2, FillIsBacked
<1> QED
  BY <1>1, TypeCorrect, BackedAlways, PTL

-----------------------------------------------------------------------------
(***************************************************************************)
(* Receipts.  A swap is two transfers, and between them its receipts and   *)
(* its payment are out of step.  The invariant says by how much: by the    *)
(* half of it that is done.                                                *)
(***************************************************************************)

-----------------------------------------------------------------------------
(* Rounding *)

\* What is rounded down never exceeds what is rounded up at no lower price.
LEMMA FloorWithinCeil ==
    ASSUME NEW u \in Nat, NEW p \in Nat, NEW q \in Nat, p <= q
    PROVE  FloorMul(u, p) <= CeilMul(u, q)
<1> DEFINE a == FloorMul(u, p)
           b == CeilMul(u, q)
<1>1. a \in Nat /\ b \in Nat
  BY FloorNat, CeilNat
<1>2. a * WAD < b * WAD + WAD
  <2> DEFINE aw == a * WAD
             bw == b * WAD
             up == u * p
             uq == u * q
  <2>1. aw \in Int /\ bw \in Int /\ up \in Int /\ uq \in Int
    BY <1>1, WADAssumption
  <2>2. aw <= up /\ uq <= bw
    BY FloorBounds, CeilBounds
  <2>3. up <= uq
    <3>1. p * u <= q * u
      BY TimesMonotone
    <3> QED
      BY <3>1
  <2> HIDE DEF aw, bw, up, uq
  <2>4. aw < bw + WAD
    BY <2>1, <2>2, <2>3, WADAssumption
  <2> QED
    BY <2>4 DEF aw, bw
<1> QED
  BY <1>1, <1>2, TimesWADCancels

\* Rounding down is monotone in the price.
LEMMA FloorMonotonePrice ==
    ASSUME NEW u \in Nat, NEW p \in Nat, NEW q \in Nat, p <= q
    PROVE  FloorMul(u, p) <= FloorMul(u, q)
<1>1. u * p = p * u /\ u * q = q * u
  OBVIOUS
<1>2. FloorMul(u, p) = FloorMul(p, u) /\ FloorMul(u, q) = FloorMul(q, u)
  BY <1>1 DEF FloorMul
<1> QED
  BY <1>2, FloorMonotone

-----------------------------------------------------------------------------
(* The inductive invariant *)

\* Receipts of a side, wherever they are.
Units(v, g, s) == v.held[g][s] + v.inventory[g][s]

\* The most a receipt of a side can settle for.
Worth(v, g, s) ==
    IF v.group[g].finalized THEN v.group[g].ppu[s] ELSE Params[g].capPayoutPerUnit

\* The receipts of a side are accounted for, and what Aqua may still pay of
\* its two outgoing orders covers all of them, given what its swaps in flight
\* have done by halves.
SideSound(v, g, s, issue, exit, settle) ==
    /\ ~v.group[g].created =>
        /\ ~v.group[g].finalized
        /\ v.held[g][s] = 0 /\ v.inventory[g][s] = 0 /\ v.aqua[g]["ISSUE"][s] = 0
    /\ v.held[g][s] + issue <= v.group[g].outstanding[s]
    /\ Units(v, g, s) + issue = v.aqua[g]["ISSUE"][s] + v.group[g].outstanding[s]
    /\ v.aqua[g]["EXIT"][s] + exit >= ExitProceeds(Units(v, g, s), Params[g].bid[s])
    /\ v.aqua[g]["SETTLE"][s] + settle >= SettleProceeds(Units(v, g, s), Worth(v, g, s))

\* A swap in flight pays no more than its units are worth.
FrameSound(v, f) ==
    /\ v.group[f.group].created
    /\ f.kind = "EXIT" =>
        f.amountOut <= ExitProceeds(f.amountIn, Params[f.group].bid[f.side])
    /\ f.kind = "SETTLE" =>
        /\ v.group[f.group].finalized
        /\ f.amountOut <= SettleProceeds(f.amountIn, v.group[f.group].ppu[f.side])

\* The ledger v is sound with the first n swaps in flight.
ClaimsHold(v, stk, n) ==
    /\ \A g \in Groups, s \in Sides :
        SideSound(v, g, s, Pending(stk, n, g, "ISSUE", s), Pending(stk, n, g, "EXIT", s),
                  Pending(stk, n, g, "SETTLE", s))
    /\ \A i \in 1..n : FrameSound(v, stk[i])

\* So it is now, and so it was when each swap in flight began.
ClaimsKept ==
    /\ OneSwapPerOrder
    /\ ClaimsHold(Snapshot, stack, Len(stack))
    /\ \A i \in 1..Len(stack) : ClaimsHold(stack[i].saved, stack, i - 1)

LEMMA ClaimsKeptPrime ==
    ClaimsKept' <=>
        /\ OneSwapPerOrder'
        /\ ClaimsHold(Snapshot', stack', Len(stack'))
        /\ \A i \in 1..Len(stack') : ClaimsHold(stack'[i].saved, stack', i - 1)
  BY DEF ClaimsKept, ClaimsHold, SideSound, FrameSound, Units, Worth, Pending, Half, Ahead, Of,
         Snapshot

LEMMA HoldPrefix ==
    ASSUME NEW v, NEW stk, NEW t, NEW n, \A i \in 1..n : stk[i] = t[i],
           ClaimsHold(v, stk, n)
    PROVE  ClaimsHold(v, t, n)
<1>1. \A g, kind, s : Pending(stk, n, g, kind, s) = Pending(t, n, g, kind, s)
  BY PendingPrefix
<1> QED
  BY <1>1 DEF ClaimsHold

-----------------------------------------------------------------------------
(* What a step does to the swaps in flight *)

\* The step leaves every side sound, with half done of f.
SidesSound(f, half) ==
    \A g \in Groups, s \in Sides :
        SideSound(Snapshot', g, s, After(f, half, g, "ISSUE", s),
                  After(f, half, g, "EXIT", s), After(f, half, g, "SETTLE", s))

FramesStaySound == \A i \in 1..Len(stack) : FrameSound(Snapshot', stack[i])

LEMMA KeptCall ==
    ASSUME ClaimsKept, UNCHANGED stack, FramesStaySound,
           \A g \in Groups, s \in Sides :
               SideSound(Snapshot', g, s, Now(g, "ISSUE", s), Now(g, "EXIT", s),
                         Now(g, "SETTLE", s))
    PROVE  ClaimsKept'
<1>1. ClaimsHold(Snapshot', stack', Len(stack'))
  BY DEF ClaimsHold, Now, FramesStaySound
<1>2. OneSwapPerOrder'
  BY DEF ClaimsKept, OneSwapPerOrder
<1>3. \A i \in 1..Len(stack') : ClaimsHold(stack'[i].saved, stack', i - 1)
  BY DEF ClaimsKept
<1> QED
  BY <1>1, <1>2, <1>3, ClaimsKeptPrime

LEMMA KeptPush ==
    ASSUME VarTypes, ClaimsKept, NEW f, f.saved = Snapshot,
           EnterSwap(f), ~Locked(f.group, f.kind, f.side),
           FramesStaySound, FrameSound(Snapshot', f), SidesSound(f, Half(f))
    PROVE  ClaimsKept'
<1> DEFINE n == Len(stack)
<1>1. /\ n \in Nat /\ Len(stack') = n + 1
      /\ stack'[n + 1] = f
      /\ \A i \in 1..n : stack'[i] = stack[i]
      /\ OneSwapPerOrder'
      /\ \A g, kind, s :
            Pending(stack', Len(stack'), g, kind, s) = After(f, Half(f), g, kind, s)
  <2>1. stack \in Seq(Frames) /\ OneSwapPerOrder
    BY DEF VarTypes, ClaimsKept
  <2> QED
    BY <2>1, SwapBegins
<1> HIDE DEF n
<1>2. \A i \in 1..(n + 1) : i = n + 1 \/ i \in 1..n
  BY <1>1
<1>3. ClaimsHold(Snapshot', stack', Len(stack'))
  <2>1. \A i \in 1..(n + 1) : FrameSound(Snapshot', stack'[i])
    BY <1>1, <1>2 DEF FramesStaySound, n
  <2> QED
    BY <1>1, <2>1 DEF ClaimsHold, SidesSound
<1>4. ASSUME NEW i \in 1..(n + 1) PROVE ClaimsHold(stack'[i].saved, stack', i - 1)
  <2>1. CASE i \in 1..n
    <3>1. \A j \in 1..(i - 1) : stack[j] = stack'[j]
      BY <1>1, <2>1
    <3>2. ClaimsHold(stack[i].saved, stack, i - 1)
      BY <2>1 DEF ClaimsKept, n
    <3>3. ClaimsHold(stack[i].saved, stack', i - 1)
      BY <3>1, <3>2, HoldPrefix
    <3> QED
      BY <1>1, <2>1, <3>3
  <2>2. CASE i = n + 1
    <3>1. ClaimsHold(Snapshot, stack, n)
      BY DEF ClaimsKept, n
    <3>2. ClaimsHold(Snapshot, stack', n)
      BY <1>1, <3>1, HoldPrefix
    <3>3. i - 1 = n /\ stack'[i].saved = Snapshot
      BY <1>1, <2>2
    <3> QED
      BY <3>2, <3>3
  <2> QED
    BY <1>2, <2>1, <2>2
<1> QED
  BY <1>1, <1>3, <1>4, ClaimsKeptPrime

LEMMA KeptRevert ==
    ASSUME VarTypes, ClaimsKept, Revert
    PROVE  ClaimsKept'
<1> DEFINE n == Len(stack) - 1
<1>1. /\ Len(stack) \in Nat \ {0} /\ n \in Nat /\ Len(stack') = n
      /\ \A i \in 1..n : stack'[i] = stack[i] /\ i \in 1..Len(stack)
      /\ Top = stack[Len(stack)] /\ Top \in Frames
      /\ OneSwapPerOrder'
  <2>1. stack \in Seq(Frames) /\ OneSwapPerOrder /\ stack # << >> /\ stack' = Below
    BY DEF VarTypes, ClaimsKept, Revert
  <2>2. /\ Len(stack) \in Nat \ {0} /\ Len(stack') = n
        /\ Top = stack[Len(stack)] /\ Top \in Frames
        /\ \A i \in 1..n : stack'[i] = stack[i]
        /\ OneSwapPerOrder'
    BY <2>1, SwapEnds
  <2> QED
    BY <2>2
<1>2. Snapshot' = Top.saved
  <2>1. Top.saved \in ChainState
    BY <1>1 DEF Frames
  <2> QED
    BY <2>1 DEF Snapshot, Revert, ChainState
<1>3. ClaimsHold(Snapshot', stack', n)
  <2>1. Len(stack) \in 1..Len(stack)
    BY <1>1
  <2>2. ClaimsHold(stack[Len(stack)].saved, stack, n)
    BY <2>1 DEF ClaimsKept
  <2> HIDE DEF n
  <2> QED
    BY <1>1, <1>2, <2>2, HoldPrefix
<1>4. ASSUME NEW i \in 1..n PROVE ClaimsHold(stack'[i].saved, stack', i - 1)
  <2>1. \A j \in 1..(i - 1) : stack[j] = stack'[j]
    BY <1>1
  <2>2. ClaimsHold(stack[i].saved, stack, i - 1)
    BY <1>1 DEF ClaimsKept
  <2>3. ClaimsHold(stack[i].saved, stack', i - 1)
    BY <2>1, <2>2, HoldPrefix
  <2> QED
    BY <1>1, <2>3
<1> QED
  BY <1>1, <1>3, <1>4, ClaimsKeptPrime

LEMMA TopHalf ==
    ASSUME VarTypes, ClaimsKept, stack # << >>
    PROVE  /\ Now(Top.group, Top.kind, Top.side) = Half(Top)
           /\ FrameSound(Snapshot, Top)
<1>1. stack \in Seq(Frames) /\ OneSwapPerOrder
  BY DEF VarTypes, ClaimsKept
<1>2. Now(Top.group, Top.kind, Top.side) = Half(Top)
  BY <1>1, TopPending
<1>3. Len(stack) \in 1..Len(stack) /\ Top = stack[Len(stack)]
  BY <1>1, ButLast DEF Top
<1>4. FrameSound(Snapshot, Top)
  BY <1>3 DEF ClaimsKept, ClaimsHold
<1> QED
  BY <1>2, <1>4

LEMMA KeptTransfer ==
    ASSUME VarTypes, ClaimsKept, stack # << >>, TransferDone,
           FramesStaySound, SidesSound(Top, NextHalf)
    PROVE  ClaimsKept'
<1> DEFINE f == [Top EXCEPT !.stage = "second"]
<1>1. stack \in Seq(Frames) /\ OneSwapPerOrder
  BY DEF VarTypes, ClaimsKept
<1>2. Top \in Frames
  BY <1>1, ButLast DEF Top
<1>3. f \in Frames /\ SameSwap(f, Top)
  BY <1>2, NextStage DEF Frames, SameSwap
<1>4. /\ OneSwapPerOrder'
      /\ \A i \in 1..Len(stack') :
            /\ i \in 1..Len(stack) /\ SameSwap(stack'[i], stack[i])
            /\ \A j \in 1..(i - 1) : stack[j] = stack'[j]
      /\ \A g, kind, s :
            Pending(stack', Len(stack'), g, kind, s) = After(Top, NextHalf, g, kind, s)
  BY <1>1, <1>3, SwapMoves
<1>5. ClaimsHold(Snapshot', stack', Len(stack'))
  <2>1. ASSUME NEW i \in 1..Len(stack') PROVE FrameSound(Snapshot', stack'[i])
    <3>1. FrameSound(Snapshot', stack[i]) /\ SameSwap(stack'[i], stack[i])
      BY <1>4 DEF FramesStaySound
    <3> QED
      BY <3>1 DEF FrameSound, SameSwap
  <2> QED
    BY <1>4, <2>1 DEF ClaimsHold, SidesSound
<1>6. ASSUME NEW i \in 1..Len(stack') PROVE ClaimsHold(stack'[i].saved, stack', i - 1)
  <2>1. i \in 1..Len(stack) /\ stack'[i].saved = stack[i].saved
    BY <1>4 DEF SameSwap
  <2>2. \A j \in 1..(i - 1) : stack[j] = stack'[j]
    BY <1>4
  <2>3. ClaimsHold(stack[i].saved, stack, i - 1)
    BY <2>1 DEF ClaimsKept
  <2> QED
    BY <2>1, <2>2, <2>3, HoldPrefix
<1> QED
  BY <1>4, <1>5, <1>6, ClaimsKeptPrime

-----------------------------------------------------------------------------
(* The steps *)

SoundNow(g, s) ==
    SideSound(Snapshot, g, s, Now(g, "ISSUE", s), Now(g, "EXIT", s), Now(g, "SETTLE", s))

LEMMA AllSound ==
    ASSUME ClaimsKept
    PROVE  \A g \in Groups, s \in Sides : SoundNow(g, s)
  BY DEF ClaimsKept, ClaimsHold, SoundNow, Now

LEMMA SideNow ==
    ASSUME NEW g, NEW s, NEW issue, NEW exit, NEW settle
    PROVE  SideSound(Snapshot, g, s, issue, exit, settle) <=>
        /\ ~group[g].created =>
            /\ ~group[g].finalized
            /\ held[g][s] = 0 /\ inventory[g][s] = 0 /\ aqua[g]["ISSUE"][s] = 0
        /\ held[g][s] + issue <= group[g].outstanding[s]
        /\ held[g][s] + inventory[g][s] + issue =
            aqua[g]["ISSUE"][s] + group[g].outstanding[s]
        /\ aqua[g]["EXIT"][s] + exit >=
            ExitProceeds(held[g][s] + inventory[g][s], Params[g].bid[s])
        /\ aqua[g]["SETTLE"][s] + settle >=
            SettleProceeds(held[g][s] + inventory[g][s],
                           IF group[g].finalized THEN group[g].ppu[s]
                           ELSE Params[g].capPayoutPerUnit)
  BY DEF SideSound, Snapshot, Units, Worth

LEMMA SideNext ==
    ASSUME NEW g, NEW s, NEW issue, NEW exit, NEW settle
    PROVE  SideSound(Snapshot', g, s, issue, exit, settle) <=>
        /\ ~group'[g].created =>
            /\ ~group'[g].finalized
            /\ held'[g][s] = 0 /\ inventory'[g][s] = 0 /\ aqua'[g]["ISSUE"][s] = 0
        /\ held'[g][s] + issue <= group'[g].outstanding[s]
        /\ held'[g][s] + inventory'[g][s] + issue =
            aqua'[g]["ISSUE"][s] + group'[g].outstanding[s]
        /\ aqua'[g]["EXIT"][s] + exit >=
            ExitProceeds(held'[g][s] + inventory'[g][s], Params[g].bid[s])
        /\ aqua'[g]["SETTLE"][s] + settle >=
            SettleProceeds(held'[g][s] + inventory'[g][s],
                           IF group'[g].finalized THEN group'[g].ppu[s]
                           ELSE Params[g].capPayoutPerUnit)
  BY DEF SideSound, Snapshot, Units, Worth

LEMMA NowType ==
    ASSUME VarTypes, NEW g, NEW s
    PROVE  /\ Now(g, "ISSUE", s) \in Nat
           /\ Now(g, "EXIT", s) \in Int
           /\ Now(g, "SETTLE", s) \in Int
<1>1. stack \in Seq(Frames) /\ Len(stack) \in 0..Len(stack)
  BY DEF VarTypes
<1> QED
  BY <1>1, FramesShaped, PendingType DEF Now

\* What a step keeps of a side.
SideKept(g, s) ==
    /\ group'[g].created = group[g].created
    /\ group'[g].finalized = group[g].finalized
    /\ group'[g].ppu[s] = group[g].ppu[s]
    /\ group'[g].outstanding[s] = group[g].outstanding[s]
    /\ held'[g][s] = held[g][s]
    /\ inventory'[g][s] = inventory[g][s]
    /\ \A kind \in Kinds : aqua'[g][kind][s] = aqua[g][kind][s]

LEMMA KeptSideSound ==
    ASSUME NEW g, NEW s, NEW issue, NEW exit, NEW settle, SideKept(g, s),
           SideSound(Snapshot, g, s, issue, exit, settle)
    PROVE  SideSound(Snapshot', g, s, issue, exit, settle)
<1>1. /\ aqua'[g]["ISSUE"][s] = aqua[g]["ISSUE"][s]
      /\ aqua'[g]["EXIT"][s] = aqua[g]["EXIT"][s]
      /\ aqua'[g]["SETTLE"][s] = aqua[g]["SETTLE"][s]
  BY DEF SideKept, Kinds
<1> QED
  BY <1>1, SideNow, SideNext DEF SideKept

\* No group is ever uncreated, reopened or repriced.
GroupsLive ==
    \A g \in Groups :
        /\ group[g].created => group'[g].created
        /\ group[g].finalized => group'[g].finalized /\ group'[g].ppu = group[g].ppu

LEMMA FrameLives ==
    ASSUME GroupsLive, NEW f \in Frames, FrameSound(Snapshot, f)
    PROVE  FrameSound(Snapshot', f)
<1>1. f.group \in Groups
  BY DEF Frames
<1> QED
  BY <1>1 DEF FrameSound, Snapshot, GroupsLive

LEMMA FramesLive ==
    ASSUME VarTypes, ClaimsKept, GroupsLive
    PROVE  FramesStaySound
<1>1. \A i \in 1..Len(stack) : stack[i] \in Frames
  BY ElementOfSeq DEF VarTypes
<1>2. \A i \in 1..Len(stack) : FrameSound(Snapshot, stack[i])
  BY DEF ClaimsKept, ClaimsHold
<1> QED
  BY <1>1, <1>2, FrameLives DEF FramesStaySound

\* A call outside the swaps' own transfers: the sides it changes stay sound.
LEMMA CallKeeps ==
    ASSUME VarTypes, ClaimsKept, UNCHANGED stack, GroupsLive,
           \A g \in Groups, s \in Sides :
               \/ SideKept(g, s)
               \/ SideSound(Snapshot', g, s, Now(g, "ISSUE", s), Now(g, "EXIT", s),
                            Now(g, "SETTLE", s))
    PROVE  ClaimsKept'
<1>1. \A g \in Groups, s \in Sides :
        SideSound(Snapshot', g, s, Now(g, "ISSUE", s), Now(g, "EXIT", s), Now(g, "SETTLE", s))
  BY AllSound, KeptSideSound DEF SoundNow
<1> QED
  BY <1>1, FramesLive, KeptCall

LEMMA IdleKeeps ==
    ASSUME VarTypes, ClaimsKept, UNCHANGED <<stack, group, held, inventory, aqua>>
    PROVE  ClaimsKept'
<1>1. GroupsLive
  BY DEF GroupsLive
<1>2. \A g \in Groups, s \in Sides : SideKept(g, s)
  BY DEF SideKept
<1> QED
  BY <1>1, <1>2, CallKeeps

LEMMA CreateGroupKeeps ==
    ASSUME VarTypes, ClaimsKept, NEW g \in Groups, CreateGroup(g)
    PROVE  ClaimsKept'
<1> DEFINE gs == [group[g] EXCEPT !.created = TRUE]
           max == Params[g].maxUnitsPerSide
           cap == Params[g].capPayoutPerUnit
<1>1. /\ group' = [group EXCEPT ![g] = gs] /\ ~group[g].created
      /\ inventory' = [inventory EXCEPT ![g] = [s \in Sides |-> max]]
      /\ aqua' = [aqua EXCEPT ![g] = ShipAmounts(g)]
      /\ UNCHANGED <<stack, held>>
  BY DEF CreateGroup
<1>2. /\ gs.created /\ gs.finalized = group[g].finalized /\ gs.ppu = group[g].ppu
      /\ gs.outstanding = group[g].outstanding
  BY GroupFields DEF GroupState
<1> HIDE DEF gs
<1>3. group'[g] = gs /\ \A h \in Groups \ {g} : group'[h] = group[h]
  BY <1>1 DEF VarTypes
<1>4. GroupsLive
  BY <1>2, <1>3 DEF GroupsLive
<1>5. ASSUME NEW h \in Groups \ {g}, NEW s \in Sides PROVE SideKept(h, s)
  BY <1>1, <1>3 DEF SideKept, VarTypes
<1>6. ASSUME NEW s \in Sides
      PROVE  SideSound(Snapshot', g, s, Now(g, "ISSUE", s), Now(g, "EXIT", s),
                       Now(g, "SETTLE", s))
  <2>1. /\ max \in Nat /\ cap \in Nat
        /\ Params[g].bid[s] \in Nat /\ Params[g].bid[s] <= cap
    BY ParamsAssumption DEF ValidParams
  <2>2. \A kind \in Kinds : Now(g, kind, s) = 0
    <3>1. \A i \in 1..Len(stack) : stack[i].group # g
      BY <1>1 DEF ClaimsKept, ClaimsHold, FrameSound, Snapshot
    <3>2. \A kind \in Kinds : ~Locked(g, kind, s)
      BY <3>1 DEF Locked
    <3> QED
      BY SMTT(30), <3>2, FreeOrder
  <2>3. /\ held[g][s] = 0 /\ group[g].outstanding[s] = 0
        /\ inventory[g][s] = 0 /\ ~group[g].finalized
    <3>1. SoundNow(g, s)
      BY AllSound
    <3>2. /\ held[g][s] = 0 /\ inventory[g][s] = 0 /\ aqua[g]["ISSUE"][s] = 0
          /\ ~group[g].finalized
          /\ held[g][s] + inventory[g][s] + Now(g, "ISSUE", s) =
              aqua[g]["ISSUE"][s] + group[g].outstanding[s]
      BY <1>1, <3>1, SideNow DEF SoundNow
    <3>3. Now(g, "ISSUE", s) = 0 /\ group[g].outstanding[s] \in Nat
      BY <2>2, GroupFields DEF Kinds
    <3> QED
      BY <3>2, <3>3
  <2>4. /\ aqua'[g]["ISSUE"][s] = max
        /\ aqua'[g]["EXIT"][s] = CeilMul(max, cap)
        /\ aqua'[g]["SETTLE"][s] = CeilMul(max, cap)
        /\ inventory'[g][s] = max /\ held'[g][s] = 0
    <3>1. Reserve(max, 0, cap) = CeilMul(max, cap)
      BY <2>1 DEF Reserve, MaxOf
    <3> QED
      BY <1>1, <2>3, <3>1 DEF ShipAmounts, Kinds, VarTypes
  <2>5. /\ FloorMul(max, Params[g].bid[s]) <= CeilMul(max, cap)
        /\ FloorMul(max, cap) <= CeilMul(max, cap)
    BY <2>1, FloorWithinCeil
  <2>6. /\ CeilMul(max, cap) \in Nat /\ Now(g, "ISSUE", s) = 0
        /\ Now(g, "EXIT", s) = 0 /\ Now(g, "SETTLE", s) = 0
    BY <2>1, <2>2, CeilNat DEF Kinds
  <2>7. /\ group'[g].created /\ ~group'[g].finalized
        /\ group'[g].outstanding[s] = 0
    BY <1>2, <1>3, <2>3
  <2> HIDE DEF max, cap
  <2>8. /\ held'[g][s] + inventory'[g][s] = max
        /\ CeilMul(max, cap) + 0 >= FloorMul(max, Params[g].bid[s])
        /\ CeilMul(max, cap) + 0 >= FloorMul(max, cap)
        /\ max + 0 = max + 0 /\ 0 + 0 <= 0
    <3>1. FloorMul(max, Params[g].bid[s]) \in Nat /\ FloorMul(max, cap) \in Nat
      BY <2>1, FloorNat
    <3> QED
      BY <2>1, <2>4, <2>5, <2>6, <3>1
  <2> QED
    BY <2>4, <2>6, <2>7, <2>8, SideNext DEF ExitProceeds, SettleProceeds, max, cap
<1> QED
  BY <1>1, <1>4, <1>5, <1>6, CallKeeps

LEMMA SwapIssueKeeps ==
    ASSUME VarTypes, VarTypes', ClaimsKept,
           NEW g \in Groups, NEW s \in Sides, NEW exactIn \in BOOLEAN,
           NEW amount \in Nat, NEW inFirst \in BOOLEAN,
           SwapIssue(g, s, exactIn, amount, inFirst)
    PROVE  ClaimsKept'
<1> DEFINE units == IssueFill(g, s, exactIn, amount).units
           premium == IssueFill(g, s, exactIn, amount).premium
           f == Frame(g, "ISSUE", s, premium, units, inFirst)
           out == [group[g].outstanding EXCEPT ![s] = @ + units]
           gs == [group[g] EXCEPT !.outstanding = out, !.reserveLocked = GroupReserve(g, out)]
<1>1. /\ group' = [group EXCEPT ![g] = gs] /\ group[g].created
      /\ ~Locked(g, "ISSUE", s) /\ EnterSwap(f)
      /\ UNCHANGED <<held, inventory, aqua>>
  BY DEF SwapIssue, ApplyIssue, CanSwap
<1>2. units \in Nat
  BY IssueFillNat
<1>3. /\ f.group = g /\ f.kind = "ISSUE" /\ f.side = s /\ f.saved = Snapshot
      /\ f.stage = "first" /\ f.amountOut = units
  BY DEF Frame
<1>4. Half(f) = units
  BY <1>3 DEF Half
<1> HIDE DEF units, premium, f
<1>5. /\ out[s] = group[g].outstanding[s] + units
      /\ \A t \in Sides \ {s} : out[t] = group[g].outstanding[t]
  BY GroupFields DEF UnitsBySide
<1> HIDE DEF out
<1>6. /\ gs.outstanding = out /\ gs.created = group[g].created
      /\ gs.finalized = group[g].finalized /\ gs.ppu = group[g].ppu
  BY GroupFields DEF GroupState
<1> HIDE DEF gs
<1>7. group'[g] = gs /\ \A h \in Groups \ {g} : group'[h] = group[h]
  BY <1>1 DEF VarTypes
<1>8. GroupsLive
  BY <1>6, <1>7 DEF GroupsLive
<1>9. ASSUME NEW h \in Groups, NEW t \in Sides, ~(h = g /\ t = s) PROVE SideKept(h, t)
  <2>1. /\ group'[h].created = group[h].created /\ group'[h].finalized = group[h].finalized
        /\ group'[h].ppu = group[h].ppu
    BY <1>6, <1>7
  <2>2. group'[h].outstanding[t] = group[h].outstanding[t]
    BY <1>5, <1>6, <1>7, <1>9
  <2> QED
    BY <1>1, <2>1, <2>2 DEF SideKept
<1>10. FrameSound(Snapshot', f)
  BY <1>1, <1>3, <1>6, <1>7 DEF FrameSound, Snapshot
<1>11. SidesSound(f, Half(f))
  <2> SUFFICES ASSUME NEW h \in Groups, NEW t \in Sides
               PROVE  SideSound(Snapshot', h, t, After(f, units, h, "ISSUE", t),
                                After(f, units, h, "EXIT", t), After(f, units, h, "SETTLE", t))
    BY <1>4 DEF SidesSound
  <2>1. SoundNow(h, t)
    BY AllSound
  <2>2. /\ After(f, units, h, "EXIT", t) = Now(h, "EXIT", t)
        /\ After(f, units, h, "SETTLE", t) = Now(h, "SETTLE", t)
        /\ After(f, units, h, "ISSUE", t) =
              IF h = g /\ t = s THEN units ELSE Now(h, "ISSUE", t)
    BY <1>3 DEF After, Of
  <2>3. CASE ~(h = g /\ t = s)
    BY <1>9, <2>1, <2>2, <2>3, KeptSideSound DEF SoundNow
  <2>4. CASE h = g /\ t = s
    <3>1. Now(g, "ISSUE", s) = 0
      BY <1>1, FreeOrder
    <3>2. /\ held'[g] = held[g] /\ inventory'[g] = inventory[g] /\ aqua'[g] = aqua[g]
          /\ group'[g].created = group[g].created /\ group'[g].ppu = group[g].ppu
          /\ group'[g].finalized = group[g].finalized
          /\ group'[g].outstanding[s] = group[g].outstanding[s] + units
      BY <1>1, <1>5, <1>6, <1>7
    <3>3. /\ held[g][s] \in Nat /\ inventory[g][s] \in Nat /\ group[g].outstanding[s] \in Nat
          /\ aqua[g]["ISSUE"][s] \in Nat
      <4>1. aqua[g]["ISSUE"][s] \in Nat
        BY DEF VarTypes, UnitsBySide, Kinds
      <4> QED
        BY <4>1, GroupFields
    <3>4. /\ ~group[g].created =>
              /\ ~group[g].finalized
              /\ held[g][s] = 0 /\ inventory[g][s] = 0 /\ aqua[g]["ISSUE"][s] = 0
          /\ held[g][s] + 0 <= group[g].outstanding[s]
          /\ held[g][s] + inventory[g][s] + 0 = aqua[g]["ISSUE"][s] + group[g].outstanding[s]
          /\ aqua[g]["EXIT"][s] + Now(g, "EXIT", s) >=
              ExitProceeds(held[g][s] + inventory[g][s], Params[g].bid[s])
          /\ aqua[g]["SETTLE"][s] + Now(g, "SETTLE", s) >=
              SettleProceeds(held[g][s] + inventory[g][s],
                             IF group[g].finalized THEN group[g].ppu[s]
                             ELSE Params[g].capPayoutPerUnit)
      BY <2>1, <2>4, <3>1, SideNow DEF SoundNow
    <3>5. /\ held[g][s] + units <= group[g].outstanding[s] + units
          /\ held[g][s] + inventory[g][s] + units =
                aqua[g]["ISSUE"][s] + (group[g].outstanding[s] + units)
      BY <1>2, <3>3, <3>4
    <3>6. SideSound(Snapshot', g, s, units, Now(g, "EXIT", s), Now(g, "SETTLE", s))
      BY <3>2, <3>4, <3>5, SideNext
    <3> QED
      BY <2>2, <2>4, <3>6
  <2> QED
    BY <2>3, <2>4
<1> QED
  BY <1>1, <1>3, <1>8, <1>10, <1>11, FramesLive, KeptPush

\* Exits and settlements change no ledger when they are priced; they pay no
\* more than their units are worth.
LEMMA SwapBurnKeeps ==
    ASSUME VarTypes, VarTypes', ClaimsKept,
           NEW g \in Groups, NEW s \in Sides, NEW u \in Nat, NEW inFirst \in BOOLEAN,
           SwapExit(g, s, u, inFirst) \/ SwapSettle(g, s, u, inFirst)
    PROVE  ClaimsKept'
<1> DEFINE units == MinOf(u, group[g].outstanding[s])
<1>0. units \in Nat
  BY GroupFields DEF MinOf
<1>1. PICK kind, paid :
        /\ kind \in {"EXIT", "SETTLE"}
        /\ EnterSwap(Frame(g, kind, s, units, paid, inFirst))
        /\ ~Locked(g, kind, s) /\ group[g].created
        /\ kind = "EXIT" => paid <= ExitProceeds(units, Params[g].bid[s])
        /\ kind = "SETTLE" => /\ group[g].finalized
                              /\ paid <= SettleProceeds(units, group[g].ppu[s])
  <2> HIDE DEF units
  <2>1. aqua[g]["EXIT"][s] \in Nat /\ aqua[g]["SETTLE"][s] \in Nat
    BY SMTT(30) DEF VarTypes, UnitsBySide, Kinds
  <2>2. CASE SwapExit(g, s, u, inFirst)
    <3> DEFINE proceeds == ExitProceeds(units, Params[g].bid[s])
               paid == MinOf(proceeds, aqua[g]["EXIT"][s])
    <3>1. proceeds \in Nat
      BY <1>0, ParamTypes, FloorNat DEF ExitProceeds
    <3>2. EnterSwap(Frame(g, "EXIT", s, units, paid, inFirst))
      BY <2>2 DEF SwapExit, units
    <3>3. ~Locked(g, "EXIT", s) /\ group[g].created
      BY <2>2 DEF SwapExit, CanSwap
    <3>4. paid <= proceeds
      <4> HIDE DEF proceeds
      <4> QED
        BY <2>1, <3>1 DEF MinOf
    <3> HIDE DEF paid
    <3> QED
      BY <3>2, <3>3, <3>4
  <2>3. CASE SwapSettle(g, s, u, inFirst)
    <3> DEFINE proceeds == SettleProceeds(units, group[g].ppu[s])
               paid == MinOf(proceeds, aqua[g]["SETTLE"][s])
    <3>1. proceeds \in Nat
      BY <1>0, GroupFields, FloorNat DEF SettleProceeds
    <3>2. EnterSwap(Frame(g, "SETTLE", s, units, paid, inFirst))
      BY <2>3 DEF SwapSettle, units
    <3>3. ~Locked(g, "SETTLE", s) /\ group[g].created /\ group[g].finalized
      BY <2>3 DEF SwapSettle, CanSwap
    <3>4. paid <= proceeds
      <4> HIDE DEF proceeds
      <4> QED
        BY <2>1, <3>1 DEF MinOf
    <3> HIDE DEF paid
    <3> QED
      BY <3>2, <3>3, <3>4
  <2> QED
    BY <2>2, <2>3
<1> DEFINE f == Frame(g, kind, s, units, paid, inFirst)
<1>2. /\ f.group = g /\ f.kind = kind /\ f.side = s /\ f.saved = Snapshot
      /\ f.stage = "first" /\ f.amountIn = units /\ f.amountOut = paid
  BY DEF Frame
<1>3. UNCHANGED <<group, held, inventory, aqua>>
  BY DEF SwapExit, SwapSettle, chain
<1>4. Half(f) = 0
  BY <1>1, <1>2 DEF Half, Ahead
<1>5. EnterSwap(f)
  BY <1>1
<1> HIDE DEF units, f
<1>6. GroupsLive /\ \A h \in Groups, t \in Sides : SideKept(h, t)
  BY <1>3 DEF GroupsLive, SideKept
<1>7. FrameSound(Snapshot', f)
  BY <1>1, <1>2, <1>3 DEF FrameSound, Snapshot
<1>8. SidesSound(f, Half(f))
  <2> SUFFICES ASSUME NEW h \in Groups, NEW t \in Sides
               PROVE  SideSound(Snapshot', h, t, After(f, 0, h, "ISSUE", t),
                                After(f, 0, h, "EXIT", t), After(f, 0, h, "SETTLE", t))
    BY <1>4 DEF SidesSound
  <2>1. \A k : After(f, 0, h, k, t) = Now(h, k, t)
    <3>1. Now(g, kind, s) = 0
      BY <1>1, FreeOrder
    <3> QED
      BY <1>2, <3>1 DEF After, Of
  <2> QED
    BY <1>6, <2>1, AllSound, KeptSideSound DEF SoundNow
<1> QED
  BY <1>1, <1>2, <1>5, <1>6, <1>7, <1>8, FramesLive, KeptPush

\* Each transfer moves the half by what it transfers.
LEMMA TopMoves ==
    ASSUME stack # << >>, Top \in Frames
    PROVE  /\ TransferInNext => NextHalf = IF Top.kind = "ISSUE" THEN Half(Top)
                                           ELSE Half(Top) - Top.amountOut
           /\ TransferOutNext => NextHalf = IF Top.kind = "ISSUE" THEN Half(Top) - Top.amountOut
                                            ELSE Half(Top) + Top.amountOut
<1> DEFINE n == [Top EXCEPT !.stage = "second"]
<1>1. FrameShape(Top) /\ FrameShape(n)
  BY NextStage, FramesShaped
<1>2. SameSwap(n, Top) /\ n.inFirst = Top.inFirst /\ n.stage = "second"
  BY DEF Frames, SameSwap
<1> QED
  BY <1>1, <1>2, NextHalfMoves

\* A transfer only has to keep the side of its own order sound.
LEMMA TransferKeeps ==
    ASSUME VarTypes, ClaimsKept, stack # << >>, TransferDone, GroupsLive,
           NEW g \in Groups, NEW s \in Sides, g = Top.group, s = Top.side,
           \A h \in Groups, t \in Sides : ~(h = g /\ t = s) => SideKept(h, t),
           SideSound(Snapshot', g, s, After(Top, NextHalf, g, "ISSUE", s),
                     After(Top, NextHalf, g, "EXIT", s), After(Top, NextHalf, g, "SETTLE", s))
    PROVE  ClaimsKept'
<1>1. ASSUME NEW h \in Groups, NEW t \in Sides
      PROVE  SideSound(Snapshot', h, t, After(Top, NextHalf, h, "ISSUE", t),
                       After(Top, NextHalf, h, "EXIT", t), After(Top, NextHalf, h, "SETTLE", t))
  <2>1. CASE h = g /\ t = s
    BY <2>1
  <2>2. CASE ~(h = g /\ t = s)
    <3>1. \A k : After(Top, NextHalf, h, k, t) = Now(h, k, t)
      BY <2>2 DEF After, Of
    <3>2. SoundNow(h, t) /\ SideKept(h, t)
      BY <2>2, AllSound
    <3> QED
      BY <3>1, <3>2, KeptSideSound DEF SoundNow
  <2> QED
    BY <2>1, <2>2
<1>2. SidesSound(Top, NextHalf)
  BY <1>1 DEF SidesSound
<1> QED
  BY <1>2, FramesLive, KeptTransfer

\* A burn takes its units out of one side's outstanding claims.
LEMMA OnBurnClaims ==
    ASSUME VarTypes, NEW f \in Frames, OnBurn(f),
           NEW g \in Groups, NEW s \in Sides, g = f.group, s = f.side
    PROVE  /\ GroupsLive
           /\ \A h \in Groups \ {g} : group'[h] = group[h]
           /\ group'[g].created = group[g].created
           /\ group'[g].finalized = group[g].finalized
           /\ group'[g].ppu = group[g].ppu
           /\ \A t \in Sides \ {s} : group'[g].outstanding[t] = group[g].outstanding[t]
           /\ group'[g].outstanding[s] = group[g].outstanding[s] - f.amountIn
<1> DEFINE out == [group[g].outstanding EXCEPT ![s] = @ - f.amountIn]
<1>1. PICK reserve, buffer :
        group' = [group EXCEPT ![g] =
                    [@ EXCEPT !.exitBuffer = buffer, !.reserveLocked = reserve,
                              !.outstanding = out]]
  <2>1. CASE f.kind = "EXIT"
    <3> DEFINE newReserve == ReserveAfterExit(g, s, f.amountIn)
               released == group[g].reserveLocked - newReserve
               draw == IF f.amountOut > released THEN f.amountOut - released ELSE 0
    <3>1. group' = [group EXCEPT ![g].exitBuffer = @ - draw,
                                 ![g].reserveLocked = newReserve,
                                 ![g].outstanding[s] = @ - f.amountIn]
      BY <2>1 DEF OnBurn, BurnExit
    <3> HIDE DEF newReserve, draw
    <3>2. group' = [group EXCEPT ![g] =
                    [@ EXCEPT !.exitBuffer = group[g].exitBuffer - draw,
                              !.reserveLocked = newReserve, !.outstanding = out]]
      BY ZenonT(60), <3>1, GroupFields DEF VarTypes, GroupState
    <3> QED
      BY ZenonT(60), <3>2
  <2>2. CASE f.kind = "SETTLE"
    <3> DEFINE newTotal == FinalLiability(out, group[g].ppu)
    <3>1. group' = [group EXCEPT ![g].outstanding = out, ![g].reserveLocked = newTotal]
      BY <2>2 DEF OnBurn, BurnSettle
    <3> HIDE DEF newTotal, out
    <3>2. group' = [group EXCEPT ![g] =
                    [@ EXCEPT !.exitBuffer = group[g].exitBuffer,
                              !.reserveLocked = newTotal, !.outstanding = out]]
      BY <3>1, GroupFields DEF VarTypes, GroupState
    <3> QED
      BY <3>2
  <2> QED
    BY <2>1, <2>2 DEF OnBurn
<1> DEFINE gs == [group[g] EXCEPT !.exitBuffer = buffer, !.reserveLocked = reserve,
                                  !.outstanding = out]
<1>2. /\ out[s] = group[g].outstanding[s] - f.amountIn
      /\ \A t \in Sides \ {s} : out[t] = group[g].outstanding[t]
  BY GroupFields DEF UnitsBySide
<1>3. /\ gs.outstanding = out /\ gs.created = group[g].created
      /\ gs.finalized = group[g].finalized /\ gs.ppu = group[g].ppu
  BY GroupFields DEF GroupState
<1>4. group' = [group EXCEPT ![g] = gs]
  BY <1>1
<1> HIDE DEF gs, out
<1>5. group'[g] = gs /\ \A h \in Groups \ {g} : group'[h] = group[h]
  BY <1>4 DEF VarTypes
<1>6. GroupsLive
  BY <1>3, <1>5 DEF GroupsLive
<1> QED
  BY SMTT(30), <1>2, <1>3, <1>5, <1>6

\* What is paid for u of m units leaves the rest of them covered.
LEMMA RestStaysCovered ==
    ASSUME NEW m \in Nat, NEW u \in Nat, u <= m, NEW p \in Nat,
           NEW left \in Int, left >= FloorMul(m, p)
    PROVE  /\ left >= FloorMul(m - u, p)
           /\ \A paid \in Int : paid <= FloorMul(u, p) => left - paid >= FloorMul(m - u, p)
<1>1. m - u \in Nat /\ u + (m - u) = m
  OBVIOUS
<1>2. FloorMul(u, p) \in Nat /\ FloorMul(m - u, p) \in Nat /\ FloorMul(m, p) \in Nat
  BY <1>1, FloorNat
<1>3. FloorMul(u, p) + FloorMul(m - u, p) <= FloorMul(m, p)
  BY <1>1, FloorSuperadditive
<1> QED
  BY <1>2, <1>3

LEMMA TransferInKeeps ==
    ASSUME VarTypes, VarTypes', ClaimsKept, TransferIn
    PROVE  ClaimsKept'
<1> DEFINE f == Top
           g == f.group
           s == f.side
           u == f.amountIn
<1>1. stack # << >> /\ TransferDone /\ TransferInNext /\ UNCHANGED <<inventory, aqua>>
  BY DEF TransferIn, TransferInNext
<1>2. f \in Frames /\ g \in Groups /\ s \in Sides /\ u \in Nat /\ f.amountOut \in Nat
  BY <1>1, StackTop DEF VarTypes, Frames
<1>3. /\ Now(g, f.kind, s) = Half(f) /\ FrameSound(Snapshot, f)
      /\ NextHalf = IF f.kind = "ISSUE" THEN Half(f) ELSE Half(f) - f.amountOut
  BY <1>1, <1>2, TopHalf, TopMoves
<1>4. /\ Now(g, "ISSUE", s) \in Int /\ Now(g, "EXIT", s) \in Int /\ Now(g, "SETTLE", s) \in Int
      /\ f.kind \in Kinds
  BY <1>2, NowType DEF Frames
<1>5. \A k : After(f, NextHalf, g, k, s) = IF k = f.kind THEN NextHalf ELSE Now(g, k, s)
  BY DEF After, Of
<1>6. SoundNow(g, s)
  BY <1>2, AllSound
<1>7. f = Top /\ g = f.group /\ s = f.side
  OBVIOUS
<1> HIDE DEF f, g, s
<1>8. CASE f.kind = "ISSUE"
  <2>1. UNCHANGED <<group, held>>
    BY <1>7, <1>8 DEF TransferIn
  <2>2. GroupsLive /\ \A h \in Groups, t \in Sides : SideKept(h, t)
    BY <1>1, <2>1 DEF GroupsLive, SideKept
  <2>3. \A k : After(f, NextHalf, g, k, s) = Now(g, k, s)
    BY <1>3, <1>5, <1>8
  <2>4. SideSound(Snapshot', g, s, After(f, NextHalf, g, "ISSUE", s),
                  After(f, NextHalf, g, "EXIT", s), After(f, NextHalf, g, "SETTLE", s))
    BY <1>2, <1>6, <2>2, <2>3, KeptSideSound DEF SoundNow
  <2> QED
    BY <1>1, <1>2, <1>7, <2>2, <2>4, TransferKeeps
<1>9. CASE f.kind # "ISSUE"
  <2>1. /\ u <= held[g][s] /\ OnBurn(f)
        /\ held' = [held EXCEPT ![g][s] = @ - u]
    BY <1>7, <1>9 DEF TransferIn
  <2>2. /\ GroupsLive
        /\ \A h \in Groups \ {g} : group'[h] = group[h]
        /\ group'[g].created = group[g].created
        /\ group'[g].finalized = group[g].finalized
        /\ group'[g].ppu = group[g].ppu
        /\ \A t \in Sides \ {s} : group'[g].outstanding[t] = group[g].outstanding[t]
        /\ group'[g].outstanding[s] = group[g].outstanding[s] - u
    BY <1>2, <1>7, <2>1, OnBurnClaims
  <2>3. /\ \A h \in Groups \ {g} : held'[h] = held[h]
        /\ \A t \in Sides \ {s} : held'[g][t] = held[g][t]
        /\ held'[g][s] = held[g][s] - u
    BY <1>2, <2>1 DEF VarTypes, UnitsBySide
  <2>4. \A h \in Groups, t \in Sides : ~(h = g /\ t = s) => SideKept(h, t)
    <3> SUFFICES ASSUME NEW h \in Groups, NEW t \in Sides, ~(h = g /\ t = s)
                 PROVE  SideKept(h, t)
      OBVIOUS
    <3>1. CASE h # g
      BY <1>1, <2>2, <2>3, <3>1 DEF SideKept
    <3>2. CASE h = g /\ t # s
      BY <1>1, <2>2, <2>3, <3>2 DEF SideKept
    <3> QED
      BY <3>1, <3>2
  <2> DEFINE m == held[g][s] + inventory[g][s]
             worth == IF group[g].finalized THEN group[g].ppu[s]
                      ELSE Params[g].capPayoutPerUnit
             bid == Params[g].bid[s]
             exit == After(f, NextHalf, g, "EXIT", s)
             settle == After(f, NextHalf, g, "SETTLE", s)
             issue == Now(g, "ISSUE", s)
  <2>5. /\ held[g][s] \in Nat /\ inventory[g][s] \in Nat /\ group[g].outstanding[s] \in Nat
        /\ m \in Nat /\ u <= m
    BY <1>2, <2>1, GroupFields
  <2>6. /\ aqua[g]["ISSUE"][s] \in Nat /\ aqua[g]["EXIT"][s] \in Nat
        /\ aqua[g]["SETTLE"][s] \in Nat
    BY <1>2, SMTT(30) DEF VarTypes, UnitsBySide, Kinds
  <2>7. worth \in Nat /\ bid \in Nat
    BY <1>2, GroupFields, ParamTypes
  <2>8. /\ group[g].created
        /\ f.kind = "EXIT" => f.amountOut <= FloorMul(u, bid)
        /\ f.kind = "SETTLE" => f.amountOut <= FloorMul(u, worth)
    BY <1>3, <1>7 DEF FrameSound, Snapshot, ExitProceeds, SettleProceeds
  <2>9. /\ held[g][s] + issue <= group[g].outstanding[s]
        /\ m + issue = aqua[g]["ISSUE"][s] + group[g].outstanding[s]
        /\ aqua[g]["EXIT"][s] + Now(g, "EXIT", s) >= FloorMul(m, bid)
        /\ aqua[g]["SETTLE"][s] + Now(g, "SETTLE", s) >= FloorMul(m, worth)
    BY <1>6, SideNow DEF SoundNow, ExitProceeds, SettleProceeds
  <2>10. After(f, NextHalf, g, "ISSUE", s) = issue
    BY <1>5, <1>9
  <2>11. \/ f.kind = "EXIT" /\ exit = Now(g, "EXIT", s) - f.amountOut
                /\ settle = Now(g, "SETTLE", s)
         \/ f.kind = "SETTLE" /\ exit = Now(g, "EXIT", s)
                /\ settle = Now(g, "SETTLE", s) - f.amountOut
    BY <1>3, <1>4, <1>5, <1>9 DEF Kinds
  <2> HIDE DEF m, worth, bid, exit, settle, issue
  <2>12. /\ aqua[g]["EXIT"][s] + exit >= FloorMul(m - u, bid)
         /\ aqua[g]["SETTLE"][s] + settle >= FloorMul(m - u, worth)
    <3> DEFINE e == aqua[g]["EXIT"][s] + Now(g, "EXIT", s)
               d == aqua[g]["SETTLE"][s] + Now(g, "SETTLE", s)
    <3>1. e \in Int /\ d \in Int
      BY <1>4, <2>6
    <3>2. /\ e >= FloorMul(m - u, bid)
          /\ \A paid \in Int : paid <= FloorMul(u, bid) => e - paid >= FloorMul(m - u, bid)
      BY <1>2, <2>5, <2>7, <2>9, <3>1, RestStaysCovered
    <3>3. /\ d >= FloorMul(m - u, worth)
          /\ \A paid \in Int : paid <= FloorMul(u, worth) => d - paid >= FloorMul(m - u, worth)
      BY <1>2, <2>5, <2>7, <2>9, <3>1, RestStaysCovered
    <3>4. CASE f.kind = "EXIT" /\ exit = Now(g, "EXIT", s) - f.amountOut
                /\ settle = Now(g, "SETTLE", s)
      <4>1. e - f.amountOut = aqua[g]["EXIT"][s] + exit
        BY <1>2, <1>4, <2>6, <3>4
      <4>2. e - f.amountOut >= FloorMul(m - u, bid)
        BY <1>2, <2>8, <3>2, <3>4
      <4> QED
        BY <3>3, <3>4, <4>1, <4>2
    <3>5. CASE f.kind = "SETTLE" /\ exit = Now(g, "EXIT", s)
                /\ settle = Now(g, "SETTLE", s) - f.amountOut
      <4>1. d - f.amountOut = aqua[g]["SETTLE"][s] + settle
        BY <1>2, <1>4, <2>6, <3>5
      <4>2. d - f.amountOut >= FloorMul(m - u, worth)
        BY <1>2, <2>8, <3>3, <3>5
      <4> QED
        BY <3>2, <3>5, <4>1, <4>2
    <3> QED
      BY <2>11, <3>4, <3>5
  <2>13. held'[g][s] + inventory'[g][s] = m - u
    BY <1>1, <1>2, <2>3, <2>5 DEF m
  <2>14. /\ held'[g][s] + issue <= group'[g].outstanding[s]
         /\ (m - u) + issue = aqua[g]["ISSUE"][s] + group'[g].outstanding[s]
    BY <1>2, <1>4, <2>2, <2>3, <2>5, <2>6, <2>9 DEF issue
  <2>15. SideSound(Snapshot', g, s, issue, exit, settle)
    <3>1. aqua' = aqua /\ group'[g].created
      BY <1>1, <2>2, <2>8
    <3>2. worth = IF group'[g].finalized THEN group'[g].ppu[s]
                  ELSE Params[g].capPayoutPerUnit
      BY <2>2 DEF worth
    <3> QED
      BY <2>12, <2>13, <2>14, <3>1, <3>2, SideNext DEF ExitProceeds, SettleProceeds, bid
  <2> QED
    BY <1>1, <1>2, <1>7, <2>2, <2>4, <2>10, <2>15, TransferKeeps DEF exit, settle
<1> QED
  BY <1>8, <1>9

LEMMA TransferOutKeeps ==
    ASSUME VarTypes, VarTypes', ClaimsKept, TransferOut
    PROVE  ClaimsKept'
<1> DEFINE f == Top
           g == f.group
           s == f.side
           p == f.amountOut
<1>1. stack # << >> /\ TransferDone /\ TransferOutNext /\ UNCHANGED group
  BY DEF TransferOut, TransferOutNext
<1>2. f \in Frames /\ g \in Groups /\ s \in Sides /\ p \in Nat /\ f.kind \in Kinds
  BY <1>1, StackTop DEF VarTypes, Frames
<1>3. /\ Now(g, f.kind, s) = Half(f) /\ FrameSound(Snapshot, f)
      /\ NextHalf = IF f.kind = "ISSUE" THEN Half(f) - p ELSE Half(f) + p
  BY <1>1, <1>2, TopHalf, TopMoves
<1>4. Now(g, "ISSUE", s) \in Int /\ Now(g, "EXIT", s) \in Int /\ Now(g, "SETTLE", s) \in Int
  BY NowType
<1>5. \A k : After(f, NextHalf, g, k, s) = IF k = f.kind THEN NextHalf ELSE Now(g, k, s)
  BY DEF After, Of
<1>6. SoundNow(g, s) /\ group[g].created
  BY <1>2, <1>3, AllSound DEF FrameSound, Snapshot
<1>7. f = Top /\ g = f.group /\ s = f.side
  OBVIOUS
<1>8. /\ aqua' = [aqua EXCEPT ![g][f.kind][s] = @ - p]
      /\ f.kind = "ISSUE" =>
          /\ inventory' = [inventory EXCEPT ![g][s] = @ - p]
          /\ held' = [held EXCEPT ![g][s] = @ + p]
      /\ f.kind # "ISSUE" => UNCHANGED <<held, inventory>>
  BY DEF TransferOut
<1> HIDE DEF f, g, s, p
<1>9. /\ \A h \in Groups, k \in Kinds, t \in Sides :
            ~(h = g /\ k = f.kind /\ t = s) => aqua'[h][k][t] = aqua[h][k][t]
      /\ aqua'[g][f.kind][s] = aqua[g][f.kind][s] - p
  <2>1. /\ aqua \in [Groups -> [Kinds -> UnitsBySide]]
        /\ aqua' = [aqua EXCEPT ![g][f.kind][s] = aqua[g][f.kind][s] - p]
    BY <1>8 DEF VarTypes
  <2>2. /\ aqua'[g] = [aqua[g] EXCEPT ![f.kind] =
                           [aqua[g][f.kind] EXCEPT ![s] = aqua[g][f.kind][s] - p]]
        /\ \A h \in Groups \ {g} : aqua'[h] = aqua[h]
    BY <1>2, <2>1
  <2>3. aqua[g] \in [Kinds -> UnitsBySide] /\ aqua[g][f.kind] \in [Sides -> Nat]
    BY <1>2, <2>1 DEF UnitsBySide
  <2>4. /\ aqua'[g][f.kind] = [aqua[g][f.kind] EXCEPT ![s] = aqua[g][f.kind][s] - p]
        /\ \A k \in Kinds \ {f.kind} : aqua'[g][k] = aqua[g][k]
    BY <1>2, <2>2, <2>3
  <2>5. /\ aqua'[g][f.kind][s] = aqua[g][f.kind][s] - p
        /\ \A t \in Sides \ {s} : aqua'[g][f.kind][t] = aqua[g][f.kind][t]
    BY <1>2, <2>3, <2>4
  <2> QED
    BY ZenonT(60), <2>2, <2>4, <2>5
<1>10. /\ \A h \in Groups, t \in Sides : ~(h = g /\ t = s) =>
            held'[h][t] = held[h][t] /\ inventory'[h][t] = inventory[h][t]
       /\ held'[g][s] = IF f.kind = "ISSUE" THEN held[g][s] + p ELSE held[g][s]
       /\ inventory'[g][s] = IF f.kind = "ISSUE" THEN inventory[g][s] - p ELSE inventory[g][s]
  <2>1. CASE f.kind = "ISSUE"
    <3>1. /\ held' = [held EXCEPT ![g][s] = held[g][s] + p]
          /\ inventory' = [inventory EXCEPT ![g][s] = inventory[g][s] - p]
          /\ held \in [Groups -> UnitsBySide] /\ inventory \in [Groups -> UnitsBySide]
      BY <1>8, <2>1 DEF VarTypes
    <3>2. /\ held'[g][s] = held[g][s] + p
          /\ \A h \in Groups, t \in Sides : ~(h = g /\ t = s) => held'[h][t] = held[h][t]
      BY <1>2, <3>1 DEF UnitsBySide
    <3>3. /\ inventory'[g][s] = inventory[g][s] - p
          /\ \A h \in Groups, t \in Sides :
                ~(h = g /\ t = s) => inventory'[h][t] = inventory[h][t]
      BY <1>2, <3>1 DEF UnitsBySide
    <3> QED
      BY <2>1, <3>2, <3>3
  <2>2. CASE f.kind # "ISSUE"
    BY <1>8, <2>2
  <2> QED
    BY <2>1, <2>2
<1>11. GroupsLive /\ \A h \in Groups, t \in Sides : ~(h = g /\ t = s) => SideKept(h, t)
  BY <1>1, <1>9, <1>10 DEF GroupsLive, SideKept
<1> DEFINE m == held[g][s] + inventory[g][s]
           worth == IF group[g].finalized THEN group[g].ppu[s]
                    ELSE Params[g].capPayoutPerUnit
           bid == Params[g].bid[s]
           issue == After(f, NextHalf, g, "ISSUE", s)
           exit == After(f, NextHalf, g, "EXIT", s)
           settle == After(f, NextHalf, g, "SETTLE", s)
<1>12. held[g][s] \in Nat /\ inventory[g][s] \in Nat /\ group[g].outstanding[s] \in Nat
  BY <1>2, GroupFields
<1>13. \A k \in Kinds : aqua[g][k][s] \in Nat
  BY <1>2 DEF VarTypes, UnitsBySide
<1>14. /\ aqua[g]["ISSUE"][s] \in Nat /\ aqua[g]["EXIT"][s] \in Nat
       /\ aqua[g]["SETTLE"][s] \in Nat
  BY <1>13 DEF Kinds
<1>15. /\ held[g][s] + Now(g, "ISSUE", s) <= group[g].outstanding[s]
       /\ m + Now(g, "ISSUE", s) = aqua[g]["ISSUE"][s] + group[g].outstanding[s]
       /\ aqua[g]["EXIT"][s] + Now(g, "EXIT", s) >= ExitProceeds(m, bid)
       /\ aqua[g]["SETTLE"][s] + Now(g, "SETTLE", s) >= SettleProceeds(m, worth)
  BY <1>6, SideNow DEF SoundNow
<1>16. held'[g][s] + inventory'[g][s] = m
  BY <1>2, <1>10, <1>12
<1>17. /\ aqua'[g]["EXIT"][s] + exit = aqua[g]["EXIT"][s] + Now(g, "EXIT", s)
       /\ aqua'[g]["SETTLE"][s] + settle = aqua[g]["SETTLE"][s] + Now(g, "SETTLE", s)
       /\ f.kind = "ISSUE" =>
            issue = Now(g, "ISSUE", s) - p /\ aqua'[g]["ISSUE"][s] = aqua[g]["ISSUE"][s] - p
       /\ f.kind # "ISSUE" =>
            issue = Now(g, "ISSUE", s) /\ aqua'[g]["ISSUE"][s] = aqua[g]["ISSUE"][s]
  <2>1. \A k \in Kinds :
            aqua'[g][k][s] = IF k = f.kind THEN aqua[g][k][s] - p ELSE aqua[g][k][s]
    BY <1>2, <1>9
  <2>2. /\ aqua'[g]["ISSUE"][s] =
              IF "ISSUE" = f.kind THEN aqua[g]["ISSUE"][s] - p ELSE aqua[g]["ISSUE"][s]
        /\ aqua'[g]["EXIT"][s] =
              IF "EXIT" = f.kind THEN aqua[g]["EXIT"][s] - p ELSE aqua[g]["EXIT"][s]
        /\ aqua'[g]["SETTLE"][s] =
              IF "SETTLE" = f.kind THEN aqua[g]["SETTLE"][s] - p ELSE aqua[g]["SETTLE"][s]
    BY <2>1 DEF Kinds
  <2>3. /\ issue = IF "ISSUE" = f.kind THEN NextHalf ELSE Now(g, "ISSUE", s)
        /\ exit = IF "EXIT" = f.kind THEN NextHalf ELSE Now(g, "EXIT", s)
        /\ settle = IF "SETTLE" = f.kind THEN NextHalf ELSE Now(g, "SETTLE", s)
    BY <1>5
  <2> HIDE DEF issue, exit, settle
  <2> QED
    BY <1>2, <1>3, <1>4, <1>14, <2>2, <2>3
<1> HIDE DEF m, worth, bid, issue, exit, settle
<1>18. /\ held'[g][s] + issue <= group[g].outstanding[s]
       /\ m + issue = aqua'[g]["ISSUE"][s] + group[g].outstanding[s]
  <2>1. m \in Nat
    BY <1>12 DEF m
  <2>2. CASE f.kind = "ISSUE"
    BY <1>2, <1>4, <1>10, <1>12, <1>14, <1>15, <1>17, <2>1, <2>2
  <2>3. CASE f.kind # "ISSUE"
    BY <1>10, <1>15, <1>17, <2>3
  <2> QED
    BY <2>2, <2>3
<1>19. SideSound(Snapshot', g, s, issue, exit, settle)
  BY <1>1, <1>6, <1>15, <1>16, <1>17, <1>18, SideNext DEF worth, bid
<1> QED
  BY <1>1, <1>2, <1>7, <1>11, <1>19, TransferKeeps DEF issue, exit, settle

\* A finalized payout never exceeds the cap that was set aside.
LEMMA FinalizeKeeps ==
    ASSUME VarTypes, VarTypes', ClaimsKept, NEW g \in Groups, NEW v \in Variances,
           Finalize(g, v)
    PROVE  ClaimsKept'
<1> DEFINE p == Params[g]
           x == NormalizedOutcome(v, p.capVariance)
           payouts == FinalPayouts(x, p.capPayoutPerUnit)
           newLocked == FinalLiability(group[g].outstanding, payouts)
           gs == [group[g] EXCEPT !.finalized = TRUE, !.ppu = payouts,
                                  !.reserveLocked = newLocked, !.exitBuffer = 0]
<1>1. /\ group' = [group EXCEPT ![g] = gs]
      /\ group[g].created /\ ~group[g].finalized
      /\ UNCHANGED <<stack, held, inventory, aqua>>
  BY DEF Finalize
<1>2. \A s \in Sides : payouts[s] \in Nat /\ payouts[s] <= p.capPayoutPerUnit
  <2>1. v \in Nat /\ p.capVariance \in Nat \ {0} /\ p.capPayoutPerUnit \in Nat
    BY ParamTypes, InputsAssumption
  <2> HIDE DEF p
  <2>2. x \in 0..WAD
    BY <2>1, OutcomeWithinWAD
  <2> HIDE DEF x
  <2>3. payouts \in UnitsBySide /\ payouts["HIGH"] + payouts["CALM"] = p.capPayoutPerUnit
    BY <2>1, <2>2, PayoutsSplitCap
  <2> HIDE DEF payouts
  <2> QED
    BY <2>1, <2>3 DEF UnitsBySide, Sides
<1> HIDE DEF payouts, newLocked, x
<1>3. /\ gs.finalized /\ gs.ppu = payouts /\ gs.created = group[g].created
      /\ gs.outstanding = group[g].outstanding
  BY GroupFields DEF GroupState
<1> HIDE DEF gs
<1>4. group'[g] = gs /\ \A h \in Groups \ {g} : group'[h] = group[h]
  BY <1>1 DEF VarTypes
<1>5. GroupsLive
  BY <1>1, <1>3, <1>4 DEF GroupsLive
<1>6. \A h \in Groups \ {g}, s \in Sides : SideKept(h, s)
  BY <1>1, <1>4 DEF SideKept
<1>7. ASSUME NEW s \in Sides
      PROVE  SideSound(Snapshot', g, s, Now(g, "ISSUE", s), Now(g, "EXIT", s),
                       Now(g, "SETTLE", s))
  <2> DEFINE m == held[g][s] + inventory[g][s]
             d == aqua[g]["SETTLE"][s] + Now(g, "SETTLE", s)
             cap == p.capPayoutPerUnit
  <2>1. m \in Nat /\ cap \in Nat
    BY GroupFields, ParamTypes
  <2>2. d \in Int
    <3>1. aqua[g]["SETTLE"][s] \in Nat
      BY DEF VarTypes, UnitsBySide, Kinds
    <3>2. Now(g, "SETTLE", s) \in Int
      BY NowType
    <3> QED
      BY <3>1, <3>2
  <2>3. SoundNow(g, s)
    BY AllSound
  <2>4. d >= SettleProceeds(m, cap)
    BY <1>1, <2>3, SideNow DEF SoundNow
  <2>5. d >= SettleProceeds(m, payouts[s])
    <3> HIDE DEF m, d, cap
    <3>1. FloorMul(m, payouts[s]) <= FloorMul(m, cap)
      BY <1>2, <2>1, FloorMonotonePrice DEF cap
    <3>2. FloorMul(m, payouts[s]) \in Nat /\ FloorMul(m, cap) \in Nat
      BY <1>2, <2>1, FloorNat
    <3> QED
      BY <2>2, <2>4, <3>1, <3>2 DEF SettleProceeds
  <2>6. /\ group'[g].finalized /\ group'[g].ppu[s] = payouts[s]
        /\ group'[g].created
        /\ group'[g].outstanding[s] = group[g].outstanding[s]
        /\ held' = held /\ inventory' = inventory /\ aqua' = aqua
    BY <1>1, <1>3, <1>4
  <2> QED
    BY <2>3, <2>5, <2>6, SideNow, SideNext DEF SoundNow
<1> QED
  BY <1>1, <1>5, <1>6, <1>7, CallKeeps

\* Holders burn worthless receipts, or lose receipts to the vault.
LEMMA ReceiptCallKeeps ==
    ASSUME VarTypes, VarTypes', ClaimsKept, ReceiptCall
    PROVE  ClaimsKept'
<1>1. PICK g \in Groups, s \in Sides :
        \/ \E u \in UnitAmounts : BurnWorthless(g, s, u)
        \/ \E u \in StrayAmounts : ReceiptTransferToVault(g, s, u)
  BY DEF ReceiptCall
<1> DEFINE m == held[g][s] + inventory[g][s]
           issue == Now(g, "ISSUE", s)
           worth == IF group[g].finalized THEN group[g].ppu[s]
                    ELSE Params[g].capPayoutPerUnit
           bid == Params[g].bid[s]
           e == aqua[g]["EXIT"][s] + Now(g, "EXIT", s)
           d == aqua[g]["SETTLE"][s] + Now(g, "SETTLE", s)
<1>2. /\ held[g][s] \in Nat /\ inventory[g][s] \in Nat /\ group[g].outstanding[s] \in Nat
      /\ m \in Nat /\ worth \in Nat /\ bid \in Nat
  BY GroupFields, ParamTypes
<1>3. issue \in Nat /\ e \in Int /\ d \in Int /\ aqua[g]["ISSUE"][s] \in Nat
  <2>1. /\ aqua[g]["ISSUE"][s] \in Nat /\ aqua[g]["EXIT"][s] \in Nat
        /\ aqua[g]["SETTLE"][s] \in Nat
    BY SMTT(30) DEF VarTypes, UnitsBySide, Kinds
  <2>2. Now(g, "ISSUE", s) \in Nat /\ Now(g, "EXIT", s) \in Int /\ Now(g, "SETTLE", s) \in Int
    BY NowType
  <2> QED
    BY <2>1, <2>2
<1>4. /\ ~group[g].created => ~group[g].finalized /\ held[g][s] = 0
      /\ held[g][s] + issue <= group[g].outstanding[s]
      /\ m + issue = aqua[g]["ISSUE"][s] + group[g].outstanding[s]
      /\ e >= FloorMul(m, bid) /\ d >= FloorMul(m, worth)
  BY AllSound, SideNow DEF SoundNow, ExitProceeds, SettleProceeds
<1>5. CASE \E u \in UnitAmounts : BurnWorthless(g, s, u)
  <2>1. PICK u \in UnitAmounts : BurnWorthless(g, s, u)
    BY <1>5
  <2> DEFINE out == [group[g].outstanding EXCEPT ![s] = @ - u]
             gs == [group[g] EXCEPT !.outstanding = out]
  <2>2. /\ u \in Nat /\ u <= held[g][s] /\ u <= group[g].outstanding[s]
        /\ group[g].finalized
        /\ group' = [group EXCEPT ![g] = gs]
        /\ held' = [held EXCEPT ![g][s] = @ - u]
        /\ UNCHANGED <<stack, inventory, aqua>>
    BY <2>1, InputsAssumption DEF BurnWorthless
  <2>3. /\ out[s] = group[g].outstanding[s] - u
        /\ \A t \in Sides \ {s} : out[t] = group[g].outstanding[t]
    BY GroupFields DEF UnitsBySide
  <2>4. /\ gs.outstanding = out /\ gs.created = group[g].created
        /\ gs.finalized = group[g].finalized /\ gs.ppu = group[g].ppu
    BY GroupFields DEF GroupState
  <2> HIDE DEF gs, out
  <2>5. group'[g] = gs /\ \A h \in Groups \ {g} : group'[h] = group[h]
    BY <2>2 DEF VarTypes
  <2>6. /\ held'[g][s] = held[g][s] - u
        /\ \A h \in Groups, t \in Sides : ~(h = g /\ t = s) => held'[h][t] = held[h][t]
    BY <2>2 DEF VarTypes, UnitsBySide
  <2>7. GroupsLive
    BY <2>4, <2>5 DEF GroupsLive
  <2>8. ASSUME NEW h \in Groups, NEW t \in Sides, ~(h = g /\ t = s) PROVE SideKept(h, t)
    <3>0. inventory' = inventory /\ aqua' = aqua
      BY <2>2
    <3>1. held'[h][t] = held[h][t]
      BY <2>6, <2>8
    <3>2. CASE h # g
      BY <2>5, <3>0, <3>1, <3>2 DEF SideKept
    <3>3. CASE h = g /\ t # s
      BY <2>3, <2>4, <2>5, <3>0, <3>1, <3>3 DEF SideKept
    <3> QED
      BY <2>8, <3>2, <3>3
  <2> HIDE DEF m, issue, worth, bid, e, d
  <2>9. /\ e >= FloorMul(m - u, bid) /\ d >= FloorMul(m - u, worth)
    <3>1. u <= m
      BY <1>2, <2>2 DEF m
    <3> QED
      BY <1>2, <1>3, <1>4, <2>2, <3>1, RestStaysCovered
  <2>10. /\ held'[g][s] + inventory'[g][s] = m - u
         /\ group'[g].outstanding[s] = group[g].outstanding[s] - u
         /\ held'[g][s] + issue <= group[g].outstanding[s] - u
         /\ (m - u) + issue = aqua[g]["ISSUE"][s] + (group[g].outstanding[s] - u)
    <3>1. /\ inventory' = inventory
          /\ group'[g].outstanding[s] = group[g].outstanding[s] - u
      BY <2>2, <2>3, <2>4, <2>5
    <3>2. m = held[g][s] + inventory[g][s]
      BY DEF m
    <3> QED
      BY <1>2, <1>3, <1>4, <2>2, <2>6, <3>1, <3>2
  <2>11. SideSound(Snapshot', g, s, issue, Now(g, "EXIT", s), Now(g, "SETTLE", s))
    <3>1. /\ group'[g].created /\ group'[g].finalized /\ group'[g].ppu = group[g].ppu
          /\ aqua' = aqua
      BY <1>4, <2>2, <2>4, <2>5
    <3>2. worth = group[g].ppu[s] /\ group[g].finalized
      BY <2>2 DEF worth
    <3> QED
      BY <2>9, <2>10, <3>1, <3>2, SideNext DEF ExitProceeds, SettleProceeds, bid, e, d
  <2> QED
    BY <2>2, <2>7, <2>8, <2>11, CallKeeps DEF issue
<1>6. CASE \E u \in StrayAmounts : ReceiptTransferToVault(g, s, u)
  <2>1. PICK u \in StrayAmounts : ReceiptTransferToVault(g, s, u)
    BY <1>6
  <2>2. /\ u \in Nat \ {0} /\ u <= held[g][s]
        /\ held' = [held EXCEPT ![g][s] = @ - u]
        /\ inventory' = [inventory EXCEPT ![g][s] = @ + u]
        /\ UNCHANGED <<stack, group, aqua>>
    BY <2>1, InputsAssumption DEF ReceiptTransferToVault
  <2>3. /\ held'[g][s] = held[g][s] - u
        /\ \A h \in Groups, t \in Sides : ~(h = g /\ t = s) => held'[h][t] = held[h][t]
    BY <2>2 DEF VarTypes, UnitsBySide
  <2>4. /\ inventory'[g][s] = inventory[g][s] + u
        /\ \A h \in Groups, t \in Sides :
              ~(h = g /\ t = s) => inventory'[h][t] = inventory[h][t]
    BY <2>2 DEF VarTypes, UnitsBySide
  <2>5. GroupsLive
    BY <2>2 DEF GroupsLive
  <2>6. ASSUME NEW h \in Groups, NEW t \in Sides, ~(h = g /\ t = s) PROVE SideKept(h, t)
    BY <2>2, <2>3, <2>4, <2>6 DEF SideKept
  <2> HIDE DEF issue, worth, bid, e, d
  <2>7. /\ held'[g][s] + inventory'[g][s] = m
        /\ held'[g][s] + issue <= group[g].outstanding[s]
        /\ group[g].created
    BY <1>2, <1>3, <1>4, <2>2, <2>3, <2>4
  <2> HIDE DEF m
  <2>8. SideSound(Snapshot', g, s, issue, Now(g, "EXIT", s), Now(g, "SETTLE", s))
    <3>1. group' = group /\ aqua' = aqua
      BY <2>2
    <3> QED
      BY <1>4, <2>7, <3>1, SideNext DEF ExitProceeds, SettleProceeds, bid, e, d, worth
  <2> QED
    BY <2>2, <2>5, <2>6, <2>8, CallKeeps DEF issue
<1> QED
  BY <1>1, <1>5, <1>6

\* Buffers and deposits do not touch receipts or claims.
LEMMA VaultCallKeeps ==
    ASSUME VarTypes, VarTypes', ClaimsKept, VaultCall
    PROVE  ClaimsKept'
<1>1. PICK a \in Amounts :
        \/ VaultDeposit(a)
        \/ VaultWithdrawFree(a)
        \/ \E g \in Groups :
            \/ AllocateExitBuffer(g, a)
            \/ FundExitBuffer(g, a)
            \/ WithdrawExitBuffer(g, a)
  BY DEF VaultCall
<1>2. CASE VaultDeposit(a) \/ VaultWithdrawFree(a)
  BY <1>2, IdleKeeps DEF VaultDeposit, VaultWithdrawFree
<1>3. ASSUME NEW g \in Groups,
             \/ AllocateExitBuffer(g, a)
             \/ FundExitBuffer(g, a)
             \/ WithdrawExitBuffer(g, a)
      PROVE  ClaimsKept'
  <2>1. PICK b : group' = [group EXCEPT ![g] = [group[g] EXCEPT !.exitBuffer = b]]
    BY <1>3 DEF AllocateExitBuffer, FundExitBuffer, WithdrawExitBuffer, CreditBuffer
  <2>2. UNCHANGED <<stack, held, inventory, aqua>>
    BY <1>3 DEF AllocateExitBuffer, FundExitBuffer, WithdrawExitBuffer
  <2> DEFINE gs == [group[g] EXCEPT !.exitBuffer = b]
  <2>3. /\ gs.outstanding = group[g].outstanding /\ gs.created = group[g].created
        /\ gs.finalized = group[g].finalized /\ gs.ppu = group[g].ppu
    BY GroupFields DEF GroupState
  <2>4. group' = [group EXCEPT ![g] = gs]
    BY <2>1
  <2> HIDE DEF gs
  <2>5. group'[g] = gs /\ \A h \in Groups \ {g} : group'[h] = group[h]
    BY <2>4 DEF VarTypes
  <2>6. GroupsLive
    BY <2>3, <2>5 DEF GroupsLive
  <2>7. \A h \in Groups, s \in Sides : SideKept(h, s)
    BY <2>2, <2>3, <2>5 DEF SideKept
  <2> QED
    BY <2>2, <2>6, <2>7, CallKeeps
<1> QED
  BY <1>1, <1>2, <1>3

LEMMA NextKeeps ==
    ASSUME VarTypes, VarTypes', ClaimsKept, [Next]_vars
    PROVE  ClaimsKept'
<1>1. ASSUME NEW g \in Groups, CreateGroup(g) PROVE ClaimsKept'
  BY <1>1, CreateGroupKeeps
<1>2. CASE SwapCall
  <2>1. Amounts \subseteq Nat /\ UnitAmounts \subseteq Nat
    BY InputsAssumption
  <2>2. ASSUME NEW g \in Groups, NEW s \in Sides, NEW b \in BOOLEAN,
               NEW exactIn \in BOOLEAN, NEW a \in Nat, SwapIssue(g, s, exactIn, a, b)
        PROVE  ClaimsKept'
    BY <2>2, SwapIssueKeeps
  <2>3. ASSUME NEW g \in Groups, NEW s \in Sides, NEW b \in BOOLEAN,
               NEW u \in Nat, SwapExit(g, s, u, b) \/ SwapSettle(g, s, u, b)
        PROVE  ClaimsKept'
    BY <2>3, SwapBurnKeeps
  <2> QED
    BY <1>2, <2>1, <2>2, <2>3 DEF SwapCall
<1>3. CASE TransferIn
  BY <1>3, TransferInKeeps
<1>4. CASE TransferOut
  BY <1>4, TransferOutKeeps
<1>5. CASE Revert
  BY <1>5, KeptRevert
<1>6. ASSUME NEW g \in Groups, NEW v \in Variances, Finalize(g, v) PROVE ClaimsKept'
  BY <1>6, FinalizeKeeps
<1>7. CASE ReceiptCall
  BY <1>7, ReceiptCallKeeps
<1>8. CASE VaultCall
  BY <1>8, VaultCallKeeps
<1>9. CASE Tick \/ UNCHANGED vars
  BY <1>9, IdleKeeps DEF Tick, vars, chain
<1> QED
  BY <1>1, <1>2, <1>3, <1>4, <1>5, <1>6, <1>7, <1>8, <1>9 DEF Next

LEMMA ClaimsKeptInvariant == Spec => []ClaimsKept
<1>1. Init => ClaimsKept
  <2> SUFFICES ASSUME Init PROVE ClaimsKept
    OBVIOUS
  <2>1. stack = << >> /\ Len(stack) = 0
    BY DEF Init
  <2>2. ASSUME NEW g \in Groups, NEW s \in Sides
        PROVE  SideSound(Snapshot, g, s, 0, 0, 0)
    <3>1. /\ ~group[g].created /\ ~group[g].finalized /\ group[g].outstanding[s] = 0
          /\ held[g][s] = 0 /\ inventory[g][s] = 0
      BY DEF Init, EmptyGroup, Zero
    <3>2. /\ aqua[g]["ISSUE"][s] = 0 /\ aqua[g]["EXIT"][s] = 0 /\ aqua[g]["SETTLE"][s] = 0
      BY DEF Init, Zero, Kinds
    <3>3. \A p \in Nat : FloorMul(0, p) = 0
      <4> SUFFICES ASSUME NEW p \in Nat PROVE FloorMul(0, p) = 0
        OBVIOUS
      <4>1. 0 * p = 0 /\ 0 \div WAD = 0
        BY WADAssumption
      <4> QED
        BY <4>1 DEF FloorMul
    <3>4. Params[g].bid[s] \in Nat /\ Params[g].capPayoutPerUnit \in Nat
      BY ParamTypes
    <3> QED
      BY <3>1, <3>2, <3>3, <3>4, SideNow DEF ExitProceeds, SettleProceeds
  <2>3. \A g, kind, s : Pending(stack, Len(stack), g, kind, s) = 0
    BY <2>1 DEF Pending
  <2> QED
    BY <2>1, <2>2, <2>3 DEF ClaimsKept, ClaimsHold, OneSwapPerOrder
<1>2. TypeOK /\ TypeOK' /\ ClaimsKept /\ [Next]_vars => ClaimsKept'
  BY NextKeeps, TypeOKByVariable, TypeOKByVariablePrime
<1> QED
  BY <1>1, <1>2, TypeCorrect, PTL DEF Spec

-----------------------------------------------------------------------------
(* What holders can rely on *)

\* Receipts are neither lost nor made.
THEOREM ReceiptsTheorem == Spec => []ReceiptsAccounted
<1>1. TypeOK /\ ClaimsKept => ReceiptsAccounted
  <2> SUFFICES ASSUME VarTypes, ClaimsKept, NEW g \in Groups, NEW s \in Sides
               PROVE  /\ held[g][s] <= group[g].outstanding[s]
                      /\ ~Locked(g, "ISSUE", s) =>
                            held[g][s] + inventory[g][s] =
                                aqua[g]["ISSUE"][s] + group[g].outstanding[s]
    BY TypeOKByVariable DEF ReceiptsAccounted
  <2>1. /\ held[g][s] + Now(g, "ISSUE", s) <= group[g].outstanding[s]
        /\ held[g][s] + inventory[g][s] + Now(g, "ISSUE", s) =
            aqua[g]["ISSUE"][s] + group[g].outstanding[s]
    BY AllSound, SideNow DEF SoundNow
  <2>2. Now(g, "ISSUE", s) \in Nat
    BY NowType
  <2>3. ~Locked(g, "ISSUE", s) => Now(g, "ISSUE", s) = 0
    BY FreeOrder
  <2>4. held[g][s] \in Nat /\ inventory[g][s] \in Nat /\ group[g].outstanding[s] \in Nat
    BY GroupFields
  <2> QED
    BY <2>1, <2>2, <2>3, <2>4
<1> QED
  BY <1>1, TypeCorrect, ClaimsKeptInvariant, PTL

\* Between transactions every receipt there is is covered by both orders that
\* pay for it.
LEMMA QuietSides ==
    ASSUME VarTypes, ClaimsKept, stack = << >>, NEW g \in Groups, NEW s \in Sides
    PROVE  LET m == held[g][s] + inventory[g][s] IN
           /\ m \in Nat
           /\ m = group[g].outstanding[s] + aqua[g]["ISSUE"][s]
           /\ held[g][s] <= group[g].outstanding[s]
           /\ aqua[g]["EXIT"][s] >= ExitProceeds(m, Params[g].bid[s])
           /\ group[g].finalized => aqua[g]["SETTLE"][s] >= SettleProceeds(m, group[g].ppu[s])
<1> DEFINE m == held[g][s] + inventory[g][s]
<1>1. \A kind \in Kinds : Now(g, kind, s) = 0
  <2>1. Len(stack) = 0
    OBVIOUS
  <2>2. \A kind \in Kinds : ~Locked(g, kind, s)
    BY <2>1 DEF Locked
  <2> QED
    BY <2>2, FreeOrder
<1>2. Now(g, "ISSUE", s) = 0 /\ Now(g, "EXIT", s) = 0 /\ Now(g, "SETTLE", s) = 0
  BY <1>1 DEF Kinds
<1>3. /\ aqua[g]["ISSUE"][s] \in Nat /\ aqua[g]["EXIT"][s] \in Nat
      /\ aqua[g]["SETTLE"][s] \in Nat
  BY DEF VarTypes, UnitsBySide, Kinds
<1>4. /\ held[g][s] \in Nat /\ inventory[g][s] \in Nat /\ group[g].outstanding[s] \in Nat
      /\ m \in Nat
  BY GroupFields
<1>5. /\ held[g][s] + 0 <= group[g].outstanding[s]
      /\ m + 0 = aqua[g]["ISSUE"][s] + group[g].outstanding[s]
      /\ aqua[g]["EXIT"][s] + 0 >= ExitProceeds(m, Params[g].bid[s])
      /\ group[g].finalized => aqua[g]["SETTLE"][s] + 0 >= SettleProceeds(m, group[g].ppu[s])
  BY <1>2, AllSound, SideNow DEF SoundNow
<1> HIDE DEF m
<1>6. m = group[g].outstanding[s] + aqua[g]["ISSUE"][s]
  BY <1>3, <1>4, <1>5
<1>7. /\ aqua[g]["EXIT"][s] + 0 = aqua[g]["EXIT"][s]
      /\ aqua[g]["SETTLE"][s] + 0 = aqua[g]["SETTLE"][s]
      /\ held[g][s] + 0 = held[g][s]
  BY <1>3, <1>4
<1>8. /\ aqua[g]["EXIT"][s] >= ExitProceeds(m, Params[g].bid[s])
      /\ group[g].finalized => aqua[g]["SETTLE"][s] >= SettleProceeds(m, group[g].ppu[s])
      /\ held[g][s] <= group[g].outstanding[s]
  BY <1>5, <1>7
<1> QED
  BY <1>4, <1>6, <1>8 DEF m

\* The virtual balances shipped at creation never cut an exit short.
THEOREM ExitTheorem == Spec => []ExitNeverClamped
<1>1. TypeOK /\ ClaimsKept => ExitNeverClamped
  <2> SUFFICES ASSUME VarTypes, ClaimsKept, stack = << >>, NEW g \in Groups, NEW s \in Sides
               PROVE  aqua[g]["EXIT"][s] >=
                        ExitProceeds(group[g].outstanding[s] + aqua[g]["ISSUE"][s],
                                     Params[g].bid[s])
    BY TypeOKByVariable DEF ExitNeverClamped
  <2> QED
    BY QuietSides
<1> QED
  BY <1>1, TypeCorrect, ClaimsKeptInvariant, PTL

\* Burning n units of a finalized side releases at least what they settle for.
LEMMA BurnReleasesOwed ==
    ASSUME NEW out \in UnitsBySide, NEW ppu \in UnitsBySide, NEW s \in Sides,
           NEW n \in Nat, n <= out[s]
    PROVE  /\ FinalLiability([out EXCEPT ![s] = @ - n], ppu) \in Nat
           /\ SettleProceeds(n, ppu[s]) \in Nat
           /\ SettleProceeds(n, ppu[s]) <=
                FinalLiability(out, ppu) - FinalLiability([out EXCEPT ![s] = @ - n], ppu)
<1> DEFINE rest == [out EXCEPT ![s] = @ - n]
<1>1. out[s] \in Nat /\ ppu[s] \in Nat /\ out[s] - n \in Nat /\ n + (out[s] - n) = out[s]
  BY DEF UnitsBySide
<1>2. rest[s] = out[s] - n /\ \A t \in Sides \ {s} : rest[t] = out[t]
  BY DEF UnitsBySide
<1>3. rest \in UnitsBySide
  BY <1>1, <1>2 DEF UnitsBySide
<1>4. /\ FloorMul(n, ppu[s]) \in Nat
      /\ FloorMul(n, ppu[s]) + FloorMul(out[s] - n, ppu[s]) <= FloorMul(out[s], ppu[s])
  BY <1>1, FloorNat, FloorSuperadditive
<1>5. /\ FinalLiability(rest, ppu) \in Nat /\ FinalLiability(out, ppu) \in Nat
  BY <1>3, FinalLiabilityNat
<1> HIDE DEF rest
<1>6. \A t \in Sides : FloorMul(out[t], ppu[t]) \in Nat /\ FloorMul(rest[t], ppu[t]) \in Nat
  BY <1>3, FloorNat DEF UnitsBySide
<1>7. FloorMul(n, ppu[s]) <= FinalLiability(out, ppu) - FinalLiability(rest, ppu)
  <2>1. /\ FinalLiability(out, ppu) =
              FloorMul(out["HIGH"], ppu["HIGH"]) + FloorMul(out["CALM"], ppu["CALM"])
        /\ FinalLiability(rest, ppu) =
              FloorMul(rest["HIGH"], ppu["HIGH"]) + FloorMul(rest["CALM"], ppu["CALM"])
    BY DEF FinalLiability, FinalSideLiability
  <2>2. "HIGH" \in Sides /\ "CALM" \in Sides /\ (s = "HIGH" \/ s = "CALM")
    BY DEF Sides
  <2>3. CASE s = "HIGH"
    <3>1. rest["CALM"] = out["CALM"] /\ rest["HIGH"] = out[s] - n
      BY <1>2, <2>2, <2>3
    <3> QED
      BY <1>4, <1>6, <2>1, <2>2, <2>3, <3>1
  <2>4. CASE s = "CALM"
    <3>1. rest["HIGH"] = out["HIGH"] /\ rest["CALM"] = out[s] - n
      BY <1>2, <2>2, <2>4
    <3> QED
      BY <1>4, <1>6, <2>1, <2>2, <2>4, <3>1
  <2> QED
    BY <2>2, <2>3, <2>4
<1> QED
  BY <1>4, <1>5, <1>7 DEF SettleProceeds, rest

\* A group never has more locked than the vault has.
LEMMA ReservedWithinLock ==
    ASSUME VarTypes, LockedIsReserved, NEW g \in Groups
    PROVE  group[g].reserveLocked <= lockedQuote
<1> DEFINE r == [h \in Groups |-> Reserved(h)]
<1>1. \A h \in Groups : Reserved(h) \in Nat
  BY GroupFields DEF Reserved
<1>2. r \in [Groups -> Nat] /\ r[g] = group[g].reserveLocked + group[g].exitBuffer
  BY <1>1 DEF Reserved
<1>3. lockedQuote = SumFunction(r)
  BY DEF LockedIsReserved
<1> HIDE DEF r
<1>4. r[g] <= SumFunction(r)
  BY <1>2, GroupsAssumption, SumBound
<1> QED
  BY <1>2, <1>3, <1>4, GroupFields DEF VarTypes

\* What _priceSettle, Aqua, onBurn and the vault check of a settlement all
\* holds for every amount a holder has, once the group is finalized.
THEOREM RedeemTheorem ==
    ASSUME QuietAfterBurn
    PROVE  Spec => []RedeemInFull
<1>1. TypeOK /\ ClaimsKept /\ Backed /\ LockedIsReserved /\ Solvent => RedeemInFull
  <2> SUFFICES ASSUME VarTypes, ClaimsKept, Backed, LockedIsReserved, Solvent, stack = << >>,
                      NEW g \in Groups, NEW s \in Sides, group[g].finalized,
                      NEW n \in 1..held[g][s]
               PROVE  Redeemable(g, s, n)
    BY TypeOKByVariable DEF RedeemInFull
  <2> DEFINE out == group[g].outstanding
             ppu == group[g].ppu
             rest == FinalLiability([out EXCEPT ![s] = @ - n], ppu)
             owed == SettleProceeds(n, ppu[s])
             m == held[g][s] + inventory[g][s]
  <2>1. /\ held[g][s] \in Nat /\ inventory[g][s] \in Nat /\ n \in Nat /\ n <= held[g][s]
        /\ out \in UnitsBySide /\ ppu \in UnitsBySide /\ out[s] \in Nat /\ ppu[s] \in Nat
        /\ m \in Nat
    BY GroupFields
  <2>2. /\ held[g][s] <= out[s]
        /\ aqua[g]["SETTLE"][s] >= SettleProceeds(m, ppu[s])
    BY QuietSides
  <2>3. n <= out[s] /\ n <= m
    BY <2>1, <2>2
  <2>4. aqua[g]["SETTLE"][s] \in Nat
    BY DEF VarTypes, UnitsBySide, Kinds
  <2>5. group[g].reserveLocked = FinalLiability(out, ppu) /\ group[g].reserveLocked \in Nat
    BY GroupFields DEF Backed, GroupBacked
  <2>6. group[g].reserveLocked <= lockedQuote /\ balance >= lockedQuote
    BY ReservedWithinLock DEF Solvent
  <2>7. balance \in Nat /\ lockedQuote \in Nat
    BY DEF VarTypes
  <2> HIDE DEF m, out, ppu
  <2>8. rest \in Nat /\ owed \in Nat /\ owed <= FinalLiability(out, ppu) - rest
    BY <2>1, <2>3, BurnReleasesOwed
  <2>9. owed <= aqua[g]["SETTLE"][s]
    <3>1. FloorMul(n, ppu[s]) <= FloorMul(m, ppu[s]) /\ FloorMul(m, ppu[s]) \in Nat
      BY <2>1, <2>3, FloorMonotone, FloorNat
    <3> QED
      BY <2>2, <2>4, <2>8, <3>1 DEF SettleProceeds
  <2> HIDE DEF rest, owed
  <2> DEFINE released == group[g].reserveLocked - rest
  <2>10. released \in Int /\ owed <= released /\ released <= lockedQuote
    BY <2>5, <2>6, <2>7, <2>8
  <2> HIDE DEF released
  <2>11. owed <= balance /\ balance - owed >= lockedQuote - released
    BY <2>6, <2>7, <2>8, <2>10
  <2> QED
    BY <2>3, <2>9, <2>10, <2>11 DEF Redeemable, owed, released, rest, out, ppu
<1>2. Spec => []Solvent
  BY SolvencyTheorem
<1> QED
  BY <1>1, <1>2, TypeCorrect, ClaimsKeptInvariant, BackedAlways, LockTheorem, PTL

-----------------------------------------------------------------------------
(***************************************************************************)
(* The index.  What the handlers of the subgraph make of a transaction's   *)
(* logs mirrors the ledger at every moment, of the swaps in flight too.    *)
(***************************************************************************)

-----------------------------------------------------------------------------
(* Folding logs *)

Folded(d, logs) == FoldLeft(Handle, d, logs)

FoldStep(d, logs, h, s) ==
    IF s = {} THEN d ELSE Handle(h[s \ {Max(s)}], logs[Max(s)])

\* h gives the fold over the logs of every subset of S.
Folds(d, logs, S, h) == h = [s \in SUBSET S |-> FoldStep(d, logs, h, s)]

LEMMA FoldAsRecursion ==
    ASSUME NEW d, NEW logs
    PROVE  Folded(d, logs) = (CHOOSE h : Folds(d, logs, DOMAIN logs, h))[DOMAIN logs]
  BY DEF Folded, FoldLeft, MapThenFoldSet, Folds, FoldStep

\* The recursion has one solution at most, whatever set it is taken over.
LEMMA FoldsAgree ==
    ASSUME NEW n \in Nat, NEW T, T = 1..n, NEW d,
           NEW l, NEW S, T \subseteq S, NEW h, Folds(d, l, S, h),
           NEW m, NEW k, Folds(d, m, T, k),
           \A i \in T : l[i] = m[i]
    PROVE  h[T] = k[T]
<1> DEFINE F == {s \in SUBSET T : h[s] # k[s]}
<1> SUFFICES ASSUME F # {} PROVE FALSE
  OBVIOUS
<1>1. IsFiniteSet(T)
  <2>1. 1 \in Int /\ n \in Int
    OBVIOUS
  <2>2. IsFiniteSet(1..n)
    BY <2>1, FS_Interval
  <2> QED
    BY <2>2
<1>2. PICK s \in F : \A U \in F : U \subseteq s => U = s
  <2>1. F \subseteq SUBSET T
    OBVIOUS
  <2> HIDE DEF F
  <2> QED
    BY ONLY F # {}, <1>1, <2>1, LeastSubset
<1>3. h[s] = FoldStep(d, l, h, s) /\ k[s] = FoldStep(d, m, k, s)
  <2>1. s \in SUBSET S /\ s \in SUBSET T
    OBVIOUS
  <2> QED
    BY <2>1 DEF Folds
<1>4. s # {} /\ s \in SUBSET (1..n)
  BY <1>3 DEF FoldStep
<1>5. Max(s) \in s
  <2>1. s \subseteq 0 .. n
    BY <1>4
  <2> QED
    BY <1>4, <2>1, MaxOfNumbers
<1>6. h[s \ {Max(s)}] = k[s \ {Max(s)}]
  BY <1>2, <1>5
<1>7. l[Max(s)] = m[Max(s)]
  BY <1>5
<1> QED
  BY <1>3, <1>4, <1>6, <1>7 DEF FoldStep

\* And it has a solution.
LEMMA FoldsExist ==
    ASSUME NEW n \in Nat, NEW d, NEW l
    PROVE  \E h : Folds(d, l, 1..n, h)
<1> DEFINE Solved(i) == \E h : Folds(d, l, 1..i, h)
           I == {i \in Nat : Solved(i)}
<1>1. 0 \in I
  <2> DEFINE h == [s \in SUBSET {} |-> d]
  <2>1. 1..0 = {}
    OBVIOUS
  <2>2. \A s \in SUBSET {} : FoldStep(d, l, h, s) = d
    BY DEF FoldStep
  <2>3. h = [s \in SUBSET {} |-> FoldStep(d, l, h, s)]
    BY <2>2
  <2>4. Folds(d, l, 1..0, h)
    BY <2>1, <2>3 DEF Folds
  <2> QED
    BY <2>4
<1>2. ASSUME NEW i \in Nat, i \in I PROVE i + 1 \in I
  <2>1. PICK h : Folds(d, l, 1..i, h)
    BY <1>2
  <2> DEFINE S == SUBSET (1..(i + 1))
             k == [s \in S |-> IF i + 1 \notin s THEN h[s]
                               ELSE Handle(h[s \ {i + 1}], l[i + 1])]
  <2>2. ASSUME NEW s \in S PROVE k[s] = FoldStep(d, l, k, s)
    <3>1. CASE i + 1 \in s
      <4>1. Max(s) \in s /\ \A y \in s : y <= Max(s)
        <5>1. i + 1 \in Nat /\ s # {} /\ s \subseteq 0 .. (i + 1)
          BY <3>1
        <5> QED
          BY <5>1, MaxOfNumbers
      <4>2. Max(s) = i + 1
        <5> DEFINE c == Max(s)
        <5>1. c \in 1..(i + 1) /\ c >= i + 1
          BY <3>1, <4>1
        <5> HIDE DEF c
        <5>2. c = i + 1
          BY <5>1
        <5> QED
          BY <5>2 DEF c
      <4>3. s \ {i + 1} \in S /\ i + 1 \notin s \ {i + 1}
        OBVIOUS
      <4>4. k[s \ {i + 1}] = h[s \ {i + 1}]
        BY <4>3
      <4>5. k[s] = Handle(h[s \ {i + 1}], l[i + 1])
        BY <3>1
      <4> HIDE DEF k, S
      <4> QED
        BY <3>1, <4>2, <4>4, <4>5 DEF FoldStep
    <3>2. CASE i + 1 \notin s
      <4>1. s \in SUBSET (1..i)
        BY <3>2
      <4>2. k[s] = FoldStep(d, l, h, s)
        <5>1. h[s] = FoldStep(d, l, h, s)
          BY <2>1, <4>1 DEF Folds
        <5> QED
          BY <3>2, <5>1
      <4>3. s # {} => k[s \ {Max(s)}] = h[s \ {Max(s)}]
        <5>1. s \ {Max(s)} \in S /\ i + 1 \notin s \ {Max(s)}
          BY <3>2
        <5> QED
          BY <5>1
      <4> HIDE DEF k, S
      <4> QED
        BY <4>2, <4>3 DEF FoldStep
    <3> QED
      BY <3>1, <3>2
  <2>3. k = [s \in S |-> k[s]]
    OBVIOUS
  <2> HIDE DEF k
  <2>4. k = [s \in S |-> FoldStep(d, l, k, s)]
    BY <2>2, <2>3
  <2>5. Folds(d, l, 1..(i + 1), k)
    BY <2>4 DEF Folds
  <2> QED
    BY <2>5
<1>3. Nat \subseteq I
  <2> HIDE DEF I
  <2> QED
    BY <1>1, <1>2, NatInductive
<1> QED
  BY <1>3

LEMMA FoldedUpTo ==
    ASSUME NEW d, NEW l, NEW n \in Nat, DOMAIN l = 1..n, NEW h, Folds(d, l, 1..n, h)
    PROVE  Folded(d, l) = h[1..n]
<1> DEFINE k == CHOOSE k : Folds(d, l, 1..n, k)
<1>1. Folded(d, l) = k[1..n]
  BY FoldAsRecursion
<1>2. Folds(d, l, 1..n, k)
  OBVIOUS
<1> HIDE DEF k
<1> DEFINE T == 1..n
<1>3. h[T] = k[T]
  <2>1. T = 1..n /\ T \subseteq T /\ \A i \in T : l[i] = l[i]
    OBVIOUS
  <2> HIDE DEF T
  <2> QED
    BY <1>2, <2>1, FoldsAgree
<1> QED
  BY <1>1, <1>3

LEMMA FoldNothing ==
    ASSUME NEW d
    PROVE  Folded(d, << >>) = d
<1>1. PICK h : Folds(d, << >>, 1..0, h)
  BY FoldsExist
<1>2. Folded(d, << >>) = h[1..0]
  <2>1. DOMAIN << >> = 1..0 /\ 0 \in Nat
    OBVIOUS
  <2> QED
    BY <1>1, <2>1, FoldedUpTo
<1>3. 1..0 = {}
  OBVIOUS
<1> QED
  BY <1>1, <1>2, <1>3 DEF Folds, FoldStep

\* One more log is one more step.
LEMMA FoldAppend ==
    ASSUME NEW d, NEW S, NEW l \in Seq(S), NEW e
    PROVE  Folded(d, Append(l, e)) = Handle(Folded(d, l), e)
<1> DEFINE n == Len(l)
           m == Append(l, e)
<1>1. n \in Nat /\ DOMAIN l = 1..n
  OBVIOUS
<1>2. DOMAIN m = 1..(n + 1) /\ m[n + 1] = e /\ \A i \in 1..n : m[i] = l[i]
  OBVIOUS
<1> HIDE DEF n, m
<1>3. PICK h : Folds(d, m, 1..(n + 1), h)
  BY <1>1, FoldsExist
<1>4. PICK k : Folds(d, l, 1..n, k)
  BY <1>1, FoldsExist
<1>5. Folded(d, m) = h[1..(n + 1)] /\ Folded(d, l) = k[1..n]
  <2>1. n + 1 \in Nat
    BY <1>1
  <2> QED
    BY <1>1, <1>2, <1>3, <1>4, <2>1, FoldedUpTo
<1>6. h[1..n] = k[1..n]
  <2> DEFINE S1 == 1..(n + 1)
             T == 1..n
  <2>1. T = 1..n /\ T \subseteq S1 /\ n \in Nat
    BY <1>1
  <2>2. Folds(d, m, S1, h) /\ Folds(d, l, T, k) /\ \A i \in T : m[i] = l[i]
    BY <1>2, <1>3, <1>4
  <2> HIDE DEF S1, T
  <2>3. h[T] = k[T]
    BY ONLY <2>1, <2>2, FoldsAgree
  <2> QED
    BY <2>1, <2>3
<1>7. Max(1..(n + 1)) = n + 1
  <2>1. n + 1 \in Nat /\ n + 1 \in 1..(n + 1)
    BY <1>1
  <2>2. 1..(n + 1) \subseteq 0 .. (n + 1) /\ 1..(n + 1) # {}
    BY <2>1
  <2>3. Max(1..(n + 1)) \in 1..(n + 1) /\ \A y \in 1..(n + 1) : y <= Max(1..(n + 1))
    BY <2>1, <2>2, MaxOfNumbers
  <2> QED
    BY <1>1, <2>1, <2>3
<1>8. (1..(n + 1)) \ {n + 1} = 1..n /\ 1..(n + 1) # {}
  BY <1>1
<1>9. h[1..(n + 1)] = Handle(h[1..n], m[n + 1])
  BY <1>3, <1>7, <1>8 DEF Folds, FoldStep
<1> QED
  BY <1>2, <1>5, <1>6, <1>9 DEF m

-----------------------------------------------------------------------------
(* The entities and the ledger *)

Records == [EventTypes -> UnitsBySide]

\* The event records add up to what is outstanding.
AddsUp(out, record) ==
    \A s \in Sides :
        out[s] = record["issued"][s] - record["exited"][s]
                    - record["settled"][s] - record["worthless_burned"][s]

Fields == {"outstanding", "reserveLocked", "exitBuffer", "finalized", "ppu", "record"}

\* Entity x mirrors a group in state r.
Mirrored(x, r) ==
    /\ DOMAIN x = Fields
    /\ x.outstanding = r.outstanding /\ x.reserveLocked = r.reserveLocked
    /\ x.exitBuffer = r.exitBuffer /\ x.finalized = r.finalized /\ x.ppu = r.ppu
    /\ x.record \in Records /\ AddsUp(r.outstanding, x.record)

\* The entities d mirror the groups gr.
Mirrors(d, gr) ==
    /\ DOMAIN d = {g \in Groups : gr[g].created}
    /\ \A g \in Groups : IF gr[g].created THEN Mirrored(d[g], gr[g]) ELSE gr[g] = EmptyGroup

LEMMA RecordedUnits ==
    ASSUME NEW record \in Records, NEW type \in EventTypes, NEW e,
           e.side \in Sides, e.units \in Nat
    PROVE  /\ Recorded(record, type, e) \in Records
           /\ \A t \in EventTypes, s \in Sides :
                Recorded(record, type, e)[t][s] =
                    IF t = type /\ s = e.side THEN record[t][s] + e.units ELSE record[t][s]
<1> DEFINE row == [record[type] EXCEPT ![e.side] = @ + e.units]
<1>1. Recorded(record, type, e) = [record EXCEPT ![type] = row]
  BY DEF Recorded
<1>2. record[type] \in UnitsBySide
  BY DEF Records
<1>3. row \in UnitsBySide /\ \A s \in Sides : row[s] = IF s = e.side THEN record[type][s] + e.units
                                                        ELSE record[type][s]
  BY <1>2 DEF UnitsBySide
<1> HIDE DEF row
<1> QED
  BY <1>1, <1>3 DEF Records

LEMMA IssuedAddsUp ==
    ASSUME NEW out \in UnitsBySide, NEW record \in Records, AddsUp(out, record),
           NEW e, e.side \in Sides, e.units \in Nat
    PROVE  AddsUp([out EXCEPT ![e.side] = @ + e.units], Recorded(record, "issued", e))
<1> DEFINE new == Recorded(record, "issued", e)
           out2 == [out EXCEPT ![e.side] = @ + e.units]
<1>1. \A t \in EventTypes, s \in Sides :
        new[t][s] = IF t = "issued" /\ s = e.side THEN record[t][s] + e.units ELSE record[t][s]
  <2>1. "issued" \in EventTypes
    BY DEF EventTypes
  <2> QED
    BY <2>1, RecordedUnits
<1> HIDE DEF new
<1>2. ASSUME NEW s \in Sides
      PROVE  out2[s] = new["issued"][s] - new["exited"][s] - new["settled"][s]
                          - new["worthless_burned"][s]
  <2>1. /\ new["issued"][s] = IF s = e.side THEN record["issued"][s] + e.units
                              ELSE record["issued"][s]
        /\ new["exited"][s] = record["exited"][s]
        /\ new["settled"][s] = record["settled"][s]
        /\ new["worthless_burned"][s] = record["worthless_burned"][s]
    BY <1>1 DEF EventTypes
  <2>2. \A t \in EventTypes : record[t][s] \in Nat
    BY DEF Records, UnitsBySide
  <2>3. /\ record["issued"][s] \in Nat /\ record["exited"][s] \in Nat
        /\ record["settled"][s] \in Nat /\ record["worthless_burned"][s] \in Nat
    BY <2>2 DEF EventTypes
  <2>4. out2[s] = IF s = e.side THEN out[s] + e.units ELSE out[s]
    BY DEF UnitsBySide
  <2>5. out[s] = record["issued"][s] - record["exited"][s] - record["settled"][s]
                    - record["worthless_burned"][s]
    BY DEF AddsUp
  <2> HIDE DEF out2
  <2> QED
    BY <2>1, <2>3, <2>4, <2>5
<1> QED
  BY <1>2 DEF AddsUp, new

LEMMA LeftAddsUp ==
    ASSUME NEW out \in UnitsBySide, NEW record \in Records, AddsUp(out, record),
           NEW type \in {"exited", "settled", "worthless_burned"},
           NEW e, e.side \in Sides, e.units \in Nat
    PROVE  AddsUp([out EXCEPT ![e.side] = @ - e.units], Recorded(record, type, e))
<1> DEFINE new == Recorded(record, type, e)
           out2 == [out EXCEPT ![e.side] = @ - e.units]
<1>1. \A t \in EventTypes, s \in Sides :
        new[t][s] = IF t = type /\ s = e.side THEN record[t][s] + e.units ELSE record[t][s]
  <2>1. type \in EventTypes
    BY DEF EventTypes
  <2> QED
    BY <2>1, RecordedUnits
<1> HIDE DEF new
<1>2. ASSUME NEW s \in Sides
      PROVE  out2[s] = new["issued"][s] - new["exited"][s] - new["settled"][s]
                          - new["worthless_burned"][s]
  <2> DEFINE more(t) == IF t = type /\ s = e.side THEN record[t][s] + e.units ELSE record[t][s]
  <2>1. /\ new["issued"][s] = record["issued"][s]
        /\ new["exited"][s] = more("exited")
        /\ new["settled"][s] = more("settled")
        /\ new["worthless_burned"][s] = more("worthless_burned")
    BY <1>1 DEF EventTypes
  <2>2. \A t \in EventTypes : record[t][s] \in Nat
    BY DEF Records, UnitsBySide
  <2>3. /\ record["issued"][s] \in Nat /\ record["exited"][s] \in Nat
        /\ record["settled"][s] \in Nat /\ record["worthless_burned"][s] \in Nat
    BY <2>2 DEF EventTypes
  <2>4. out2[s] = IF s = e.side THEN out[s] - e.units ELSE out[s]
    BY DEF UnitsBySide
  <2>5. out[s] = record["issued"][s] - record["exited"][s] - record["settled"][s]
                    - record["worthless_burned"][s]
    BY DEF AddsUp
  <2> HIDE DEF out2
  <2>6. CASE s = e.side
    BY <2>1, <2>3, <2>4, <2>5, <2>6
  <2>7. CASE s # e.side
    BY <2>1, <2>3, <2>4, <2>5, <2>7
  <2> QED
    BY <2>6, <2>7
<1> QED
  BY <1>2 DEF AddsUp, new

\* One group changes, and its entity with it.
LEMMA MirrorsStep ==
    ASSUME NEW gr \in [Groups -> GroupState], NEW g \in Groups, gr[g].created, NEW r,
           r.created, NEW d, Mirrors(d, gr), NEW x, Mirrored(x, r)
    PROVE  Mirrors([d EXCEPT ![g] = x], [gr EXCEPT ![g] = r])
<1> DEFINE d2 == [d EXCEPT ![g] = x]
           gr2 == [gr EXCEPT ![g] = r]
<1>1. g \in DOMAIN d
  BY DEF Mirrors
<1>2. DOMAIN d2 = DOMAIN d /\ d2[g] = x /\ \A h \in DOMAIN d : h # g => d2[h] = d[h]
  BY <1>1
<1>3. gr2[g] = r /\ \A h \in Groups : h # g => gr2[h] = gr[h]
  OBVIOUS
<1> HIDE DEF d2, gr2
<1>4. DOMAIN d2 = {h \in Groups : gr2[h].created}
  BY <1>2, <1>3 DEF Mirrors
<1>5. ASSUME NEW h \in Groups
      PROVE  IF gr2[h].created THEN Mirrored(d2[h], gr2[h]) ELSE gr2[h] = EmptyGroup
  <2>1. CASE h = g
    BY <1>2, <1>3, <2>1
  <2>2. CASE h # g
    <3>1. gr2[h] = gr[h] /\ (h \in DOMAIN d => d2[h] = d[h])
      BY <1>2, <1>3, <2>2
    <3>2. gr[h].created => h \in DOMAIN d
      BY DEF Mirrors
    <3> QED
      BY <3>1, <3>2 DEF Mirrors
  <2> QED
    BY <2>1, <2>2
<1> QED
  BY <1>4, <1>5 DEF Mirrors, d2, gr2
-----------------------------------------------------------------------------
(* The handlers *)

\* Whatever mirrored group g before event e mirrors r2 once it is handled.
Follows(e, g, r2) ==
    \A d : g \in DOMAIN d /\ Mirrored(d[g], group[g])
            => \E x : Handle(d, e) = [d EXCEPT ![g] = x] /\ Mirrored(x, r2)

LEMMA IssueFollows ==
    ASSUME VarTypes, NEW g \in Groups, NEW r2, NEW e,
           e.event = "PortfolioIssued", e.group = g, e.side \in Sides, e.units \in Nat,
           r2.outstanding = [group[g].outstanding EXCEPT ![e.side] = @ + e.units],
           e.outstanding = r2.outstanding, e.reserveLocked = r2.reserveLocked,
           r2.exitBuffer = group[g].exitBuffer, r2.finalized = group[g].finalized,
           r2.ppu = group[g].ppu
    PROVE  Follows(e, g, r2)
<1> SUFFICES ASSUME NEW d, g \in DOMAIN d, Mirrored(d[g], group[g])
             PROVE  \E x : Handle(d, e) = [d EXCEPT ![g] = x] /\ Mirrored(x, r2)
  BY DEF Follows
<1>1. Handle(d, e) = HandlePortfolioIssued(d, e)
  BY DEF Handle
<1> DEFINE y == d[g]
           x == [y EXCEPT !.outstanding = e.outstanding, !.reserveLocked = e.reserveLocked,
                       !.record = Recorded(y.record, "issued", e)]
<1>2. Handle(d, e) = [d EXCEPT ![g] = x]
  BY <1>1 DEF HandlePortfolioIssued
<1>3. /\ DOMAIN y = Fields
      /\ y.outstanding = group[g].outstanding /\ y.reserveLocked = group[g].reserveLocked
      /\ y.exitBuffer = group[g].exitBuffer /\ y.finalized = group[g].finalized
      /\ y.ppu = group[g].ppu
      /\ y.record \in Records /\ AddsUp(group[g].outstanding, y.record)
  BY DEF Mirrored
<1> HIDE DEF y
<1>4. /\ DOMAIN x = Fields
      /\ x.outstanding = r2.outstanding /\ x.reserveLocked = r2.reserveLocked
      /\ x.exitBuffer = r2.exitBuffer /\ x.finalized = r2.finalized /\ x.ppu = r2.ppu
      /\ x.record = Recorded(y.record, "issued", e)
  BY <1>3 DEF Fields
<1>5. x.record \in Records /\ AddsUp(r2.outstanding, x.record)
  <2>1. group[g].outstanding \in UnitsBySide
    BY GroupFields
  <2>2. "issued" \in EventTypes
    BY DEF EventTypes
  <2> HIDE DEF x
  <2> QED
    BY <1>3, <1>4, <2>1, <2>2, RecordedUnits, IssuedAddsUp
<1> HIDE DEF x
<1>6. Mirrored(x, r2)
  BY <1>4, <1>5 DEF Mirrored
<1> QED
  BY <1>2, <1>6

LEMMA ExitFollows ==
    ASSUME VarTypes, NEW g \in Groups, NEW r2, NEW e,
           e.event = "PortfolioExited", e.group = g, e.side \in Sides, e.units \in Nat,
           r2.outstanding = [group[g].outstanding EXCEPT ![e.side] = @ - e.units],
           e.reserveLocked = r2.reserveLocked,
           r2.exitBuffer = group[g].exitBuffer - e.bufferDrawn,
           r2.finalized = group[g].finalized, r2.ppu = group[g].ppu
    PROVE  Follows(e, g, r2)
<1> SUFFICES ASSUME NEW d, g \in DOMAIN d, Mirrored(d[g], group[g])
             PROVE  \E x : Handle(d, e) = [d EXCEPT ![g] = x] /\ Mirrored(x, r2)
  BY DEF Follows
<1>1. Handle(d, e) = HandlePortfolioExited(d, e)
  BY DEF Handle
<1> DEFINE y == d[g]
           z == Reduced(y, "exited", e)
           x == [z EXCEPT !.exitBuffer = @ - e.bufferDrawn]
<1>2. Handle(d, e) = [d EXCEPT ![g] = x]
  BY <1>1 DEF HandlePortfolioExited
<1>3. /\ DOMAIN y = Fields
      /\ y.outstanding = group[g].outstanding /\ y.reserveLocked = group[g].reserveLocked
      /\ y.exitBuffer = group[g].exitBuffer /\ y.finalized = group[g].finalized
      /\ y.ppu = group[g].ppu
      /\ y.record \in Records /\ AddsUp(group[g].outstanding, y.record)
  BY DEF Mirrored
<1> HIDE DEF y
<1>4. /\ DOMAIN x = Fields
      /\ x.outstanding = r2.outstanding /\ x.reserveLocked = r2.reserveLocked
      /\ x.exitBuffer = r2.exitBuffer /\ x.finalized = r2.finalized /\ x.ppu = r2.ppu
      /\ x.record = Recorded(y.record, "exited", e)
  <2>1. /\ DOMAIN z = Fields
        /\ z.outstanding = r2.outstanding /\ z.reserveLocked = r2.reserveLocked
        /\ z.exitBuffer = y.exitBuffer /\ z.finalized = r2.finalized /\ z.ppu = r2.ppu
        /\ z.record = Recorded(y.record, "exited", e)
    BY <1>3 DEF Fields, Reduced
  <2> HIDE DEF z
  <2> QED
    BY <1>3, <2>1 DEF Fields
<1>5. x.record \in Records /\ AddsUp(r2.outstanding, x.record)
  <2>1. group[g].outstanding \in UnitsBySide
    BY GroupFields
  <2>2. "exited" \in EventTypes /\ "exited" \in {"exited", "settled", "worthless_burned"}
    BY DEF EventTypes
  <2> HIDE DEF x
  <2> QED
    BY <1>3, <1>4, <2>1, <2>2, RecordedUnits, LeftAddsUp
<1> HIDE DEF x
<1>6. Mirrored(x, r2)
  BY <1>4, <1>5 DEF Mirrored
<1> QED
  BY <1>2, <1>6

LEMMA SettleFollows ==
    ASSUME VarTypes, NEW g \in Groups, NEW r2, NEW e,
           e.event = "PortfolioSettled", e.group = g, e.side \in Sides, e.units \in Nat,
           r2.outstanding = [group[g].outstanding EXCEPT ![e.side] = @ - e.units],
           e.reserveLocked = r2.reserveLocked, r2.exitBuffer = group[g].exitBuffer,
           r2.finalized = group[g].finalized, r2.ppu = group[g].ppu
    PROVE  Follows(e, g, r2)
<1> SUFFICES ASSUME NEW d, g \in DOMAIN d, Mirrored(d[g], group[g])
             PROVE  \E x : Handle(d, e) = [d EXCEPT ![g] = x] /\ Mirrored(x, r2)
  BY DEF Follows
<1>1. Handle(d, e) = HandlePortfolioSettled(d, e)
  BY DEF Handle
<1> DEFINE y == d[g]
           x == Reduced(y, "settled", e)
<1>2. Handle(d, e) = [d EXCEPT ![g] = x]
  BY <1>1 DEF HandlePortfolioSettled
<1>3. /\ DOMAIN y = Fields
      /\ y.outstanding = group[g].outstanding /\ y.reserveLocked = group[g].reserveLocked
      /\ y.exitBuffer = group[g].exitBuffer /\ y.finalized = group[g].finalized
      /\ y.ppu = group[g].ppu
      /\ y.record \in Records /\ AddsUp(group[g].outstanding, y.record)
  BY DEF Mirrored
<1> HIDE DEF y
<1>4. /\ DOMAIN x = Fields
      /\ x.outstanding = r2.outstanding /\ x.reserveLocked = r2.reserveLocked
      /\ x.exitBuffer = r2.exitBuffer /\ x.finalized = r2.finalized /\ x.ppu = r2.ppu
      /\ x.record = Recorded(y.record, "settled", e)
  BY <1>3 DEF Fields, Reduced
<1>5. x.record \in Records /\ AddsUp(r2.outstanding, x.record)
  <2>1. group[g].outstanding \in UnitsBySide
    BY GroupFields
  <2>2. "settled" \in EventTypes /\ "settled" \in {"exited", "settled", "worthless_burned"}
    BY DEF EventTypes
  <2> HIDE DEF x
  <2> QED
    BY <1>3, <1>4, <2>1, <2>2, RecordedUnits, LeftAddsUp
<1> HIDE DEF x
<1>6. Mirrored(x, r2)
  BY <1>4, <1>5 DEF Mirrored
<1> QED
  BY <1>2, <1>6

LEMMA WorthlessFollows ==
    ASSUME VarTypes, NEW g \in Groups, NEW r2, NEW e,
           e.event = "WorthlessBurned", e.group = g, e.side \in Sides, e.units \in Nat,
           r2.outstanding = [group[g].outstanding EXCEPT ![e.side] = @ - e.units],
           r2.reserveLocked = group[g].reserveLocked, r2.exitBuffer = group[g].exitBuffer,
           r2.finalized = group[g].finalized, r2.ppu = group[g].ppu
    PROVE  Follows(e, g, r2)
<1> SUFFICES ASSUME NEW d, g \in DOMAIN d, Mirrored(d[g], group[g])
             PROVE  \E x : Handle(d, e) = [d EXCEPT ![g] = x] /\ Mirrored(x, r2)
  BY DEF Follows
<1>1. Handle(d, e) = HandleWorthlessBurned(d, e)
  BY DEF Handle
<1> DEFINE y == d[g]
           x == [y EXCEPT !.outstanding[e.side] = @ - e.units,
                       !.record = Recorded(y.record, "worthless_burned", e)]
<1>2. Handle(d, e) = [d EXCEPT ![g] = x]
  BY <1>1 DEF HandleWorthlessBurned
<1>3. /\ DOMAIN y = Fields
      /\ y.outstanding = group[g].outstanding /\ y.reserveLocked = group[g].reserveLocked
      /\ y.exitBuffer = group[g].exitBuffer /\ y.finalized = group[g].finalized
      /\ y.ppu = group[g].ppu
      /\ y.record \in Records /\ AddsUp(group[g].outstanding, y.record)
  BY DEF Mirrored
<1> HIDE DEF y
<1>4. /\ DOMAIN x = Fields
      /\ x.outstanding = r2.outstanding /\ x.reserveLocked = r2.reserveLocked
      /\ x.exitBuffer = r2.exitBuffer /\ x.finalized = r2.finalized /\ x.ppu = r2.ppu
      /\ x.record = Recorded(y.record, "worthless_burned", e)
  BY <1>3 DEF Fields
<1>5. x.record \in Records /\ AddsUp(r2.outstanding, x.record)
  <2>1. group[g].outstanding \in UnitsBySide
    BY GroupFields
  <2>2. "worthless_burned" \in EventTypes /\ "worthless_burned" \in {"exited", "settled", "worthless_burned"}
    BY DEF EventTypes
  <2> HIDE DEF x
  <2> QED
    BY <1>3, <1>4, <2>1, <2>2, RecordedUnits, LeftAddsUp
<1> HIDE DEF x
<1>6. Mirrored(x, r2)
  BY <1>4, <1>5 DEF Mirrored
<1> QED
  BY <1>2, <1>6

LEMMA FinalizeFollows ==
    ASSUME VarTypes, NEW g \in Groups, NEW r2, NEW e,
           e.event = "GroupFinalized", e.group = g, e.ppu = r2.ppu,
           r2.outstanding = group[g].outstanding, r2.finalized = TRUE, r2.exitBuffer = 0,
           r2.reserveLocked = FinalLiability(r2.outstanding, r2.ppu)
    PROVE  Follows(e, g, r2)
<1> SUFFICES ASSUME NEW d, g \in DOMAIN d, Mirrored(d[g], group[g])
             PROVE  \E x : Handle(d, e) = [d EXCEPT ![g] = x] /\ Mirrored(x, r2)
  BY DEF Follows
<1>1. Handle(d, e) = HandleGroupFinalized(d, e)
  BY DEF Handle
<1> DEFINE y == d[g]
           total == SideLiability(y.outstanding["HIGH"], e.ppu["HIGH"])
                      + SideLiability(y.outstanding["CALM"], e.ppu["CALM"])
           x == [y EXCEPT !.finalized = TRUE, !.ppu = e.ppu, !.exitBuffer = 0,
                          !.reserveLocked = total]
<1>2. Handle(d, e) = [d EXCEPT ![g] = x]
  BY <1>1 DEF HandleGroupFinalized
<1>3. /\ DOMAIN y = Fields
      /\ y.outstanding = group[g].outstanding /\ y.reserveLocked = group[g].reserveLocked
      /\ y.exitBuffer = group[g].exitBuffer /\ y.finalized = group[g].finalized
      /\ y.ppu = group[g].ppu
      /\ y.record \in Records /\ AddsUp(group[g].outstanding, y.record)
  BY DEF Mirrored
<1> HIDE DEF y
<1>4. /\ DOMAIN x = Fields
      /\ x.outstanding = r2.outstanding /\ x.reserveLocked = r2.reserveLocked
      /\ x.exitBuffer = r2.exitBuffer /\ x.finalized = r2.finalized /\ x.ppu = r2.ppu
      /\ x.record = y.record
  <2>1. total = r2.reserveLocked
    BY <1>3 DEF SideLiability, FinalLiability, FinalSideLiability, FloorMul
  <2> HIDE DEF total
  <2> QED
    BY <1>3, <2>1 DEF Fields
<1> HIDE DEF x
<1>5. Mirrored(x, r2)
  BY <1>3, <1>4 DEF Mirrored
<1> QED
  BY <1>2, <1>5

LEMMA BufferFollows ==
    ASSUME VarTypes, NEW g \in Groups, NEW r2, NEW e,
           e.event \in {"ExitBufferFunded", "ExitBufferWithdrawn"}, e.group = g,
           e.newBuffer = r2.exitBuffer,
           r2.outstanding = group[g].outstanding, r2.reserveLocked = group[g].reserveLocked,
           r2.finalized = group[g].finalized, r2.ppu = group[g].ppu
    PROVE  Follows(e, g, r2)
<1> SUFFICES ASSUME NEW d, g \in DOMAIN d, Mirrored(d[g], group[g])
             PROVE  \E x : Handle(d, e) = [d EXCEPT ![g] = x] /\ Mirrored(x, r2)
  BY DEF Follows
<1>1. Handle(d, e) = HandleExitBufferFunded(d, e)
  BY DEF Handle, HandleExitBufferFunded, HandleExitBufferWithdrawn
<1> DEFINE y == d[g]
           x == [y EXCEPT !.exitBuffer = e.newBuffer]
<1>2. Handle(d, e) = [d EXCEPT ![g] = x]
  BY <1>1 DEF HandleExitBufferFunded
<1>3. /\ DOMAIN y = Fields
      /\ y.outstanding = group[g].outstanding /\ y.reserveLocked = group[g].reserveLocked
      /\ y.exitBuffer = group[g].exitBuffer /\ y.finalized = group[g].finalized
      /\ y.ppu = group[g].ppu
      /\ y.record \in Records /\ AddsUp(group[g].outstanding, y.record)
  BY DEF Mirrored
<1> HIDE DEF y
<1>4. /\ DOMAIN x = Fields
      /\ x.outstanding = r2.outstanding /\ x.reserveLocked = r2.reserveLocked
      /\ x.exitBuffer = r2.exitBuffer /\ x.finalized = r2.finalized /\ x.ppu = r2.ppu
      /\ x.record = y.record
  BY <1>3 DEF Fields
<1> HIDE DEF x
<1>5. Mirrored(x, r2)
  BY <1>3, <1>4 DEF Mirrored
<1> QED
  BY <1>2, <1>5
-----------------------------------------------------------------------------
(* What each step logs *)

\* Handling these logs keeps the entities a mirror of the groups.
Faithful(logs) ==
    \/ logs = << >> /\ UNCHANGED group
    \/ \E e : /\ logs = <<e>>
              /\ \A d : Mirrors(d, group) => Mirrors(Handle(d, e), group')

LEMMA OneLog ==
    ASSUME VarTypes, NEW g \in Groups, group[g].created, NEW r2, r2.created,
           group' = [group EXCEPT ![g] = r2], NEW e, Follows(e, g, r2)
    PROVE  Faithful(<<e>>)
<1>1. group \in [Groups -> GroupState]
  BY DEF VarTypes
<1>2. ASSUME NEW d, Mirrors(d, group) PROVE Mirrors(Handle(d, e), group')
  <2>1. g \in DOMAIN d /\ Mirrored(d[g], group[g])
    BY <1>2 DEF Mirrors
  <2>2. PICK x : Handle(d, e) = [d EXCEPT ![g] = x] /\ Mirrored(x, r2)
    BY <2>1 DEF Follows
  <2>3. Mirrors([d EXCEPT ![g] = x], [group EXCEPT ![g] = r2])
    BY <1>1, <1>2, <2>2, MirrorsStep
  <2> QED
    BY <2>2, <2>3
<1> QED
  BY <1>2 DEF Faithful

\* A group that has units out, or is final, was created.
LEMMA LiveCreated ==
    ASSUME VarTypes, NEW d, Mirrors(d, group), NEW g \in Groups, NEW s \in Sides,
           group[g].outstanding[s] > 0 \/ group[g].finalized
    PROVE  group[g].created
<1> SUFFICES ASSUME ~group[g].created PROVE FALSE
  OBVIOUS
<1>1. group[g] = EmptyGroup
  BY DEF Mirrors
<1> QED
  BY <1>1 DEF EmptyGroup, Zero

LEMMA CreateLogs ==
    ASSUME VarTypes, NEW g \in Groups, CreateGroup(g)
    PROVE  Faithful(<<[event |-> "GroupCreated", group |-> g]>>)
<1> DEFINE e == [event |-> "GroupCreated", group |-> g]
           r2 == [group[g] EXCEPT !.created = TRUE]
<1>1. group \in [Groups -> GroupState] /\ group[g] \in GroupState
  BY GroupFields DEF VarTypes
<1>2. group' = [group EXCEPT ![g] = r2] /\ ~group[g].created
  BY DEF CreateGroup
<1>3. ASSUME NEW d, Mirrors(d, group) PROVE Mirrors(Handle(d, e), group')
  <2> DEFINE d2 == Handle(d, e)
  <2>1. d2 = [h \in DOMAIN d \cup {g} |-> IF h = g THEN NewEntity ELSE d[h]]
    BY DEF Handle, HandleGroupCreated
  <2>2. g \notin DOMAIN d /\ group[g] = EmptyGroup
    BY <1>2, <1>3 DEF Mirrors
  <2>3. DOMAIN d2 = DOMAIN d \cup {g} /\ d2[g] = NewEntity /\ \A h \in DOMAIN d : d2[h] = d[h]
    BY <2>1, <2>2
  <2>4. group'[g] = r2 /\ \A h \in Groups : h # g => group'[h] = group[h]
    BY <1>1, <1>2
  <2>5. r2.created
    BY <1>1 DEF GroupState
  <2>6. Mirrored(NewEntity, r2)
    <3>1. /\ r2.outstanding = Zero /\ r2.reserveLocked = 0 /\ r2.exitBuffer = 0
          /\ r2.finalized = FALSE /\ r2.ppu = Zero
      BY <2>2 DEF EmptyGroup
    <3>2. /\ DOMAIN NewEntity = Fields
          /\ NewEntity.outstanding = Zero /\ NewEntity.reserveLocked = 0
          /\ NewEntity.exitBuffer = 0 /\ NewEntity.finalized = FALSE /\ NewEntity.ppu = Zero
          /\ NewEntity.record = [t \in EventTypes |-> Zero]
      BY DEF NewEntity, Fields
    <3>3. [t \in EventTypes |-> Zero] \in Records
      BY DEF Records, UnitsBySide, Zero
    <3>4. AddsUp(Zero, [t \in EventTypes |-> Zero])
      BY DEF AddsUp, Zero, EventTypes
    <3> QED
      BY <3>1, <3>2, <3>3, <3>4 DEF Mirrored
  <2> HIDE DEF d2, r2
  <2>7. DOMAIN d2 = {h \in Groups : group'[h].created}
    BY <1>3, <2>3, <2>4, <2>5 DEF Mirrors
  <2>8. ASSUME NEW h \in Groups
        PROVE  IF group'[h].created THEN Mirrored(d2[h], group'[h]) ELSE group'[h] = EmptyGroup
    <3>1. CASE h = g
      BY <2>3, <2>4, <2>5, <2>6, <3>1
    <3>2. CASE h # g
      <4>1. group'[h] = group[h] /\ (h \in DOMAIN d => d2[h] = d[h])
        BY <2>3, <2>4, <3>2
      <4>2. group[h].created => h \in DOMAIN d
        BY <1>3 DEF Mirrors
      <4> QED
        BY <1>3, <4>1, <4>2 DEF Mirrors
    <3> QED
      BY <3>1, <3>2
  <2>9. Mirrors(d2, group')
    BY <2>7, <2>8 DEF Mirrors
  <2> QED
    BY <2>9 DEF d2
<1> QED
  BY <1>3 DEF Faithful

LEMMA FinalizeLogs ==
    ASSUME VarTypes, NEW g \in Groups, NEW v \in Variances, Finalize(g, v)
    PROVE  Faithful(FinalizedLog(g))
<1> DEFINE payouts == FinalPayouts(NormalizedOutcome(v, Params[g].capVariance),
                                   Params[g].capPayoutPerUnit)
           new == FinalLiability(group[g].outstanding, payouts)
           r2 == [group[g] EXCEPT !.finalized = TRUE, !.ppu = payouts,
                                  !.reserveLocked = new, !.exitBuffer = 0]
           e == [event |-> "GroupFinalized", group |-> g, ppu |-> group'[g].ppu,
                 released |-> lockedQuote - lockedQuote']
<1>1. group[g] \in GroupState /\ group \in [Groups -> GroupState]
  BY GroupFields DEF VarTypes
<1>2. group[g].created /\ group' = [group EXCEPT ![g].finalized = TRUE,
                                  ![g].ppu = payouts,
                                  ![g].reserveLocked = new,
                                  ![g].exitBuffer = 0]
  BY DEF Finalize
<1> HIDE DEF payouts, new
<1>3. group' = [group EXCEPT ![g] = r2]
  BY <1>2
<1>4. group'[g] = r2
  BY <1>1, <1>3
<1>5. /\ r2.created /\ r2.finalized = TRUE /\ r2.ppu = payouts
      /\ r2.reserveLocked = new /\ r2.exitBuffer = 0
      /\ r2.outstanding = group[g].outstanding
  BY <1>1, <1>2 DEF GroupState
<1> HIDE DEF r2
<1>6. Follows(e, g, r2)
  <2>1. r2.reserveLocked = FinalLiability(r2.outstanding, r2.ppu)
    BY <1>5 DEF new
  <2>2. e.event = "GroupFinalized" /\ e.group = g /\ e.ppu = r2.ppu
    BY <1>4
  <2> HIDE DEF e
  <2> QED
    BY <1>5, <2>1, <2>2, FinalizeFollows
<1>7. FinalizedLog(g) = <<e>>
  BY DEF FinalizedLog
<1> HIDE DEF e
<1> QED
  <2>1. Faithful(<<e>>)
    BY <1>2, <1>3, <1>5, <1>6, OneLog
  <2> QED
    BY <1>7, <2>1

LEMMA BufferLogs ==
    ASSUME VarTypes, NEW g \in Groups, NEW a \in Amounts,
           AllocateExitBuffer(g, a) \/ FundExitBuffer(g, a) \/ WithdrawExitBuffer(g, a),
           NEW kind \in {"ExitBufferFunded", "ExitBufferWithdrawn"}
    PROVE  Faithful(BufferLog(kind, g))
<1> DEFINE e == [event |-> kind, group |-> g, newBuffer |-> group'[g].exitBuffer]
<1>1. group[g] \in GroupState /\ group \in [Groups -> GroupState]
  BY GroupFields DEF VarTypes
<1>2. PICK b : group[g].created /\ group' = [group EXCEPT ![g].exitBuffer = b]
  BY DEF AllocateExitBuffer, FundExitBuffer, WithdrawExitBuffer, CreditBuffer
<1> DEFINE r2 == [group[g] EXCEPT !.exitBuffer = b]
<1>3. group' = [group EXCEPT ![g] = r2]
  BY <1>2
<1>4. group'[g] = r2
  BY <1>1, <1>3
<1>5. /\ r2.created /\ r2.outstanding = group[g].outstanding
      /\ r2.reserveLocked = group[g].reserveLocked
      /\ r2.finalized = group[g].finalized /\ r2.ppu = group[g].ppu
  BY <1>1, <1>2 DEF GroupState
<1> HIDE DEF r2
<1>6. e.event = kind /\ e.group = g /\ e.newBuffer = r2.exitBuffer
  BY <1>4
<1>7. BufferLog(kind, g) = <<e>>
  BY DEF BufferLog
<1> HIDE DEF e
<1>8. Follows(e, g, r2)
  BY <1>5, <1>6, BufferFollows
<1> QED
  <2>1. Faithful(<<e>>)
    BY <1>2, <1>3, <1>5, <1>8, OneLog
  <2> QED
    BY <1>7, <2>1
LEMMA WorthlessLogs ==
    ASSUME VarTypes, NEW d0, Mirrors(d0, group),
           NEW g \in Groups, NEW s \in Sides, NEW u \in Nat, BurnWorthless(g, s, u)
    PROVE  Faithful(<<[event |-> "WorthlessBurned", group |-> g, side |-> s, units |-> u]>>)
<1> DEFINE e == [event |-> "WorthlessBurned", group |-> g, side |-> s, units |-> u]
           r2 == [group[g] EXCEPT !.outstanding[s] = @ - u]
<1>1. group[g] \in GroupState /\ group \in [Groups -> GroupState]
  BY GroupFields DEF VarTypes
<1>2. group' = [group EXCEPT ![g] = r2] /\ group[g].finalized
  BY DEF BurnWorthless
<1>3. group[g].created
  BY <1>2, LiveCreated
<1>4. /\ r2.created /\ r2.outstanding = [group[g].outstanding EXCEPT ![s] = @ - u]
      /\ r2.reserveLocked = group[g].reserveLocked /\ r2.exitBuffer = group[g].exitBuffer
      /\ r2.finalized = group[g].finalized /\ r2.ppu = group[g].ppu
  BY <1>1, <1>3 DEF GroupState
<1> HIDE DEF r2
<1>5. e.event = "WorthlessBurned" /\ e.group = g /\ e.side = s /\ e.units = u
  OBVIOUS
<1> HIDE DEF e
<1>6. Follows(e, g, r2)
  BY <1>4, <1>5, WorthlessFollows
<1>7. Faithful(<<e>>)
  BY <1>2, <1>3, <1>4, <1>6, OneLog
<1> QED
  BY <1>7 DEF e

LEMMA IssueLogs ==
    ASSUME VarTypes, NEW g \in Groups, NEW s \in Sides, NEW units \in Nat, group[g].created,
           ApplyIssue(g, s, units),
           NEW f, f.kind = "ISSUE", f.group = g, f.side = s, f.amountOut = units
    PROVE  Faithful(IssuedLog(f))
<1> DEFINE out == [group[g].outstanding EXCEPT ![s] = @ + units]
           new == GroupReserve(g, out)
           r2 == [group[g] EXCEPT !.outstanding = out, !.reserveLocked = new]
           e == [event |-> "PortfolioIssued", group |-> f.group, side |-> f.side,
                 units |-> f.amountOut, outstanding |-> group'[f.group].outstanding,
                 reserveLocked |-> group'[f.group].reserveLocked]
<1>1. group[g] \in GroupState /\ group \in [Groups -> GroupState]
  BY GroupFields DEF VarTypes
<1>2. group' = [group EXCEPT ![g].outstanding = out, ![g].reserveLocked = new]
  BY DEF ApplyIssue
<1> HIDE DEF new, out
<1>3. group' = [group EXCEPT ![g] = r2]
  BY <1>2
<1>4. group'[g] = r2
  BY <1>1, <1>3
<1>5. /\ r2.created /\ r2.outstanding = out /\ r2.reserveLocked = new
      /\ r2.exitBuffer = group[g].exitBuffer
      /\ r2.finalized = group[g].finalized /\ r2.ppu = group[g].ppu
  BY <1>1 DEF GroupState
<1> HIDE DEF r2
<1>6. /\ e.event = "PortfolioIssued" /\ e.group = g /\ e.side = s /\ e.units = units
      /\ e.outstanding = r2.outstanding /\ e.reserveLocked = r2.reserveLocked
  BY <1>4
<1>7. IssuedLog(f) = <<e>>
  BY DEF IssuedLog
<1> HIDE DEF e
<1>8. Follows(e, g, r2)
  <2>1. r2.outstanding = [group[g].outstanding EXCEPT ![e.side] = @ + e.units]
    BY <1>5, <1>6 DEF out
  <2> QED
    BY <1>5, <1>6, <2>1, IssueFollows
<1>9. Faithful(<<e>>)
  BY <1>3, <1>5, <1>8, OneLog
<1> QED
  BY <1>7, <1>9

\* A swap begins: its frame remembers the ledger.
LEMMA SwapLogs ==
    ASSUME VarTypes, SwapCall
    PROVE  \E f \in Frames : /\ f.saved = Snapshot /\ stack' = Append(stack, f)
                             /\ Faithful(IssuedLog(stack'[Len(stack')]))
<1>1. PICK g \in Groups, s \in Sides, inFirst \in BOOLEAN :
        \/ \E a \in Amounts : SwapIssue(g, s, TRUE, a, inFirst)
        \/ \E u \in UnitAmounts :
            \/ SwapIssue(g, s, FALSE, u, inFirst)
            \/ SwapExit(g, s, u, inFirst)
            \/ SwapSettle(g, s, u, inFirst)
  BY DEF SwapCall
<1>2. Amounts \subseteq Nat /\ UnitAmounts \subseteq Nat
  BY InputsAssumption
<1>3. VarTypes'
  <2>1. \A a \in Amounts : SwapIssue(g, s, TRUE, a, inFirst) => VarTypes'
    BY <1>2, SwapIssueType
  <2>2. ASSUME NEW u \in UnitAmounts,
               \/ SwapIssue(g, s, FALSE, u, inFirst)
               \/ SwapExit(g, s, u, inFirst)
               \/ SwapSettle(g, s, u, inFirst)
        PROVE  VarTypes'
    BY <1>2, <2>2, SwapIssueType, SwapExitType, SwapSettleType
  <2> QED
    BY <1>1, <2>1, <2>2
<1>4. ASSUME NEW f, EnterSwap(f)
      PROVE  f \in Frames /\ stack'[Len(stack')] = f
  <2>1. stack' = Append(stack, f) /\ stack \in Seq(Frames) /\ stack' \in Seq(Frames)
    BY <1>3, <1>4 DEF EnterSwap, VarTypes
  <2>2. Len(stack') = Len(stack) + 1 /\ stack'[Len(stack) + 1] = f /\ Len(stack) \in Nat
    BY <2>1
  <2>3. Len(stack) + 1 \in 1..Len(stack')
    BY <2>2
  <2> QED
    BY <2>1, <2>2, <2>3, ElementOfSeq
<1>5. ASSUME NEW exactIn \in BOOLEAN, NEW a \in Nat, SwapIssue(g, s, exactIn, a, inFirst)
      PROVE  \E f \in Frames : /\ f.saved = Snapshot /\ stack' = Append(stack, f)
                               /\ Faithful(IssuedLog(stack'[Len(stack')]))
  <2> DEFINE fill == IssueFill(g, s, exactIn, a)
             f == Frame(g, "ISSUE", s, fill.premium, fill.units, inFirst)
  <2>1. group[g].created /\ ApplyIssue(g, s, fill.units) /\ EnterSwap(f)
    BY <1>5 DEF SwapIssue
  <2>2. fill.units \in Nat
    BY IssueFillNat
  <2>3. /\ f.kind = "ISSUE" /\ f.group = g /\ f.side = s /\ f.amountOut = fill.units
        /\ f.saved = Snapshot
    BY DEF Frame
  <2> HIDE DEF f, fill
  <2>4. Faithful(IssuedLog(f))
    BY <2>1, <2>2, <2>3, IssueLogs
  <2>5. f \in Frames /\ stack'[Len(stack')] = f /\ stack' = Append(stack, f)
    BY <1>4, <2>1 DEF EnterSwap
  <2> QED
    BY <2>3, <2>4, <2>5
<1>6. ASSUME NEW u \in Nat, SwapExit(g, s, u, inFirst) \/ SwapSettle(g, s, u, inFirst)
      PROVE  \E f \in Frames : /\ f.saved = Snapshot /\ stack' = Append(stack, f)
                               /\ Faithful(IssuedLog(stack'[Len(stack')]))
  <2>1. PICK k, units, paid :
          /\ k \in {"EXIT", "SETTLE"}
          /\ EnterSwap(Frame(g, k, s, units, paid, inFirst))
          /\ UNCHANGED group
    BY <1>6 DEF SwapExit, SwapSettle, chain
  <2> DEFINE f == Frame(g, k, s, units, paid, inFirst)
  <2>2. f.kind # "ISSUE" /\ f.saved = Snapshot
    BY <2>1 DEF Frame
  <2> HIDE DEF f
  <2>3. f \in Frames /\ stack'[Len(stack')] = f /\ stack' = Append(stack, f)
    BY <1>4, <2>1 DEF EnterSwap, f
  <2>4. IssuedLog(f) = << >>
    BY <2>2 DEF IssuedLog
  <2>5. Faithful(IssuedLog(f))
    BY <2>1, <2>4 DEF Faithful
  <2> QED
    BY <2>2, <2>3, <2>5
<1> QED
  BY <1>1, <1>2, <1>5, <1>6

LEMMA BurnLogs ==
    ASSUME VarTypes, NEW d0, Mirrors(d0, group), NEW f \in Frames, f.kind # "ISSUE", OnBurn(f)
    PROVE  Faithful(BurnLog(f))
<1> DEFINE g == f.group
           e == [event |-> IF f.kind = "EXIT" THEN "PortfolioExited" ELSE "PortfolioSettled",
                 group |-> f.group, side |-> f.side, units |-> f.amountIn,
                 reserveLocked |-> group'[f.group].reserveLocked,
                 bufferDrawn |-> group[f.group].exitBuffer - group'[f.group].exitBuffer]
           out == [group[g].outstanding EXCEPT ![f.side] = @ - f.amountIn]
<1>1. /\ g \in Groups /\ f.side \in Sides /\ f.amountIn \in Nat /\ f.amountOut \in Nat
      /\ f.kind \in {"EXIT", "SETTLE"}
  BY DEF Frames, Kinds
<1>2. group[g] \in GroupState /\ group \in [Groups -> GroupState]
  BY <1>1, GroupFields DEF VarTypes
<1>3. group[g].created
  <2>1. f.amountIn > 0 /\ f.amountIn <= group[g].outstanding[f.side]
    BY DEF OnBurn
  <2>2. group[g].outstanding[f.side] > 0
    BY <1>1, <2>1, GroupFields
  <2> QED
    BY <1>1, <2>2, LiveCreated
<1>4. BurnLog(f) = <<e>>
  BY DEF BurnLog
<1>5. /\ e.event = IF f.kind = "EXIT" THEN "PortfolioExited" ELSE "PortfolioSettled"
      /\ e.group = g /\ e.side = f.side /\ e.units = f.amountIn
      /\ e.reserveLocked = group'[g].reserveLocked
      /\ e.bufferDrawn = group[g].exitBuffer - group'[g].exitBuffer
  OBVIOUS
<1>6. out \in UnitsBySide
  BY <1>1, GroupFields DEF OnBurn, UnitsBySide
<1> HIDE DEF e
<1>7. CASE f.kind = "EXIT"
  <2> DEFINE new == GroupReserve(g, out)
             released == group[g].reserveLocked - new
             draw == IF f.amountOut > released THEN f.amountOut - released ELSE 0
             r2 == [group[g] EXCEPT !.exitBuffer = @ - draw, !.reserveLocked = new,
                                    !.outstanding = out]
  <2>1. BurnExit(g, f.side, f.amountIn, f.amountOut)
    BY <1>7 DEF OnBurn
  <2>2. group' = [group EXCEPT ![g] = r2]
    <3>1. group' = [group EXCEPT ![g].exitBuffer = @ - draw, ![g].reserveLocked = new,
                                 ![g].outstanding[f.side] = @ - f.amountIn]
      BY <2>1 DEF BurnExit, ReserveAfterExit
    <3> HIDE DEF new, draw
    <3> QED
      BY ZenonT(60), <3>1
  <2>3. group'[g] = r2
    BY <1>1, <1>2, <2>2
  <2>4. new \in Nat
    BY <1>1, <1>6, GroupReserveNat
  <2> HIDE DEF out, new
  <2>5. draw \in Int
    BY <1>1, <2>4, GroupFields
  <2> HIDE DEF draw
  <2>6. /\ r2.created /\ r2.outstanding = out /\ r2.reserveLocked = new
        /\ r2.exitBuffer = group[g].exitBuffer - draw
        /\ r2.finalized = group[g].finalized /\ r2.ppu = group[g].ppu
    BY <1>2, <1>3 DEF GroupState
  <2> HIDE DEF r2
  <2>7. Follows(e, g, r2)
    <3>1. e.event = "PortfolioExited" /\ e.reserveLocked = r2.reserveLocked
      BY <1>5, <1>7, <2>3
    <3>2. r2.exitBuffer = group[g].exitBuffer - e.bufferDrawn
      <4>1. e.bufferDrawn = group[g].exitBuffer - r2.exitBuffer
        BY <1>5, <2>3
      <4>2. group[g].exitBuffer \in Int
        BY <1>1, GroupFields
      <4> QED
        BY <2>5, <2>6, <4>1, <4>2
    <3>3. r2.outstanding = [group[g].outstanding EXCEPT ![e.side] = @ - e.units]
      BY <1>5, <2>6 DEF out
    <3> HIDE DEF g
    <3> QED
      BY <1>1, <1>5, <2>6, <3>1, <3>2, <3>3, ExitFollows
  <2> HIDE DEF g
  <2>8. Faithful(<<e>>)
    BY <1>1, <1>3, <2>2, <2>6, <2>7, OneLog
  <2> QED
    BY <1>4, <2>8
<1>8. CASE f.kind = "SETTLE"
  <2> DEFINE new == FinalLiability(out, group[g].ppu)
             r2 == [group[g] EXCEPT !.outstanding = out, !.reserveLocked = new]
  <2>1. BurnSettle(g, f.side, f.amountIn, f.amountOut)
    BY <1>8 DEF OnBurn
  <2>2. group' = [group EXCEPT ![g] = r2]
    BY <2>1 DEF BurnSettle
  <2>3. group'[g] = r2
    BY <1>1, <1>2, <2>2
  <2> HIDE DEF out, new
  <2>4. /\ r2.created /\ r2.outstanding = out /\ r2.reserveLocked = new
        /\ r2.exitBuffer = group[g].exitBuffer
        /\ r2.finalized = group[g].finalized /\ r2.ppu = group[g].ppu
    BY <1>2, <1>3 DEF GroupState
  <2> HIDE DEF r2
  <2>5. Follows(e, g, r2)
    <3>1. e.event = "PortfolioSettled" /\ e.reserveLocked = r2.reserveLocked
      BY <1>5, <1>8, <2>3
    <3>2. r2.outstanding = [group[g].outstanding EXCEPT ![e.side] = @ - e.units]
      BY <1>5, <2>4 DEF out
    <3> HIDE DEF g
    <3> QED
      BY <1>1, <1>5, <2>4, <3>1, <3>2, SettleFollows
  <2> HIDE DEF g
  <2>6. Faithful(<<e>>)
    BY <1>1, <1>3, <2>2, <2>4, <2>5, OneLog
  <2> QED
    BY <1>4, <2>6
<1> QED
  BY <1>1, <1>7, <1>8

\* A swap makes a transfer.
LEMMA TransferLogs ==
    ASSUME VarTypes, NEW d0, Mirrors(d0, group)
    PROVE  /\ TransferIn => stack # << >> /\ TransferDone /\ Faithful(BurnLog(Top))
           /\ TransferOut => stack # << >> /\ TransferDone /\ Faithful(<< >>)
<1>1. ASSUME TransferIn PROVE stack # << >> /\ TransferDone /\ Faithful(BurnLog(Top))
  <2>1. stack # << >> /\ TransferDone
    BY <1>1 DEF TransferIn, TransferInNext
  <2>2. Top \in Frames
    BY <2>1, StackTop DEF VarTypes
  <2>3. CASE Top.kind = "ISSUE"
    <3>1. UNCHANGED group
      BY <1>1, <2>3 DEF TransferIn
    <3>2. BurnLog(Top) = << >>
      BY <2>3 DEF BurnLog
    <3> QED
      BY <2>1, <3>1, <3>2 DEF Faithful
  <2>4. CASE Top.kind # "ISSUE"
    <3>1. OnBurn(Top)
      BY <1>1, <2>4 DEF TransferIn
    <3> QED
      BY <2>1, <2>2, <2>4, <3>1, BurnLogs
  <2> QED
    BY <2>3, <2>4
<1>2. ASSUME TransferOut PROVE stack # << >> /\ TransferDone /\ Faithful(<< >>)
  BY <1>2 DEF TransferOut, TransferOutNext, Faithful
<1> QED
  BY <1>1, <1>2
-----------------------------------------------------------------------------
(* The index follows the ledger *)

IsLogs(logs) == \E S : logs \in Seq(S)

\* The inductive invariant: the entities, with the logs of the transaction so
\* far, mirror the ledger, and with the logs there were when a swap in flight
\* began they mirror what a revert of it restores.
IndexFollows ==
    /\ IsLogs(pending) /\ Mirrors(Folded(entity, pending), group)
    /\ IsLogs(began) /\ Len(began) = Len(stack)
    /\ \A i \in 1..Len(stack) :
        IsLogs(began[i]) /\ Mirrors(Folded(entity, began[i]), stack[i].saved.group)
    /\ stack = << >> => pending = << >>
    /\ stack # << >> => began[1] = << >>

LEMMA EmitFollows ==
    ASSUME IndexFollows, NEW logs, Emit(logs), Faithful(logs)
    PROVE  /\ IsLogs(pending') /\ Mirrors(Folded(entity', pending'), group')
           /\ stack' = << >> => pending' = << >>
           /\ stack' # << >> => UNCHANGED entity
<1> DEFINE all == pending \o logs
<1>1. PICK S : pending \in Seq(S)
  BY DEF IndexFollows, IsLogs
<1>2. IsLogs(all) /\ Mirrors(Folded(entity, all), group')
  <2>1. CASE logs = << >> /\ UNCHANGED group
    <3>1. all = pending
      BY <1>1, <2>1, ConcatEmptySeq
    <3> HIDE DEF all
    <3> QED
      BY <2>1, <3>1 DEF IndexFollows, Mirrors
  <2>2. CASE \E e : /\ logs = <<e>>
                    /\ \A d : Mirrors(d, group) => Mirrors(Handle(d, e), group')
    <3>1. PICK e : /\ logs = <<e>>
                   /\ \A d : Mirrors(d, group) => Mirrors(Handle(d, e), group')
      BY <2>2
    <3> DEFINE T == S \cup {e}
    <3>2. pending \in Seq(T) /\ e \in T
      BY <1>1, SeqMonotonic
    <3> HIDE DEF T
    <3>3. all = Append(pending, e) /\ Append(pending, e) \in Seq(T)
      BY <3>1, <3>2, AppendIsConcat, AppendProperties
    <3> HIDE DEF all
    <3>4. Folded(entity, all) = Handle(Folded(entity, pending), e)
      BY <1>1, <3>3, FoldAppend
    <3>5. Mirrors(Handle(Folded(entity, pending), e), group')
      BY <3>1 DEF IndexFollows
    <3> QED
      BY <3>3, <3>4, <3>5 DEF IsLogs
  <2> QED
    BY <2>1, <2>2 DEF Faithful
<1>3. CASE stack' = << >>
  <2>1. pending' = << >> /\ entity' = Folded(entity, all)
    BY <1>3 DEF Emit, Folded
  <2> HIDE DEF all
  <2>2. Folded(entity', pending') = Folded(entity, all)
    BY <2>1, FoldNothing
  <2>3. << >> \in Seq({})
    BY EmptySeq
  <2> QED
    BY <1>2, <1>3, <2>1, <2>2, <2>3 DEF IsLogs
<1>4. CASE stack' # << >>
  <2>1. pending' = all /\ entity' = entity
    BY <1>4 DEF Emit
  <2> HIDE DEF all
  <2> QED
    BY <1>2, <1>4, <2>1
<1> QED
  BY <1>3, <1>4

\* What follows from the parts of the invariant, one state later.
LEMMA FollowsNext ==
    ASSUME IsLogs(pending'), Mirrors(Folded(entity', pending'), group'),
           IsLogs(began'), Len(began') = Len(stack'),
           \A i \in 1..Len(stack') :
              IsLogs(began'[i]) /\ Mirrors(Folded(entity', began'[i]), stack'[i].saved.group),
           stack' = << >> => pending' = << >>,
           stack' # << >> => began'[1] = << >>
    PROVE  IndexFollows'
  BY DEF IndexFollows, Mirrors, Folded, IsLogs

LEMMA CallFollows ==
    ASSUME VarTypes, IndexFollows, NEW logs, Faithful(logs), Call(logs), UNCHANGED stack
    PROVE  IndexFollows'
<1>1. /\ IsLogs(pending') /\ Mirrors(Folded(entity', pending'), group')
      /\ stack' = << >> => pending' = << >>
      /\ stack' # << >> => UNCHANGED entity
  BY EmitFollows DEF Call
<1>2. IsLogs(began') /\ Len(began') = Len(stack') /\ (stack' # << >> => began'[1] = << >>)
  BY DEF Call, IndexFollows
<1>3. ASSUME NEW i \in 1..Len(stack')
      PROVE  IsLogs(began'[i]) /\ Mirrors(Folded(entity', began'[i]), stack'[i].saved.group)
  <2>1. stack' # << >>
    BY EmptySeq
  <2>2. entity' = entity /\ began' = began /\ stack' = stack
    BY <1>1, <2>1 DEF Call
  <2> QED
    BY <2>2 DEF IndexFollows
<1> QED
  BY <1>1, <1>2, <1>3, FollowsNext

LEMMA SwapFollows ==
    ASSUME VarTypes, IndexFollows, NEW logs, Faithful(logs), Emit(logs),
           NEW f \in Frames, f.saved = Snapshot, stack' = Append(stack, f),
           began' = Append(began, pending)
    PROVE  IndexFollows'
<1> DEFINE n == Len(stack)
<1>1. /\ n \in Nat /\ Len(stack') = n + 1 /\ stack' # << >>
      /\ stack'[n + 1] = f /\ \A i \in 1..n : stack'[i] = stack[i]
  BY AppendProperties, LenProperties DEF VarTypes
<1>2. PICK S : began \in Seq(S)
  BY DEF IndexFollows, IsLogs
<1>3. Len(began) = n
  BY DEF IndexFollows
<1>4. /\ IsLogs(began') /\ Len(began') = n + 1
      /\ began'[n + 1] = pending /\ \A i \in 1..n : began'[i] = began[i]
  <2> DEFINE T == S \cup {pending}
  <2>1. began \in Seq(T) /\ pending \in T
    BY <1>2, SeqMonotonic
  <2> HIDE DEF T, n
  <2>2. /\ began' \in Seq(T) /\ Len(began') = Len(began) + 1
        /\ \A i \in 1..Len(began) : began'[i] = began[i]
        /\ began'[Len(began) + 1] = pending
    BY <2>1, AppendProperties
  <2> QED
    BY <1>3, <2>2 DEF IsLogs
<1>5. /\ IsLogs(pending') /\ Mirrors(Folded(entity', pending'), group')
      /\ entity' = entity
  BY <1>1, EmitFollows
<1> HIDE DEF n
<1>6. ASSUME NEW i \in 1..(n + 1)
      PROVE  IsLogs(began'[i]) /\ Mirrors(Folded(entity', began'[i]), stack'[i].saved.group)
  <2>1. CASE i = n + 1
    <3>1. began'[i] = pending /\ stack'[i].saved.group = group
      BY <1>1, <1>4, <2>1 DEF Snapshot
    <3> QED
      BY <1>5, <3>1 DEF IndexFollows
  <2>2. CASE i # n + 1
    <3>1. i \in 1..n
      BY <1>1, <2>2
    <3>2. began'[i] = began[i] /\ stack'[i] = stack[i]
      BY <1>1, <1>4, <3>1
    <3>3. i \in 1..Len(stack)
      BY <3>1 DEF n
    <3> QED
      BY <1>5, <3>2, <3>3 DEF IndexFollows
  <2> QED
    BY <2>1, <2>2
<1>7. began'[1] = << >>
  <2>1. CASE n = 0
    <3>1. stack = << >>
      BY <2>1, EmptySeq DEF n, VarTypes
    <3> QED
      BY <1>4, <2>1, <3>1 DEF IndexFollows
  <2>2. CASE n # 0
    <3>1. 1 \in 1..n
      BY <1>1, <2>2
    <3>2. stack # << >>
      BY <2>2, EmptySeq DEF n
    <3> QED
      BY <1>4, <3>1, <3>2 DEF IndexFollows
  <2> QED
    BY <2>1, <2>2
<1> QED
  BY <1>1, <1>4, <1>5, <1>6, <1>7, FollowsNext

\* The innermost frame is gone, its logs with it or not.
LEMMA PopFollows ==
    ASSUME VarTypes, IndexFollows, stack # << >>, stack' = Below, began' = Front(began),
           IsLogs(pending'), Mirrors(Folded(entity', pending'), group'),
           stack' = << >> => pending' = << >>,
           stack' # << >> => entity' = entity
    PROVE  IndexFollows'
<1> DEFINE n == Len(stack)
<1>1. /\ n \in Nat \ {0} /\ Len(stack') = n - 1
      /\ \A i \in 1..(n - 1) : stack'[i] = stack[i]
  BY ButLast DEF Below, VarTypes
<1>2. PICK S : began \in Seq(S)
  BY DEF IndexFollows, IsLogs
<1>3. Len(began) = n
  BY DEF IndexFollows
<1>4. /\ IsLogs(began') /\ Len(began') = n - 1
      /\ \A i \in 1..(n - 1) : began'[i] = began[i]
  <2>1. began # << >>
    BY <1>1, <1>3, EmptySeq
  <2> HIDE DEF n
  <2>2. /\ Front(began) \in Seq(S) /\ Len(Front(began)) = Len(began) - 1
        /\ \A i \in 1..(Len(began) - 1) : Front(began)[i] = began[i]
    BY <1>2, <2>1, ButLast DEF Front
  <2> QED
    BY <1>3, <2>2 DEF IsLogs
<1> HIDE DEF n
<1>5. ASSUME stack' # << >> PROVE began'[1] = << >>
  <2>1. n - 1 # 0
    <3>1. stack' \in Seq(Frames)
      BY StackTop DEF VarTypes
    <3> QED
      BY <1>1, <1>5, <3>1, EmptySeq
  <2>2. 1 \in 1..(n - 1)
    BY <1>1, <2>1
  <2> QED
    BY <1>4, <2>2 DEF IndexFollows
<1>6. ASSUME NEW i \in 1..(n - 1)
      PROVE  IsLogs(began'[i]) /\ Mirrors(Folded(entity', began'[i]), stack'[i].saved.group)
  <2>1. stack' # << >>
    BY <1>1, EmptySeq
  <2>2. began'[i] = began[i] /\ stack'[i] = stack[i] /\ entity' = entity
    BY <1>1, <1>4, <2>1
  <2>3. i \in 1..Len(stack)
    BY <1>1 DEF n
  <2> QED
    BY <2>2, <2>3 DEF IndexFollows
<1> QED
  BY <1>1, <1>4, <1>5, <1>6, FollowsNext

LEMMA TransferFollows ==
    ASSUME VarTypes, IndexFollows, stack # << >>, TransferDone,
           NEW logs, Faithful(logs), Transferred(logs)
    PROVE  IndexFollows'
<1>1. /\ IsLogs(pending') /\ Mirrors(Folded(entity', pending'), group')
      /\ stack' = << >> => pending' = << >>
      /\ stack' # << >> => entity' = entity
  BY EmitFollows DEF Transferred
<1>2. CASE Top.stage # "first"
  <2>1. stack' = Below /\ began' = Front(began)
    BY <1>2 DEF TransferDone, Transferred
  <2> QED
    BY <1>1, <2>1, PopFollows
<1>3. CASE Top.stage = "first"
  <2> DEFINE n == Len(stack)
             f == [Top EXCEPT !.stage = "second"]
  <2>1. Top \in Frames /\ f \in Frames /\ n \in Nat \ {0} /\ Top = stack[n]
    BY StackTop, NextStage DEF VarTypes, Top
  <2>2. f.saved = Top.saved
    BY <2>1 DEF Frames
  <2>3. /\ Len(stack') = n
        /\ \A i \in 1..(n - 1) : stack'[i] = stack[i]
        /\ stack'[n] = f
    BY <1>3, <2>1, AfterTransfer DEF VarTypes
  <2> HIDE DEF f, n
  <2>4. stack' # << >>
    BY <2>1, <2>3, EmptySeq
  <2>5. entity' = entity /\ began' = began
    BY <1>1, <1>3, <2>4 DEF Transferred
  <2>6. ASSUME NEW i \in 1..n
        PROVE  IsLogs(began'[i]) /\ Mirrors(Folded(entity', began'[i]), stack'[i].saved.group)
    <3>1. stack'[i].saved = stack[i].saved
      <4>1. i = n \/ i \in 1..(n - 1)
        BY <2>1
      <4> QED
        BY <2>1, <2>2, <2>3, <4>1
    <3>2. i \in 1..Len(stack)
      BY DEF n
    <3> QED
      BY <2>5, <3>1, <3>2 DEF IndexFollows
  <2>7. IsLogs(began') /\ Len(began') = n /\ began'[1] = << >>
    BY <2>5 DEF IndexFollows, n
  <2> QED
    BY <1>1, <2>3, <2>4, <2>6, <2>7, FollowsNext
<1> QED
  BY <1>2, <1>3

LEMMA RevertFollows ==
    ASSUME VarTypes, IndexFollows, Revert,
           pending' = Last(began), began' = Front(began), UNCHANGED entity
    PROVE  IndexFollows'
<1> DEFINE n == Len(stack)
<1>1. stack # << >> /\ stack' = Below /\ group' = Top.saved.group
  BY DEF Revert
<1>2. n \in Nat \ {0} /\ n \in 1..Len(stack) /\ Top = stack[n] /\ Len(stack') = n - 1
  BY <1>1, ButLast DEF VarTypes, Top, Below
<1>3. pending' = began[n]
  BY DEF IndexFollows, Last
<1>4. IsLogs(pending') /\ Mirrors(Folded(entity', pending'), group')
  <2>1. IsLogs(began[n]) /\ Mirrors(Folded(entity, began[n]), stack[n].saved.group)
    BY <1>2 DEF IndexFollows
  <2> HIDE DEF n
  <2> QED
    BY <1>1, <1>2, <1>3, <2>1
<1>5. ASSUME stack' = << >> PROVE pending' = << >>
  <2>1. n = 1
    BY <1>2, <1>5, EmptySeq
  <2> QED
    BY <1>1, <1>3, <2>1 DEF IndexFollows
<1> QED
  BY <1>1, <1>4, <1>5, PopFollows
\* A step of the indexed market is a step of the market.
LEMMA IndexedIsNext ==
    ASSUME [IndexedNext]_<<vars, indexed>>
    PROVE  [Next]_vars
<1>1. CASE UNCHANGED <<vars, indexed>>
  BY <1>1
<1>2. CASE IndexedNext
  <2>1. ASSUME NEW g \in Groups, GroupCall(g) PROVE Next
    BY <2>1 DEF GroupCall, Next, VaultCall
  <2>2. ASSUME NEW g \in Groups, NEW s \in Sides, HolderCall(g, s) PROVE Next
    BY <2>2 DEF HolderCall, Next, ReceiptCall
  <2>3. ASSUME NEW a \in Amounts, VaultDeposit(a) \/ VaultWithdrawFree(a) PROVE Next
    BY <2>3 DEF Next, VaultCall
  <2>4. SwapCall \/ TransferIn \/ TransferOut \/ Revert \/ Tick => Next
    BY DEF Next
  <2> QED
    BY <1>2, <2>1, <2>2, <2>3, <2>4 DEF IndexedNext
<1> QED
  BY <1>1, <1>2

LEMMA IndexedImplements == IndexedSpec => Spec
<1>1. IndexedInit => Init
  BY DEF IndexedInit
<1> QED
  BY <1>1, IndexedIsNext, PTL DEF IndexedSpec, Spec

LEMMA IndexFollowsNext ==
    ASSUME VarTypes, IndexFollows, [IndexedNext]_<<vars, indexed>>
    PROVE  IndexFollows'
<1>0. Mirrors(Folded(entity, pending), group)
  BY DEF IndexFollows
<1>1. ASSUME NEW g \in Groups, GroupCall(g) PROVE IndexFollows'
  <2>1. CASE CreateGroup(g) /\ Call(<<[event |-> "GroupCreated", group |-> g]>>)
    <3>1. UNCHANGED stack
      BY <2>1 DEF CreateGroup
    <3> QED
      BY <2>1, <3>1, CreateLogs, CallFollows
  <2>2. ASSUME NEW v \in Variances, Finalize(g, v), Call(FinalizedLog(g)) PROVE IndexFollows'
    <3>1. UNCHANGED stack
      BY <2>2 DEF Finalize
    <3> QED
      BY <2>2, <3>1, FinalizeLogs, CallFollows
  <2>3. ASSUME NEW a \in Amounts, NEW kind \in {"ExitBufferFunded", "ExitBufferWithdrawn"},
               AllocateExitBuffer(g, a) \/ FundExitBuffer(g, a) \/ WithdrawExitBuffer(g, a),
               Call(BufferLog(kind, g))
        PROVE  IndexFollows'
    <3>1. UNCHANGED stack
      BY <2>3 DEF AllocateExitBuffer, FundExitBuffer, WithdrawExitBuffer
    <3> QED
      BY <2>3, <3>1, BufferLogs, CallFollows
  <2> QED
    BY <1>1, <2>1, <2>2, <2>3 DEF GroupCall
<1>2. ASSUME NEW g \in Groups, NEW s \in Sides, HolderCall(g, s) PROVE IndexFollows'
  <2>1. ASSUME NEW u \in UnitAmounts, BurnWorthless(g, s, u),
               Call(<<[event |-> "WorthlessBurned", group |-> g, side |-> s, units |-> u]>>)
        PROVE  IndexFollows'
    <3>1. UNCHANGED stack /\ u \in Nat
      BY <2>1, InputsAssumption DEF BurnWorthless
    <3> QED
      BY <1>0, <2>1, <3>1, WorthlessLogs, CallFollows
  <2>2. ASSUME NEW u \in StrayAmounts, ReceiptTransferToVault(g, s, u), Call(<< >>)
        PROVE  IndexFollows'
    <3>1. UNCHANGED stack /\ Faithful(<< >>)
      BY <2>2 DEF ReceiptTransferToVault, Faithful
    <3> QED
      BY <2>2, <3>1, CallFollows
  <2> QED
    BY <1>2, <2>1, <2>2 DEF HolderCall
<1>3. ASSUME NEW a \in Amounts, VaultDeposit(a) \/ VaultWithdrawFree(a), Call(<< >>)
      PROVE  IndexFollows'
  <2>1. UNCHANGED stack /\ Faithful(<< >>)
    BY <1>3 DEF VaultDeposit, VaultWithdrawFree, Faithful
  <2> QED
    BY <1>3, <2>1, CallFollows
<1>4. ASSUME SwapCall, Emit(IssuedLog(stack'[Len(stack')])), began' = Append(began, pending)
      PROVE  IndexFollows'
  BY <1>4, SwapLogs, SwapFollows
<1>5. ASSUME TransferIn, Transferred(BurnLog(Top)) PROVE IndexFollows'
  BY <1>0, <1>5, TransferLogs, TransferFollows
<1>6. ASSUME TransferOut, Transferred(<< >>) PROVE IndexFollows'
  BY <1>0, <1>6, TransferLogs, TransferFollows
<1>7. ASSUME Revert, pending' = Last(began), began' = Front(began), UNCHANGED entity
      PROVE  IndexFollows'
  BY <1>7, RevertFollows
<1>8. ASSUME UNCHANGED <<stack, group, indexed>> PROVE IndexFollows'
  BY <1>8 DEF IndexFollows, indexed, Mirrors, Folded, IsLogs
<1> QED
  <2>1. CASE IndexedNext
    <3>1. Tick => UNCHANGED <<stack, group>>
      BY DEF Tick, chain
    <3> QED
      BY <2>1, <3>1, <1>1, <1>2, <1>3, <1>4, <1>5, <1>6, <1>7, <1>8 DEF IndexedNext
  <2>2. CASE UNCHANGED <<vars, indexed>>
    BY <2>2, <1>8 DEF vars, chain
  <2> QED
    BY <2>1, <2>2

LEMMA IndexFollowsAlways == IndexedSpec => []IndexFollows
<1>1. IndexedInit => IndexFollows
  <2> SUFFICES ASSUME IndexedInit PROVE IndexFollows
    OBVIOUS
  <2>1. /\ pending = << >> /\ began = << >> /\ entity = << >> /\ stack = << >>
        /\ group = [g \in Groups |-> EmptyGroup]
    BY DEF IndexedInit, Init
  <2>2. IsLogs(pending) /\ IsLogs(began) /\ Len(began) = 0 /\ Len(stack) = 0
    BY <2>1, EmptySeq DEF IsLogs
  <2>3. Mirrors(entity, group)
    <3>1. \A g \in Groups : group[g] = EmptyGroup /\ ~group[g].created
      BY <2>1 DEF EmptyGroup
    <3>2. DOMAIN entity = {}
      BY <2>1
    <3> QED
      BY <3>1, <3>2 DEF Mirrors
  <2>4. Folded(entity, pending) = entity
    BY <2>1, FoldNothing
  <2> QED
    BY <2>1, <2>2, <2>3, <2>4 DEF IndexFollows
<1>2. TypeOK /\ IndexFollows /\ [IndexedNext]_<<vars, indexed>> => IndexFollows'
  BY IndexFollowsNext, TypeOKByVariable
<1>3. IndexedSpec => []TypeOK
  BY IndexedImplements, TypeCorrect
<1> QED
  BY <1>1, <1>2, <1>3, PTL DEF IndexedSpec

\* What the handlers of the subgraph fold, out of the logs of calls and of
\* swaps nested in one another and reverted at any depth, is the contract's
\* ledger, and the event records account for every unit outstanding.
THEOREM IndexTheorem == IndexedSpec => []SubgraphIsLedger
<1>1. IndexFollows => SubgraphIsLedger
  <2> SUFFICES ASSUME IndexFollows, stack = << >>
               PROVE  /\ DOMAIN entity = {g \in Groups : group[g].created}
                      /\ \A g \in DOMAIN entity :
                            Mirrored(entity[g], group[g])
    BY DEF SubgraphIsLedger, Mirrored, AddsUp
  <2>1. Mirrors(entity, group)
    BY FoldNothing DEF IndexFollows
  <2> QED
    BY <2>1 DEF Mirrors
<1> QED
  BY <1>1, IndexFollowsAlways, PTL

-----------------------------------------------------------------------------
(***************************************************************************)
(* The page.  What the web application computes of a group agrees with     *)
(* what the market would do.                                               *)
(***************************************************************************)

LEMMA SideOfPage ==
    ASSUME NEW f, NEW s \in Sides
    PROVE  BySide(f)[PageSide[s]] = f[s]
<1>1. "HIGH" \in Sides /\ "CALM" \in Sides /\ Sides = {"HIGH", "CALM"}
  BY DEF Sides
<1>2. PageSide["HIGH"] = "high" /\ PageSide["CALM"] = "calm"
  BY DEF PageSide
<1>3. PageSide[s] \in Side
  BY <1>1, <1>2 DEF Side
<1>4. \A r \in Sides : PageSide[r] = PageSide[s] => r = s
  BY <1>1, <1>2
<1>5. (CHOOSE r \in Sides : PageSide[r] = PageSide[s]) = s
  BY <1>4
<1> QED
  BY <1>3, <1>5 DEF BySide

LEMMA SidesOfPage ==
    ASSUME NEW f
    PROVE  BySide(f)["high"] = f["HIGH"] /\ BySide(f)["calm"] = f["CALM"]
<1>1. "HIGH" \in Sides /\ "CALM" \in Sides
  BY DEF Sides
<1>2. PageSide["HIGH"] = "high" /\ PageSide["CALM"] = "calm"
  BY DEF PageSide
<1> QED
  BY <1>1, <1>2, SideOfPage

\* The page rounds as the market does.
LEMMA PageReserve ==
    ASSUME NEW h \in Nat, NEW c \in Nat, NEW cap \in Nat
    PROVE  liveReserve(h, c, cap) = Reserve(h, c, cap)
  BY ShownAssumption DEF liveReserve, Up, Reserve, MaxOf, CeilMul

\* Fewer units of a side never need a larger reserve.
LEMMA ReserveMonotone ==
    ASSUME NEW h \in Nat, NEW c \in Nat, NEW i \in Nat, NEW d \in Nat, NEW cap \in Nat,
           i <= h, d <= c
    PROVE  Reserve(i, d, cap) <= Reserve(h, c, cap)
<1>1. /\ MaxOf(i, d) \in Nat /\ MaxOf(h, c) \in Nat
      /\ MaxOf(i, d) <= MaxOf(h, c)
  BY DEF MaxOf
<1> QED
  BY <1>1, CeilMonotone DEF Reserve

\* What a burn releases of a live group's reserve, as the page computes it
\* from the units outstanding, is what the market will find it releases.
LEMMA PageReleases ==
    ASSUME VarTypes, NEW g \in Groups, NEW s \in Sides,
           GroupBacked(g, group[g]), ~group[g].finalized,
           NEW units \in 1 .. group[g].outstanding[s]
    PROVE  /\ reserveReleasedByBurn(Shown(g), PageSide[s], units) =
                 group[g].reserveLocked - ReserveAfterExit(g, s, units)
           /\ reserveReleasedByBurn(Shown(g), PageSide[s], units) \in Nat
<1> DEFINE out == group[g].outstanding
           after == [out EXCEPT ![s] = @ - units]
           cap == Params[g].capPayoutPerUnit
           left == [p \in Side |->
                      Shown(g).outstanding[p] - (IF p = PageSide[s] THEN units ELSE 0)]
<1>1. /\ out \in UnitsBySide /\ out["HIGH"] \in Nat /\ out["CALM"] \in Nat
      /\ group[g].reserveLocked \in Nat /\ out[s] \in Nat
  BY GroupFields DEF UnitsBySide, Sides
<1>2. cap \in Nat
  BY ParamTypes
<1>3. units \in Nat /\ units <= out[s]
  BY <1>1
<1>4. s = "HIGH" \/ s = "CALM"
  BY DEF Sides
<1>5. PageSide["HIGH"] = "high" /\ PageSide["CALM"] = "calm"
  BY DEF PageSide, Sides
<1>6. /\ Shown(g).finalized = group[g].finalized
      /\ Shown(g).outstanding["high"] = out["HIGH"]
      /\ Shown(g).outstanding["calm"] = out["CALM"]
      /\ Shown(g).capPayout = cap
  BY SidesOfPage DEF Shown
<1>7. /\ after \in UnitsBySide
      /\ after["HIGH"] \in Nat /\ after["CALM"] \in Nat
      /\ after["HIGH"] <= out["HIGH"] /\ after["CALM"] <= out["CALM"]
  <2> HIDE DEF out
  <2> QED
    BY <1>1, <1>3, <1>4 DEF UnitsBySide, Sides
<1>8. left["high"] = after["HIGH"] /\ left["calm"] = after["CALM"]
  <2>1. left["high"] = out["HIGH"] - (IF "high" = PageSide[s] THEN units ELSE 0)
    BY <1>6 DEF Side
  <2>2. left["calm"] = out["CALM"] - (IF "calm" = PageSide[s] THEN units ELSE 0)
    BY <1>6 DEF Side
  <2> HIDE DEF out, left
  <2> QED
    BY <1>1, <1>3, <1>4, <1>5, <2>1, <2>2 DEF UnitsBySide, Sides
<1>9. ~(left[PageSide[s]] < 0)
  <2> HIDE DEF left, after
  <2> QED
    BY <1>4, <1>5, <1>7, <1>8
<1>10. reserveFor(Shown(g), Shown(g).outstanding["high"], Shown(g).outstanding["calm"])
         = Reserve(out["HIGH"], out["CALM"], cap)
  BY <1>1, <1>2, <1>6, PageReserve DEF reserveFor
<1>11. reserveFor(Shown(g), left["high"], left["calm"])
         = Reserve(after["HIGH"], after["CALM"], cap)
  <2> HIDE DEF left, after
  <2> QED
    BY <1>2, <1>6, <1>7, <1>8, PageReserve DEF reserveFor
<1>12. group[g].reserveLocked = Reserve(out["HIGH"], out["CALM"], cap)
  BY DEF GroupBacked, GroupReserve
<1>13. ReserveAfterExit(g, s, units) = Reserve(after["HIGH"], after["CALM"], cap)
  BY DEF ReserveAfterExit, GroupReserve
<1> DEFINE before == Reserve(out["HIGH"], out["CALM"], cap)
           rest == Reserve(after["HIGH"], after["CALM"], cap)
<1>14. before \in Nat /\ rest \in Nat /\ rest <= before
  <2> HIDE DEF out, after, cap
  <2> QED
    BY <1>1, <1>2, <1>7, ReserveMonotone, ReserveNat
<1>15. reserveReleasedByBurn(Shown(g), PageSide[s], units) = Floored(before, rest)
  BY <1>9, <1>10, <1>11 DEF reserveReleasedByBurn
<1>16. Floored(before, rest) = before - rest
  <2> HIDE DEF before, rest
  <2> QED
    BY <1>14 DEF Floored
<1> HIDE DEF before, rest
<1> QED
  BY <1>12, <1>13, <1>14, <1>15, <1>16 DEF before, rest

\* The exit ticket warns of exactly the exits that the market would refuse for
\* want of funds: what the page makes of the units outstanding agrees with the
\* reserve the market has carried along, buffer included.
THEOREM PageTheorem == IndexedSpec => []UnderfundedIsShown
<1>1. VarTypes /\ Backed => UnderfundedIsShown
  <2> SUFFICES ASSUME VarTypes, Backed,
                      NEW g \in Existing, NEW s \in Sides, ExitOpen(g),
                      NEW units \in 1 .. group[g].outstanding[s]
               PROVE  ExitGroupTicket(Shown(g), PageSide[s], Clock, Wallet(g),
                          Typed(units, ExitProceeds(units, Params[g].bid[s]))).underfunded
                      <=> ExitProceeds(units, Params[g].bid[s]) >
                             (group[g].reserveLocked - ReserveAfterExit(g, s, units))
                             + group[g].exitBuffer
    BY DEF UnderfundedIsShown
  <2> DEFINE t == Typed(units, ExitProceeds(units, Params[g].bid[s]))
             needed == ExitProceeds(units, Params[g].bid[s])
             released == group[g].reserveLocked - ReserveAfterExit(g, s, units)
             buffer == group[g].exitBuffer
  <2>1. g \in Groups /\ ~group[g].finalized
    BY DEF Existing, ExitOpen
  <2>2. group[g].outstanding[s] \in Nat /\ buffer \in Nat
    BY <2>1, GroupFields
  <2>3. units \in Nat /\ units > 0
    BY <2>2
  <2>4. needed \in Nat
    BY <2>1, <2>3, ParamTypes, FloorNat DEF ExitProceeds
  <2>5. /\ reserveReleasedByBurn(Shown(g), PageSide[s], units) = released
        /\ released \in Nat
    <3>1. GroupBacked(g, group[g])
      BY <2>1 DEF Backed
    <3> QED
      BY <2>1, <3>1, PageReleases
  <2>6. t.parsed = units
    BY DEF Typed
  <2>7. Valid(t)
    BY <2>3, <2>6, ShownAssumption DEF Valid, IsPositive
  <2>8. /\ Shown(g).exitBuffer = buffer
        /\ Shown(g).bid[PageSide[s]] = Params[g].bid[s]
    BY SideOfPage DEF Shown
  <2>9. groupExitProceeds(units, Shown(g).bid[PageSide[s]]) = needed
    BY <2>8, ShownAssumption DEF groupExitProceeds, ExitProceeds, FloorMul
  <2>10. exitFunded(Shown(g), PageSide[s], units) <=> released + buffer >= needed
    BY <2>5, <2>8, <2>9 DEF exitFunded, exitAvailability
  <2>11. ExitGroupTicket(Shown(g), PageSide[s], Clock, Wallet(g), t).underfunded
           <=> ~exitFunded(Shown(g), PageSide[s], units)
    BY <2>6, <2>7 DEF ExitGroupTicket
  <2>12. (~(released + buffer >= needed)) <=> needed > released + buffer
    <3> HIDE DEF needed, released, buffer
    <3> QED
      BY <2>2, <2>4, <2>5
  <2> QED
    BY <2>10, <2>11, <2>12
<1>2. IndexedSpec => []TypeOK
  BY IndexedImplements, TypeCorrect
<1>3. IndexedSpec => []Backed
  BY IndexedImplements, BackedAlways
<1> QED
  BY <1>1, <1>2, <1>3, TypeOKByVariable, PTL

\* A ticket without a reason against it is not blocked.
LEMMA NoReason ==
    ASSUME NEW reasons, \A i \in DOMAIN reasons : ~reasons[i][1]
    PROVE  FirstReason(reasons) = Unknown
<1>1. {i \in DOMAIN reasons : reasons[i][1]} = {}
  OBVIOUS
<1> QED
  BY <1>1 DEF FirstReason

LEMMA NoReasonOfTwo ==
    ASSUME NEW a, NEW b, NEW p, NEW q, a = FALSE, b = FALSE
    PROVE  FirstReason(<< <<a, p>>, <<b, q>> >>) = Unknown
<1> DEFINE list == << <<a, p>>, <<b, q>> >>
<1>1. DOMAIN list = {1, 2} /\ list[1][1] = a /\ list[2][1] = b
  OBVIOUS
<1> HIDE DEF list
<1>2. \A i \in DOMAIN list : list[i][1] = FALSE
  BY <1>1
<1> QED
  BY <1>2, NoReason DEF list

LEMMA NoReasonOfSix ==
    ASSUME NEW a, NEW b, NEW c, NEW d, NEW e, NEW f,
           NEW p, NEW q, NEW r, NEW t, NEW u, NEW v,
           a = FALSE, b = FALSE, c = FALSE, d = FALSE, e = FALSE, f = FALSE
    PROVE  FirstReason(<< <<a, p>>, <<b, q>>, <<c, r>>, <<d, t>>, <<e, u>>, <<f, v>> >>) = Unknown
<1> DEFINE list == << <<a, p>>, <<b, q>>, <<c, r>>, <<d, t>>, <<e, u>>, <<f, v>> >>
<1>1. /\ DOMAIN list = 1 .. 6
      /\ list[1][1] = a /\ list[2][1] = b /\ list[3][1] = c
      /\ list[4][1] = d /\ list[5][1] = e /\ list[6][1] = f
  OBVIOUS
<1> HIDE DEF list
<1>2. \A i \in DOMAIN list : list[i][1] = FALSE
  BY <1>1
<1> QED
  BY <1>2, NoReason DEF list

LEMMA TabSeq ==
    ASSUME NEW offered \in BOOLEAN, NEW S, NEW kind \in S
    PROVE  TabIf(offered, kind) \in Seq(S)
<1>1. <<kind>> \in Seq(S) /\ << >> \in Seq(S)
  OBVIOUS
<1> QED
  BY <1>1 DEF TabIf

\* Every tab that is offered is there, whatever the others are.
LEMMA TabsOffered ==
    ASSUME NEW g, NEW t \in Nat \ {0}
    PROVE  LET kinds == kindsFor(g, t) IN
           /\ (\E s \in Side : groupCanRedeem(g, s) \/ groupNeedsWorthlessBurn(g, s)) =>
                 \E i \in DOMAIN kinds : kinds[i] = "redeem"
           /\ hasGroupOracleTab(g, t) => \E i \in DOMAIN kinds : kinds[i] = "oracle"
<1> DEFINE ca == groupCanBuy(g, t)
           cb == \E s \in Side : groupCanExit(g, s, t)
           cc == \E s \in Side : groupCanRedeem(g, s) \/ groupNeedsWorthlessBurn(g, s)
           cd == hasGroupOracleTab(g, t)
           two == TabIf(ca, "buy") \o TabIf(cb, "exit")
           three == two \o TabIf(cc, "redeem")
           all == three \o TabIf(cd, "oracle")
           K == {"buy", "exit", "redeem", "oracle"}
<1>1. ca \in BOOLEAN /\ cb \in BOOLEAN /\ cc \in BOOLEAN /\ cd \in BOOLEAN
  BY DEF groupCanBuy, hasGroupOracleTab
<1>2. /\ TabIf(ca, "buy") \in Seq(K) /\ TabIf(cb, "exit") \in Seq(K)
      /\ TabIf(cc, "redeem") \in Seq(K) /\ TabIf(cd, "oracle") \in Seq(K)
  BY <1>1, TabSeq
<1>3. kindsFor(g, t) = IF all # << >> THEN all ELSE IF g.finalized THEN <<"redeem">> ELSE <<"buy">>
  BY DEF kindsFor
<1> HIDE DEF ca, cb, cc, cd
<1>4. two \in Seq(K)
  BY <1>2
<1> HIDE DEF two
<1>5. three \in Seq(K)
  BY <1>2, <1>4
<1>6. ASSUME cc PROVE \E i \in DOMAIN all : all[i] = "redeem"
  <2>1. TabIf(cc, "redeem") = <<"redeem">>
    BY <1>6 DEF TabIf
  <2>2. Len(two) + 1 \in DOMAIN three /\ three[Len(two) + 1] = "redeem"
    BY <1>4, <2>1
  <2> HIDE DEF three
  <2>3. Len(two) + 1 \in DOMAIN all /\ all[Len(two) + 1] = "redeem"
    BY <1>2, <1>4, <1>5, <2>2
  <2> QED
    BY <2>3
<1>7. ASSUME cd PROVE \E i \in DOMAIN all : all[i] = "oracle"
  <2>1. TabIf(cd, "oracle") = <<"oracle">>
    BY <1>7 DEF TabIf
  <2> HIDE DEF three
  <2>2. Len(three) + 1 \in DOMAIN all /\ all[Len(three) + 1] = "oracle"
    BY <1>5, <2>1
  <2> QED
    BY <2>2
<1>8. (\E i \in DOMAIN all : TRUE) => all # << >>
  OBVIOUS
<1> HIDE DEF all
<1>9. /\ cc => \E i \in DOMAIN kindsFor(g, t) : kindsFor(g, t)[i] = "redeem"
      /\ cd => \E i \in DOMAIN kindsFor(g, t) : kindsFor(g, t)[i] = "oracle"
  BY <1>3, <1>6, <1>7, <1>8
<1> QED
  BY <1>9 DEF cc, cd

\* A page of a connected wallet blocks on nothing but the group itself.
LEMMA OracleOffers ==
    ASSUME NEW g \in Groups, NEW p \in Progress, ~group[g].finalized
    PROVE  Oracle(g, p).checkpoints \/ Oracle(g, p).finalizes
<1>1. PICK n \in 0 .. 2 : p = [stored |-> n, available |-> 2, total |-> 2]
  BY DEF Progress
<1>2. p.stored = n /\ p.available = 2 /\ p.total = 2
  BY <1>1
<1>3. p # Unknown
  BY <1>1, ShownAssumption
<1>4. (~Wallet(g).deployed) = FALSE /\ (~Wallet(g).connected) = FALSE
  BY DEF Wallet
<1>5. FirstReason(<< <<~Wallet(g).deployed, "Contracts not deployed">>,
                     <<~Wallet(g).connected, "Connect a wallet">> >>) = Unknown
  BY <1>4, NoReasonOfTwo
<1>6. CASE n < 2
  <2>1. Floored(2, n) = 2 - n /\ 2 - n \in Nat /\ 2 - n > 0
    BY <1>6 DEF Floored
  <2>2. Floored(2, n) # Unknown
    BY <2>1, ShownAssumption
  <2>3. IsPositive(Floored(2, n))
    BY SMTT(30), <2>1, <2>2 DEF IsPositive
  <2>4. Oracle(g, p).checkpoints
    BY <1>2, <1>3, <1>5, <2>3 DEF Oracle, GroupOracleTicket
  <2> QED
    BY <2>4
<1>7. CASE n = 2
  <2>1. Shown(g).finalized = group[g].finalized
    BY DEF Shown
  <2>2. p # Unknown /\ p.total > 0 /\ p.stored >= p.total
    BY <1>2, <1>3, <1>7
  <2>3. Oracle(g, p).finalizes
    BY <1>5, <2>1, <2>2, Zenon DEF Oracle, GroupOracleTicket
  <2> QED
    BY <2>3
<1> QED
  BY <1>6, <1>7

\* A redemption of all a holder has is not blocked, and the router quotes it
\* in full.
LEMMA RedeemOffers ==
    ASSUME VarTypes, ClaimsKept, stack = << >>,
           NEW g \in Groups, NEW s \in Sides, group[g].finalized, held[g][s] > 0
    PROVE  LET owed == SettleProceeds(held[g][s], group[g].ppu[s])
               ticket == Redeeming(g, s, held[g][s])
               worthless == groupNeedsWorthlessBurn(Shown(g), PageSide[s])
           IN  /\ owed \in Nat
               /\ group[g].ppu[s] = 0 <=> worthless
               /\ owed > 0 => /\ groupCanRedeem(Shown(g), PageSide[s])
                              /\ ticket.redeems /\ ticket.receives = owed
               /\ worthless => ticket.burns
<1> DEFINE units == held[g][s]
           ppu == group[g].ppu[s]
           owed == SettleProceeds(units, ppu)
           pays == MinOf(owed, aqua[g]["SETTLE"][s])
           t == Typed(units, pays)
           page == PageSide[s]
           worthless == groupNeedsWorthlessBurn(Shown(g), page)
           ticket == Redeeming(g, s, units)
<1>1. /\ units \in Nat /\ inventory[g][s] \in Nat /\ ppu \in Nat
      /\ group[g].outstanding[s] \in Nat
  BY GroupFields
<1>2. /\ units <= group[g].outstanding[s]
      /\ aqua[g]["SETTLE"][s] >= SettleProceeds(units + inventory[g][s], ppu)
  BY QuietSides
<1>3. aqua[g]["SETTLE"][s] \in Nat
  BY DEF VarTypes, UnitsBySide, Kinds
<1>4. owed \in Nat /\ SettleProceeds(units + inventory[g][s], ppu) \in Nat
      /\ owed <= SettleProceeds(units + inventory[g][s], ppu)
  <2> HIDE DEF units, ppu
  <2>1. units + inventory[g][s] \in Nat /\ units <= units + inventory[g][s]
    BY <1>1
  <2> QED
    BY <1>1, <2>1, FloorMonotone, FloorNat DEF SettleProceeds
<1>5. pays = owed
  <2> HIDE DEF owed
  <2> QED
    BY <1>2, <1>3, <1>4 DEF MinOf
<1>6. /\ Shown(g).finalized = group[g].finalized
      /\ Shown(g).outstanding[page] = group[g].outstanding[s]
      /\ Shown(g).ppu[page] = ppu
      /\ Wallet(g).receipts[page] = units
      /\ (~Wallet(g).deployed) = FALSE /\ (~Wallet(g).connected) = FALSE
  BY SideOfPage DEF Shown, Wallet
<1>7. t.parsed = units /\ t.running = FALSE /\ t.quote.out = IF pays > 0 THEN pays ELSE Unknown
  BY DEF Typed
<1>8. ppu = 0 <=> worthless
  <2> HIDE DEF units, ppu
  <2> QED
    BY <1>1, <1>2, <1>6 DEF groupNeedsWorthlessBurn, units
<1>9. ppu > 0 <=> groupCanRedeem(Shown(g), page)
  BY <1>6 DEF groupCanRedeem
<1>10. Valid(t) /\ ~Above(t.parsed, units) /\ (units = 0) = FALSE
  BY <1>1, <1>7, ShownAssumption DEF Valid, IsPositive, Above
<1> DEFINE undeployed == ~Wallet(g).deployed
           live == ~Shown(g).finalized
           nothing == ~groupCanRedeem(Shown(g), page) /\ ~worthless
           unconnected == ~Wallet(g).connected
           none == Wallet(g).receipts[page] = 0
           over == Above(t.parsed, Wallet(g).receipts[page])
           blocker == FirstReason(<<
               <<undeployed, "Contracts not deployed">>,
               <<live, "Not finalized yet">>,
               <<nothing, "Nothing to redeem">>,
               <<unconnected, "Connect a wallet">>,
               <<none, "No receipts held">>,
               <<over, "Exceeds your balance">> >>)
<1>11. blocker = Unknown
  <2>1. live = FALSE /\ undeployed = FALSE /\ unconnected = FALSE
    BY <1>6
  <2>2. nothing = FALSE
    <3> HIDE DEF worthless, page, ppu
    <3> QED
      BY <1>1, <1>8, <1>9
  <2>3. none = FALSE
    BY <1>6, <1>10
  <2>4. over = FALSE
    BY <1>6, <1>10 DEF Above
  <2> HIDE DEF undeployed, live, nothing, unconnected, none, over
  <2> QED
    BY <2>1, <2>2, <2>3, <2>4, NoReasonOfSix
<1>12. ticket = RedeemGroupTicket(Shown(g), page, Wallet(g), t)
  BY DEF Redeeming
<1>13. /\ ticket.burns <=> worthless
       /\ ticket.redeems <=> (~worthless /\ t.quote.out # Unknown)
       /\ (~worthless /\ t.quote.out # Unknown) => ticket.receives = t.quote.out
  <2> HIDE DEF worthless, t, page, ticket
  <2>1. /\ ticket.burns <=> (Valid(t) /\ blocker = Unknown /\ ~t.running) /\ worthless
        /\ ticket.redeems <=> (Valid(t) /\ blocker = Unknown /\ ~t.running) /\ ~worthless
                                /\ t.quote.out # Unknown
        /\ (~worthless /\ t.quote.out # Unknown) => ticket.receives = t.quote.out
    BY <1>12 DEF RedeemGroupTicket, worthless
  <2> QED
    BY <1>7, <1>10, <1>11, <2>1
<1>14. owed > 0 => ppu > 0
  <2>1. ppu = 0 => owed = 0
    BY <1>1, WorthlessUnits DEF SettleProceeds
  <2> HIDE DEF owed, ppu
  <2> QED
    BY <1>1, <1>4, <2>1
<1>15. owed > 0 => t.quote.out = owed /\ owed # Unknown
  <2>1. owed # Unknown
    BY <1>4, ShownAssumption
  <2> QED
    BY <1>5, <1>7, <2>1
<1> HIDE DEF owed, ppu, worthless, t, page, ticket, units
<1>16. owed > 0 => groupCanRedeem(Shown(g), page) /\ ticket.redeems /\ ticket.receives = owed
  <2> SUFFICES ASSUME owed > 0
               PROVE  groupCanRedeem(Shown(g), page) /\ ticket.redeems /\ ticket.receives = owed
    OBVIOUS
  <2>1. ppu > 0 /\ ~worthless
    BY <1>1, <1>8, <1>14
  <2> QED
    BY <1>9, <1>13, <1>15, <2>1
<1>17. /\ owed \in Nat
       /\ ppu = 0 <=> worthless
       /\ worthless => ticket.burns
  BY <1>4, <1>8, <1>13
<1> QED
  BY <1>16, <1>17 DEF owed, ppu, worthless, page, ticket, units

\* From expiry on nobody who holds something is left without a tab that has
\* something to do, and what the page says a redemption pays is what it pays.
THEOREM WayOutTheorem == IndexedSpec => []GroupWayOut
<1>1. VarTypes /\ ClaimsKept => GroupWayOut
  <2> SUFFICES ASSUME VarTypes, ClaimsKept, stack = << >>,
                      NEW g \in Existing, NEW s \in Sides,
                      held[g][s] > 0, now >= Params[g].expiry
               PROVE  LET owed == SettleProceeds(held[g][s], group[g].ppu[s])
                          ticket == Redeeming(g, s, held[g][s])
                      IN  IF group[g].finalized
                          THEN (owed > 0 \/ group[g].ppu[s] = 0) =>
                                  /\ Tab(g, "redeem")
                                  /\ IF owed > 0 THEN ticket.redeems /\ ticket.receives = owed
                                     ELSE ticket.burns
                          ELSE \A p \in Progress :
                                  /\ Tab(g, "oracle")
                                  /\ Oracle(g, p).checkpoints \/ Oracle(g, p).finalizes
    BY DEF GroupWayOut, Read
  <2> DEFINE owed == SettleProceeds(held[g][s], group[g].ppu[s])
             ticket == Redeeming(g, s, held[g][s])
  <2>1. g \in Groups /\ PageSide[s] \in Side
    BY DEF Existing, PageSide, Side, Sides
  <2>2. now \in Nat /\ Clock \in Nat \ {0}
    BY DEF VarTypes, Clock
  <2>3. CASE group[g].finalized
    <3> SUFFICES ASSUME owed > 0 \/ group[g].ppu[s] = 0
                 PROVE  /\ Tab(g, "redeem")
                        /\ IF owed > 0 THEN ticket.redeems /\ ticket.receives = owed
                           ELSE ticket.burns
      BY <2>3
    <3> DEFINE worthless == groupNeedsWorthlessBurn(Shown(g), PageSide[s])
    <3>1. /\ group[g].ppu[s] = 0 <=> worthless
          /\ owed > 0 => /\ groupCanRedeem(Shown(g), PageSide[s])
                         /\ ticket.redeems /\ ticket.receives = owed
          /\ worthless => ticket.burns
      BY <2>1, <2>3, RedeemOffers
    <3> HIDE DEF owed, ticket, worthless
    <3>2. groupCanRedeem(Shown(g), PageSide[s]) \/ worthless
      BY <3>1
    <3>3. Tab(g, "redeem")
      BY <2>1, <2>2, <3>2, TabsOffered DEF Tab, worthless
    <3>4. IF owed > 0 THEN ticket.redeems /\ ticket.receives = owed ELSE ticket.burns
      BY <3>1
    <3> QED
      BY <3>3, <3>4
  <2>4. CASE ~group[g].finalized
    <3>1. Params[g].saleEnd \in Nat /\ Params[g].expiry \in Nat
          /\ Params[g].saleEnd <= Params[g].expiry
      BY <2>1, ParamsAssumption DEF ValidParams
    <3>2. /\ Shown(g).finalized = group[g].finalized
          /\ Shown(g).saleEnd = Params[g].saleEnd + 1
      BY DEF Shown
    <3>3. Clock >= Params[g].saleEnd + 1
      BY <2>2, <3>1 DEF Clock
    <3>4. hasGroupOracleTab(Shown(g), Clock)
      BY <2>4, <3>2, <3>3 DEF hasGroupOracleTab
    <3>5. Tab(g, "oracle")
      BY <2>2, <3>4, TabsOffered DEF Tab
    <3> QED
      BY <2>1, <2>4, <3>5, OracleOffers
  <2> QED
    BY <2>3, <2>4
<1>2. IndexedSpec => []TypeOK
  BY IndexedImplements, TypeCorrect
<1>3. IndexedSpec => []ClaimsKept
  BY IndexedImplements, ClaimsKeptInvariant
<1> QED
  BY <1>1, <1>2, <1>3, TypeOKByVariable, PTL
=============================================================================

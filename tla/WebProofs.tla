------------------------------ MODULE WebProofs -----------------------------
(***************************************************************************)
(* Theorems about the web application's ways to write and to trade.        *)
(*                                                                         *)
(* The taker's flow, for all prices, amounts, stock and slippage, and      *)
(* however often the market moves between its awaits: no fill is worse     *)
(* than the quote allows, the allowance is enough for any fill the limit   *)
(* accepts, and what a result reports of a fill is true.                   *)
(*                                                                         *)
(* The writer's flows, for any number of tabs, terms, clock and pool: an   *)
(* announced transaction was mined under the announced terms, one tab      *)
(* never has two series created for the same terms, and only the missing   *)
(* collateral is pulled into the vault.                                    *)
(*                                                                         *)
(* The two pages that write a market, for all that may be typed and read:  *)
(* what the wizard promises of a form it calls valid, and which of the     *)
(* forms the pages let through the contracts refuse, however long the      *)
(* creation takes.                                                         *)
(***************************************************************************)
EXTENDS TakerFlow, WriterFlow, WriteForms, CommonProofs

-----------------------------------------------------------------------------
(* Arithmetic *)

LEMMA TimesMonotone ==
    ASSUME NEW a \in Int, NEW b \in Int, NEW k \in Nat, a <= b
    PROVE  a * k <= b * k
  OBVIOUS

\* A product of positive numbers is positive.
LEMMA ProductPositive ==
    ASSUME NEW a \in Nat, NEW b \in Nat, a > 0, b > 0
    PROVE  a * b > 0
  OBVIOUS

LEMMA DivBounds ==
    ASSUME NEW a \in Nat, NEW b \in Nat, b > 0
    PROVE  /\ a \div b \in Nat
           /\ (a \div b) * b <= a
           /\ a < (a \div b) * b + b
  OBVIOUS

LEMMA ExactQuotient ==
    ASSUME NEW a \in Nat, NEW b \in Nat, b > 0
    PROVE  (a * b) \div b = a
<1> DEFINE q == (a * b) \div b
<1>1. q \in Nat /\ q * b <= a * b /\ a * b < q * b + b
  <2> DEFINE x == a * b
  <2>1. x \in Nat
    OBVIOUS
  <2> HIDE DEF x
  <2> QED
    BY <2>1, DivBounds DEF x
<1> HIDE DEF q
<1>2. ASSUME q + 1 <= a PROVE FALSE
  <2>1. (q + 1) * b <= a * b
    BY <1>1, <1>2, TimesMonotone
  <2> QED
    BY <1>1, <2>1
<1>3. ASSUME a + 1 <= q PROVE FALSE
  <2>1. (a + 1) * b <= q * b
    BY <1>1, <1>3, TimesMonotone
  <2> QED
    BY <1>1, <2>1
<1> QED
  BY <1>1, <1>2, <1>3 DEF q

LEMMA CeilDivBound ==
    ASSUME NEW a \in Nat, NEW b \in Nat, b > 0
    PROVE  /\ DivUp(a, b) \in Nat
           /\ a <= DivUp(a, b) * b
<1>1. a + b - 1 \in Nat
  OBVIOUS
<1> QED
  BY <1>1, DivBounds DEF DivUp

LEMMA Min2Nat ==
    ASSUME NEW a \in Nat, NEW b \in Nat
    PROVE  /\ Min2(a, b) \in Nat
           /\ Min2(a, b) <= a
           /\ Min2(a, b) <= b
           /\ Min2(a, b) \in {a, b}
  BY DEF Min2

\* The lowest rate an exact-in fill may have.
LEMMA LeastRate ==
    ASSUME NEW fi \in Nat, NEW fo \in Nat, NEW qi \in Nat, NEW qo \in Nat,
           qi > 0, fo >= DivUp(MinOut(qo) * fi, qi)
    PROVE  fo * qi * SlipBase >= (qo * (SlipBase - Slip) - (SlipBase - 1)) * fi
<1> DEFINE x == qo * (SlipBase - Slip)
           l == MinOut(qo)
           p == l * fi
<1>1. SlipBase \in Nat /\ SlipBase > 0 /\ Slip \in Nat /\ SlipBase - Slip \in Nat
  BY BoundsAssumption
<1>2. x \in Nat
  BY <1>1
<1>3. l \in Nat /\ x < l * SlipBase + SlipBase
  BY <1>1, <1>2, DivBounds DEF MinOut
<1> HIDE DEF x, l
<1>4. p \in Nat
  BY <1>3
<1>5. p <= fo * qi
  <2> HIDE DEF p
  <2>1. DivUp(p, qi) \in Nat /\ p <= DivUp(p, qi) * qi
    BY <1>4, CeilDivBound
  <2>2. DivUp(p, qi) * qi <= fo * qi
    <3>1. DivUp(p, qi) <= fo
      BY DEF p, l
    <3> QED
      BY <2>1, <3>1, TimesMonotone
  <2> QED
    BY <1>4, <2>1, <2>2
<1>6. (x - (SlipBase - 1)) * fi <= (l * SlipBase) * fi
  <2>1. x - (SlipBase - 1) <= l * SlipBase
    BY <1>1, <1>2, <1>3
  <2> QED
    BY <1>1, <1>2, <1>3, <2>1, TimesMonotone
<1>7. (l * SlipBase) * fi = p * SlipBase
  BY <1>1, <1>3
<1>8. p * SlipBase <= (fo * qi) * SlipBase
  <2> HIDE DEF p
  <2> QED
    BY <1>1, <1>4, <1>5, TimesMonotone
<1>9. (x - (SlipBase - 1)) * fi <= (fo * qi) * SlipBase
  <2>1. (x - (SlipBase - 1)) * fi \in Int /\ p * SlipBase \in Int /\ (fo * qi) * SlipBase \in Int
    BY <1>1, <1>2, <1>4
  <2> QED
    BY <2>1, <1>6, <1>7, <1>8
<1> QED
  BY <1>9 DEF x

\* The highest rate an exact-out fill may have.
LEMMA MostRate ==
    ASSUME NEW fi \in Nat, NEW fo \in Nat, NEW qi \in Nat, NEW qo \in Nat,
           qo > 0,
           fi <= (((qi * (SlipBase + Slip)) \div SlipBase) * fo) \div qo
    PROVE  fi * qo * SlipBase <= qi * (SlipBase + Slip) * fo
<1> DEFINE x == qi * (SlipBase + Slip)
           l == x \div SlipBase
           p == l * fo
<1>1. SlipBase \in Nat /\ SlipBase > 0 /\ Slip \in Nat
  BY BoundsAssumption
<1>2. x \in Nat
  BY <1>1
<1>3. l \in Nat /\ l * SlipBase <= x
  <2> HIDE DEF x
  <2> QED
    BY <1>1, <1>2, DivBounds
<1>4. fi <= p \div qo
  OBVIOUS
<1> HIDE DEF x, l
<1>5. p \in Nat
  BY <1>3
<1>6. fi * qo <= p
  <2> HIDE DEF p
  <2>1. p \div qo \in Nat /\ (p \div qo) * qo <= p
    BY <1>5, DivBounds
  <2>2. fi * qo <= (p \div qo) * qo
    BY <1>4, <2>1, TimesMonotone
  <2> QED
    BY <1>5, <2>1, <2>2
<1>7. (fi * qo) * SlipBase <= p * SlipBase
  <2> HIDE DEF p
  <2> QED
    BY <1>1, <1>5, <1>6, TimesMonotone
<1>8. p * SlipBase = (l * SlipBase) * fo
  BY <1>1, <1>3
<1>9. (l * SlipBase) * fo <= x * fo
  BY <1>1, <1>2, <1>3, TimesMonotone
<1>10. (fi * qo) * SlipBase <= x * fo
  <2>1. (fi * qo) * SlipBase \in Int /\ p * SlipBase \in Int /\ x * fo \in Int
    BY <1>1, <1>2, <1>5
  <2> QED
    BY <2>1, <1>7, <1>8, <1>9
<1> QED
  BY <1>10 DEF x


-----------------------------------------------------------------------------
(* Fills *)

AllKinds == {"buyIn", "buyOut", "exit", "settle"}

Amounts == [in : Nat, out : Nat]

Markets == [venue : Venues, price : Prices, inv : Nat, coll : Nat,
            outstanding : Nat, pot : Nat, moves : Nat]

LEMMA UnlimitedCovers ==
    /\ Unlimited \in Nat
    /\ \A a \in 0..MaxAmount : a <= Unlimited
<1>1. MaxAmount \in Nat
  BY BoundsAssumption
<1>2. CASE MaxAmount = 0
  BY <1>2 DEF Unlimited
<1>3. CASE MaxAmount > 0
  <2>1. 1 * MaxAmount <= MaxAmount * MaxAmount
    BY <1>1, <1>3, TimesMonotone
  <2> QED
    BY <1>1, <2>1 DEF Unlimited
<1> QED
  BY <1>1, <1>2, <1>3

\* A market is known by its figures.
LEMMA MarketFigures ==
    ASSUME NEW m \in Markets
    PROVE  /\ m.price \in Nat /\ m.price > 0
           /\ m.inv \in Nat /\ m.coll \in Nat
           /\ m.outstanding \in Nat /\ m.pot \in Nat
           /\ \A i \in Nat : [m EXCEPT !.inv = i] \in Markets
  BY BoundsAssumption DEF Markets

\* The units a premium buys cost no more than it.
LEMMA UnitsOfPremium ==
    ASSUME NEW a \in Nat, NEW p \in Nat, p > 0
    PROVE  /\ a \div p \in Nat
           /\ a \div p <= a
           /\ \A u \in Nat : u < a \div p => u * p < a
<1>1. a \div p \in Nat /\ (a \div p) * p <= a
  BY DivBounds
<1>2. a \div p <= a
  <2>1. (a \div p) * 1 <= (a \div p) * p
    BY <1>1
  <2> QED
    BY <1>1, <2>1
<1>3. ASSUME NEW u \in Nat, u < a \div p
      PROVE  u * p < a
  <2> DEFINE q == a \div p
  <2>1. q \in Nat /\ q * p <= a /\ u + 1 <= q
    BY <1>1, <1>3
  <2> HIDE DEF q
  <2>2. (u + 1) * p <= q * p
    BY <2>1, TimesMonotone
  <2>3. (u + 1) * p = u * p + p
    OBVIOUS
  <2>4. u * p \in Nat /\ q * p \in Nat
    BY <2>1
  <2> QED
    BY <2>1, <2>2, <2>3, <2>4
<1> QED
  BY <1>1, <1>2, <1>3

\* What an issue fills: never more units than are in stock and backed, and
\* something is paid for something.
LEMMA IssueFill ==
    ASSUME NEW m \in Markets, NEW kind \in {"buyIn", "buyOut"}, NEW a \in Nat
    PROVE  /\ Issue(m, kind, a) \in Amounts
           /\ Issue(m, kind, a).out <= m.inv
           /\ Issue(m, kind, a).out <= m.coll
           /\ Filled(kind, Issue(m, kind, a)) <= a
           /\ Issue(m, kind, a).out > 0 => Issue(m, kind, a).in > 0
<1> DEFINE cap == Min2(m.inv, m.coll)
           u == a \div m.price
<1>1. m.price \in Nat /\ m.price > 0 /\ m.inv \in Nat /\ m.coll \in Nat
  BY MarketFigures
<1>2. cap \in Nat /\ cap <= m.inv /\ cap <= m.coll
  BY <1>1, Min2Nat
<1>3. u \in Nat /\ u <= a /\ \A v \in Nat : v < u => v * m.price < a
  BY <1>1, UnitsOfPremium
<1> HIDE DEF cap, u
<1>4. CASE kind = "buyOut"
  <2>1. Issue(m, kind, a) = [in |-> Min2(a, cap) * m.price, out |-> Min2(a, cap)]
    BY <1>4 DEF Issue, cap
  <2>2. Min2(a, cap) \in Nat /\ Min2(a, cap) <= a /\ Min2(a, cap) <= cap
    BY <1>2, Min2Nat
  <2> DEFINE o == Min2(a, cap)
  <2> HIDE DEF o
  <2>3. o \in Nat /\ o * m.price \in Nat
    BY <1>1, <2>2 DEF o
  <2>4. o > 0 => o * m.price > 0
    BY <1>1, <2>3, ProductPositive
  <2> QED
    BY <1>1, <1>2, <1>4, <2>1, <2>2, <2>3, <2>4 DEF Amounts, Filled, o
<1>5. CASE kind = "buyIn" /\ u > cap
  <2>1. Min2(u, cap) = cap
    BY <1>2, <1>3, <1>5 DEF Min2
  <2>2. Issue(m, kind, a) = [in |-> cap * m.price, out |-> cap]
    BY <1>5, <2>1 DEF Issue, cap, u
  <2>3. cap * m.price \in Nat /\ cap * m.price < a
    BY <1>1, <1>2, <1>3, <1>5
  <2>4. cap > 0 => cap * m.price > 0
    BY <1>1, <1>2, ProductPositive
  <2> QED
    BY <1>1, <1>2, <1>5, <2>2, <2>3, <2>4 DEF Amounts, Filled
<1>6. CASE kind = "buyIn" /\ ~(u > cap)
  <2>1. Issue(m, kind, a) = [in |-> a, out |-> u]
    BY <1>6 DEF Issue, cap, u
  <2> QED
    BY <1>1, <1>2, <1>3, <1>6, <2>1 DEF Amounts, Filled
<1> QED
  BY <1>4, <1>5, <1>6

\* What a sale fills: never more units than are outstanding, for no more than
\* the payer has.
LEMMA SellFill ==
    ASSUME NEW m \in Markets, NEW a \in Nat
    PROVE  /\ Sell(m, a) \in Amounts
           /\ Sell(m, a).in <= m.outstanding
           /\ Sell(m, a).out <= m.pot
           /\ Sell(m, a).in <= a
           /\ Sell(m, a).out > 0 =>
                /\ Sell(m, a).in = Min2(a, m.outstanding)
                /\ Sell(m, a).in > 0
<1> DEFINE u == Min2(a, m.outstanding)
           v == u * m.price
<1>1. m.price \in Nat /\ m.outstanding \in Nat /\ m.pot \in Nat
  BY MarketFigures
<1>2. u \in Nat /\ u <= a /\ u <= m.outstanding
  BY <1>1, Min2Nat
<1> HIDE DEF u
<1>3. v \in Nat /\ (u = 0 => v = 0)
  BY <1>1, <1>2
<1> HIDE DEF v
<1>4. Min2(v, m.pot) \in Nat /\ Min2(v, m.pot) <= m.pot /\ Min2(v, m.pot) <= v
  BY <1>1, <1>3, Min2Nat
<1>5. Sell(m, a) \in {Nothing, [in |-> u, out |-> Min2(v, m.pot)]}
  BY DEF Sell, u, v
<1>6. CASE Sell(m, a) = Nothing
  BY <1>1, <1>6 DEF Nothing, Amounts
<1>7. CASE Sell(m, a) = [in |-> u, out |-> Min2(v, m.pot)]
  BY <1>1, <1>2, <1>3, <1>4, <1>7 DEF Amounts, u
<1> QED
  BY <1>5, <1>6, <1>7

LEMMA FillType ==
    ASSUME NEW m \in Markets, NEW kind \in AllKinds, NEW a \in Nat
    PROVE  /\ Fill(m, kind, a) \in Amounts
           /\ Filled(kind, Fill(m, kind, a)) <= a
           /\ Fill(m, kind, a).out > 0 => Fill(m, kind, a).in > 0
  BY IssueFill, SellFill DEF Fill, AllKinds, Filled

-----------------------------------------------------------------------------
(* Quotes *)

\* The market a quote is computed from.
QuotedMarket(m) == IF m.venue = "series" THEN [m EXCEPT !.inv = Unlimited] ELSE m

LEMMA QuotedMarketType ==
    ASSUME NEW m \in Markets
    PROVE  /\ QuotedMarket(m) \in Markets
           /\ QuotedMarket(m).price = m.price
           /\ QuotedMarket(m).coll = m.coll
           /\ QuotedMarket(m).outstanding = m.outstanding
           /\ QuotedMarket(m).pot = m.pot
           /\ QuotedMarket(m).venue = m.venue
           /\ QuotedMarket(m).inv \in {m.inv, Unlimited}
  BY UnlimitedCovers DEF QuotedMarket, Markets

LEMMA QuoteIsFill ==
    ASSUME NEW m \in Markets, NEW kind, NEW a
    PROVE  Quote(m, kind, a) = Fill(QuotedMarket(m), kind, a)
  BY DEF Quote, QuotedMarket

\* The market with nothing to clamp a fill.
Free(m) == [m EXCEPT !.inv = Unlimited, !.coll = Unlimited,
                     !.outstanding = Unlimited, !.pot = Unlimited]

LEMMA FreeType ==
    ASSUME NEW m \in Markets
    PROVE  /\ Free(m) \in Markets
           /\ Free(m).price = m.price
           /\ Free(m).inv = Unlimited
           /\ Free(m).coll = Unlimited
           /\ Free(m).outstanding = Unlimited
  BY UnlimitedCovers DEF Free, Markets

LEMMA ClampedBy ==
    ASSUME NEW m \in Markets, NEW kind, NEW a
    PROVE  Clamped(m, kind, a) <=> Fill(m, kind, a) # Fill(Free(m), kind, a)
  BY DEF Clamped, Free

\* An issue nothing clamps fills what is asked.
LEMMA FreeIssue ==
    ASSUME NEW m \in Markets, NEW kind \in {"buyIn", "buyOut"}, NEW a \in 0..MaxAmount
    PROVE  Issue(Free(m), kind, a) =
             IF kind = "buyOut" THEN [in |-> a * m.price, out |-> a]
                                ELSE [in |-> a, out |-> a \div m.price]
<1> DEFINE u == a \div m.price
<1>1. MaxAmount \in Nat /\ a \in Nat
  BY BoundsAssumption
<1>2. m.price \in Nat /\ m.price > 0
  BY MarketFigures
<1>3. u \in Nat /\ u <= a
  BY <1>1, <1>2, UnitsOfPremium
<1>4. Unlimited \in Nat /\ a <= Unlimited /\ u <= Unlimited
  BY <1>1, <1>3, UnlimitedCovers
<1>5. Min2(Unlimited, Unlimited) = Unlimited /\ Min2(a, Unlimited) = a
  BY <1>1, <1>4 DEF Min2
<1>6. CASE kind = "buyOut"
  BY <1>5, <1>6, FreeType DEF Issue
<1>7. CASE kind = "buyIn"
  <2>1. ~(a \div Free(m).price > Unlimited)
    BY <1>3, <1>4, FreeType
  <2> QED
    BY <1>5, <1>7, <2>1, FreeType DEF Issue
<1> QED
  BY <1>6, <1>7

\* A sale that pays and that nothing clamps sells what is asked.
LEMMA FreeSale ==
    ASSUME NEW m \in Markets, NEW a \in 0..MaxAmount, Sell(Free(m), a).out > 0
    PROVE  Sell(Free(m), a).in = a
<1>1. a \in Nat /\ a <= Unlimited /\ Unlimited \in Nat
  BY BoundsAssumption, UnlimitedCovers
<1>2. Sell(Free(m), a).in = Min2(a, Unlimited)
  BY <1>1, SellFill, FreeType
<1> QED
  BY <1>1, <1>2 DEF Min2

\* A fill no clamp touched is the whole of what was asked.
LEMMA UnclampedFill ==
    ASSUME NEW m \in Markets, NEW kind \in AllKinds, NEW a \in 0..MaxAmount,
           ~Clamped(m, kind, a), Fill(m, kind, a).out > 0
    PROVE  Filled(kind, Fill(m, kind, a)) = a
<1>1. Fill(m, kind, a) = Fill(Free(m), kind, a)
  BY ClampedBy
<1>2. CASE kind \in {"buyIn", "buyOut"}
  BY <1>1, <1>2, FreeIssue DEF Fill, Filled
<1>3. CASE kind \in {"exit", "settle"}
  BY <1>1, <1>3, FreeSale DEF Fill, Filled
<1> QED
  BY <1>2, <1>3 DEF AllKinds

\* So is a quote of it, although a quote may look past the inventory.
LEMMA UnclampedQuote ==
    ASSUME NEW m \in Markets, NEW kind \in AllKinds, NEW a \in 0..MaxAmount,
           ~Clamped(m, kind, a), Quote(m, kind, a).out > 0
    PROVE  Filled(kind, Quote(m, kind, a)) = a
<1> DEFINE n == QuotedMarket(m)
           cap == Min2(m.inv, m.coll)
           capN == Min2(n.inv, n.coll)
           u == a \div m.price
<1>1. a \in Nat /\ MaxAmount \in Nat
  BY BoundsAssumption
<1>2. n \in Markets /\ n.price = m.price /\ n.coll = m.coll
      /\ n.outstanding = m.outstanding /\ n.pot = m.pot /\ n.venue = m.venue
      /\ n.inv \in {m.inv, Unlimited}
  BY QuotedMarketType
<1>3. Fill(m, kind, a) = Fill(Free(m), kind, a)
  BY ClampedBy
<1>4. m.price \in Nat /\ m.price > 0 /\ m.inv \in Nat /\ m.coll \in Nat
  BY MarketFigures
<1>5. u \in Nat /\ u <= a /\ \A v \in Nat : v < u => v * m.price < a
  BY <1>1, <1>4, UnitsOfPremium
<1>6. a <= Unlimited /\ Unlimited \in Nat
  BY UnlimitedCovers
<1> HIDE DEF n, u
<1>7. cap \in Nat /\ \A x \in Nat : x <= cap /\ x <= a => x <= capN
  BY <1>2, <1>4, <1>6 DEF Min2
<1>8. capN \in Nat
  BY <1>2, <1>4, <1>6 DEF Min2
<1> HIDE DEF cap, capN
<1>9. CASE kind = "buyOut"
  <2>1. Issue(m, kind, a) = [in |-> Min2(a, cap) * m.price, out |-> Min2(a, cap)]
    BY <1>9 DEF Issue, cap
  <2>2. Issue(n, kind, a) = [in |-> Min2(a, capN) * n.price, out |-> Min2(a, capN)]
    BY <1>9 DEF Issue, capN
  <2>3. Min2(a, cap) = a
    BY <1>3, <1>9, <2>1, FreeIssue DEF Fill
  <2>4. Min2(a, capN) = a
    BY <1>1, <1>7, <1>8, <2>3 DEF Min2
  <2> QED
    BY <1>9, <2>2, <2>4, QuoteIsFill DEF Fill, Filled, n
<1>10. CASE kind = "buyIn"
  <2>1. u <= cap
    <3>1. SUFFICES ASSUME u > cap PROVE FALSE
      BY <1>5, <1>7
    <3>2. Min2(u, cap) = cap
      BY <1>5, <1>7, <3>1 DEF Min2
    <3>3. Issue(m, kind, a) = [in |-> cap * m.price, out |-> cap]
      BY <1>10, <3>1, <3>2 DEF Issue, cap, u
    <3>4. Issue(m, kind, a).in = a
      BY <1>3, <1>10, FreeIssue DEF Fill
    <3> QED
      BY <1>1, <1>4, <1>5, <1>7, <3>1, <3>3, <3>4
  <2>2. ~(u > capN)
    BY <1>5, <1>7, <1>8, <2>1
  <2>3. Issue(n, kind, a) = [in |-> a, out |-> u]
    BY <1>2, <1>10, <2>2 DEF Issue, capN, u
  <2> QED
    BY <1>10, <2>3, QuoteIsFill DEF Fill, Filled, n
<1>11. CASE kind \in {"exit", "settle"}
  <2>1. Sell(n, a) = Sell(m, a)
    BY <1>2 DEF Sell
  <2>2. Quote(m, kind, a) = Sell(n, a) /\ Fill(m, kind, a) = Sell(m, a)
    BY <1>11, QuoteIsFill DEF Fill, n
  <2>3. Fill(m, kind, a).out > 0
    BY <2>1, <2>2
  <2>4. Filled(kind, Fill(m, kind, a)) = a
    BY <2>3, UnclampedFill
  <2> QED
    BY <2>1, <2>2, <2>4
<1> QED
  BY <1>9, <1>10, <1>11 DEF AllKinds

\* What a fill used of an amount fills again in the same market.
LEMMA FillsAgain ==
    ASSUME NEW m \in Markets, NEW kind \in AllKinds, NEW a \in Nat,
           Fill(m, kind, a).out > 0
    PROVE  LET b == Filled(kind, Fill(m, kind, a))
           IN  Fill(m, kind, b).out > 0 => Filled(kind, Fill(m, kind, b)) = b
<1> DEFINE cap == Min2(m.inv, m.coll)
           u == a \div m.price
           b == Filled(kind, Fill(m, kind, a))
<1>1. m.price \in Nat /\ m.price > 0 /\ m.inv \in Nat /\ m.coll \in Nat
      /\ m.outstanding \in Nat
  BY MarketFigures
<1>2. cap \in Nat
  BY <1>1, Min2Nat
<1>3. CASE kind = "buyOut"
  <2> HIDE DEF cap
  <2>1. \A x \in Nat : Issue(m, kind, x) =
          [in |-> Min2(x, cap) * m.price, out |-> Min2(x, cap)]
    BY <1>3 DEF Issue, cap
  <2>2. b = Min2(a, cap)
    BY <1>3, <2>1 DEF Fill, Filled
  <2>3. b \in Nat /\ Min2(b, cap) = b
    BY <1>2, <2>2 DEF Min2
  <2> HIDE DEF b
  <2>4. Filled(kind, Fill(m, kind, b)) = b
    BY <1>3, <2>1, <2>3 DEF Fill, Filled
  <2> QED
    BY <2>4 DEF b
<1>4. CASE kind = "buyIn"
  <2> HIDE DEF cap, u
  <2>1. \A x \in Nat : ~(x \div m.price > cap) =>
          Issue(m, kind, x) = [in |-> x, out |-> x \div m.price]
    BY <1>4 DEF Issue, cap
  <2>2. u \in Nat
    BY <1>1, UnitsOfPremium DEF u
  <2>3. CASE ~(u > cap)
    <3>1. b = a
      BY <1>4, <2>1, <2>3 DEF Fill, Filled, u
    <3> QED
      BY <3>1
  <2>4. CASE u > cap
    <3>1. Min2(u, cap) = cap
      BY <1>2, <2>2, <2>4 DEF Min2
    <3>2. Issue(m, kind, a) = [in |-> cap * m.price, out |-> cap]
      BY <1>4, <2>4, <3>1 DEF Issue, cap, u
    <3>3. b = cap * m.price
      BY <1>4, <3>2 DEF Fill, Filled
    <3>4. (cap * m.price) \div m.price = cap
      BY <1>1, <1>2, ExactQuotient
    <3>5. b \in Nat /\ ~(b \div m.price > cap)
      BY <1>1, <1>2, <3>3, <3>4
    <3> HIDE DEF b
    <3>6. Filled(kind, Fill(m, kind, b)) = b
      BY <1>4, <2>1, <3>5 DEF Fill, Filled
    <3> QED
      BY <3>6 DEF b
  <2> QED
    BY <2>3, <2>4
<1>5. CASE kind \in {"exit", "settle"}
  <2>1. b = Min2(a, m.outstanding)
    BY <1>5, SellFill DEF Fill, Filled
  <2>2. b \in Nat /\ Min2(b, m.outstanding) = b
    BY <1>1, <2>1 DEF Min2
  <2> HIDE DEF b
  <2>3. Fill(m, kind, b).out > 0 => Filled(kind, Fill(m, kind, b)) = b
    BY <1>5, <2>2, SellFill DEF Fill, Filled
  <2> QED
    BY <2>3 DEF b
<1> QED
  BY <1>3, <1>4, <1>5 DEF AllKinds

-----------------------------------------------------------------------------
(* The invariant *)

Flows == [pc : {"idle", "quote", "allow", "approve", "order", "simulate", "swap", "sent"},
          kind : AllKinds \cup {"none"}, asked : 0..MaxAmount, quote : Amounts,
          taker : Nat, needed : Nat, limit : Nat, age : Nat,
          moves : Nat, clamp : BOOLEAN, allowed : Nat]

Tickets == [text : 0..MaxAmount, debounced : 0..MaxAmount, kind : AllKinds]

Types == market \in Markets /\ ticket \in Tickets /\ flow \in Flows

\* Points of a flow after its quote, and after its allowance.
Priced == {"allow", "approve", "order", "simulate", "swap", "sent"}
Covered == {"order", "simulate", "swap", "sent"}

\* What a flow sends is derived from the quote it started from.
Terms(r) ==
    /\ r.quote.in > 0 /\ r.quote.out > 0
    /\ r.taker = Filled(r.kind, r.quote)
    /\ r.limit = IF ExactIn(r.kind) THEN MinOut(r.quote.out)
                                    ELSE (r.quote.in * (SlipBase + Slip)) \div SlipBase
    /\ r.needed = IF ExactIn(r.kind) THEN r.taker ELSE r.limit
    /\ r.clamp \/ r.taker = r.asked

\* A group's quote is what the market fills until somebody moves it.
Standing(r, m) ==
    /\ r.moves <= m.moves
    /\ m.venue = "group" /\ r.moves = m.moves => r.quote = Fill(m, r.kind, r.asked)

FlowSound(r, m) ==
    /\ r.pc # "idle" => r.kind \in AllKinds
    /\ r.pc \in Priced => Terms(r) /\ Standing(r, m)
    /\ r.pc \in Covered => r.allowed >= r.needed

\* What was reported stays true.
Reported == NeverWorseThanQuoted /\ PartialMeansClamp /\ QuoteCanFill

TakerInv == Types /\ FlowSound(flow, market) /\ Reported

-----------------------------------------------------------------------------
(* The steps *)

LEMMA ReportedStays ==
    ASSUME Reported, market'.venue = market.venue, done' \in {done, {}}
    PROVE  Reported'
  BY DEF Reported, NeverWorseThanQuoted, PartialMeansClamp, QuoteCanFill

LEMMA NoFlowSound ==
    ASSUME NEW a \in Nat, NEW m
    PROVE  NoFlow(a) \in Flows /\ FlowSound(NoFlow(a), m)
<1>1. 0 \in 0..MaxAmount
  BY BoundsAssumption
<1> QED
  BY <1>1 DEF NoFlow, Flows, FlowSound, Nothing, Amounts, Priced, Covered

LEMMA InitSound == TakerInit => TakerInv
<1> SUFFICES ASSUME TakerInit PROVE TakerInv
  OBVIOUS
<1>1. MaxStock \in Nat /\ 0 \in 0..MaxAmount
  BY BoundsAssumption
<1>2. Max(Prices) \in Nat
  BY BoundsAssumption DEF Max
<1>3. MaxStock * Max(Prices) \in Nat
  BY <1>1, <1>2
<1>4. market \in Markets
  BY <1>1, <1>3 DEF TakerInit, Markets
<1>5. ticket \in Tickets
  BY <1>1 DEF TakerInit, Tickets, TicketKinds, AllKinds
<1>6. flow \in Flows /\ FlowSound(flow, market)
  BY NoFlowSound DEF TakerInit
<1>7. Reported
  BY DEF TakerInit, Reported, NeverWorseThanQuoted, PartialMeansClamp, QuoteCanFill
<1> QED
  BY <1>4, <1>5, <1>6, <1>7 DEF TakerInv, Types

LEMMA TicketStep ==
    ASSUME TakerInv, (\E a \in 0..MaxAmount : Type(a)) \/ Toggle \/ Debounce
    PROVE  TakerInv'
<1>1. market' = market /\ flow' = flow /\ done' = done
  BY DEF Type, Toggle, Debounce
<1>2. ticket' \in Tickets
  <2>1. ticket \in Tickets /\ 0 \in 0..MaxAmount
    BY BoundsAssumption DEF TakerInv, Types
  <2> QED
    BY <2>1 DEF Type, Toggle, Debounce, Tickets, AllKinds
<1>3. Reported'
  BY <1>1, ReportedStays DEF TakerInv
<1> QED
  BY <1>1, <1>2, <1>3 DEF TakerInv, Types

LEMMA SubmitStep ==
    ASSUME TakerInv, NEW kinds, Submits(kinds)
    PROVE  TakerInv'
<1>1. market' = market /\ ticket' = ticket /\ done' = {}
  BY DEF Submits
<1>2. flow.allowed \in Nat /\ ticket.kind \in AllKinds /\ ticket.debounced \in 0..MaxAmount
  BY DEF TakerInv, Types, Flows, Tickets
<1>3. NoFlow(flow.allowed) \in Flows
  BY <1>2, NoFlowSound
<1>4. flow' = [NoFlow(flow.allowed) EXCEPT !.pc = "quote", !.kind = ticket.kind,
                                           !.asked = ticket.debounced]
  BY DEF Submits
<1>5. flow' \in Flows
  BY <1>2, <1>3, <1>4 DEF Flows
<1>6. flow'.pc = "quote" /\ flow'.kind = ticket.kind
  BY <1>3, <1>4 DEF Flows
<1>7. FlowSound(flow', market')
  BY <1>2, <1>6 DEF FlowSound, Priced, Covered
<1>8. Reported'
  BY <1>1, ReportedStays DEF TakerInv
<1> QED
  BY <1>1, <1>5, <1>7, <1>8 DEF TakerInv, Types

LEMMA StopStep ==
    ASSUME TakerInv, Stop(flow), UNCHANGED <<market, ticket, done>>
    PROVE  TakerInv'
<1>1. flow.allowed \in Nat
  BY DEF TakerInv, Types, Flows
<1>2. flow' = NoFlow(flow.allowed)
  BY DEF Stop
<1>3. flow' \in Flows /\ FlowSound(flow', market')
  BY <1>1, <1>2, NoFlowSound
<1>4. Reported'
  BY ReportedStays DEF TakerInv
<1> QED
  BY <1>3, <1>4 DEF TakerInv, Types

\* The limits of either side are numbers.
LEMMA LimitTypes ==
    ASSUME NEW x \in Nat
    PROVE  /\ MinOut(x) \in Nat
           /\ (x * (SlipBase + Slip)) \div SlipBase \in Nat
<1>1. SlipBase \in Nat /\ SlipBase > 0 /\ SlipBase - Slip \in Nat /\ SlipBase + Slip \in Nat
  BY BoundsAssumption
<1>2. x * (SlipBase - Slip) \in Nat /\ x * (SlipBase + Slip) \in Nat
  BY <1>1
<1> QED
  BY <1>1, <1>2, DivBounds DEF MinOut

LEMMA AskedType ==
    ASSUME TakerInv, flow.pc = "quote"
    PROVE  /\ Asked \in Amounts
           /\ Filled(flow.kind, Asked) <= flow.asked
           /\ Asked.out > 0 => Asked.in > 0
<1>1. market \in Markets /\ flow.kind \in AllKinds /\ flow.asked \in Nat
  BY BoundsAssumption DEF TakerInv, Types, Flows, FlowSound
<1>2. QuotedMarket(market) \in Markets
  BY <1>1, QuotedMarketType
<1> QED
  BY <1>1, <1>2, QuoteIsFill, FillType DEF Asked

LEMMA QuotedStep ==
    ASSUME TakerInv, flow.pc = "quote", Asked.out # 0,
           Quoted(Asked, IF ExactIn(flow.kind) THEN AtLeast(Asked) ELSE AtMost(Asked))
    PROVE  TakerInv'
<1> DEFINE k == flow.kind
           q == Asked
           l == IF ExactIn(k) THEN AtLeast(q) ELSE AtMost(q)
<1>1. market \in Markets /\ flow \in Flows /\ k \in AllKinds
      /\ flow.asked \in 0..MaxAmount /\ market.moves \in Nat
  BY DEF TakerInv, Types, Flows, FlowSound, Markets
<1>2. q \in Amounts /\ q.in \in Nat /\ q.out \in Nat /\ q.out > 0 /\ q.in > 0
  BY AskedType DEF Amounts
<1>3. l.taker = Filled(k, q)
  BY DEF AtLeast, AtMost, ExactIn, Filled
<1>4. l.limit = IF ExactIn(k) THEN MinOut(q.out) ELSE (q.in * (SlipBase + Slip)) \div SlipBase
  BY DEF AtLeast, AtMost
<1>5. l.needed = IF ExactIn(k) THEN l.taker ELSE l.limit
  BY DEF AtLeast, AtMost
<1>6. l.taker \in Nat /\ l.limit \in Nat /\ l.needed \in Nat
  BY <1>2, <1>3, <1>4, <1>5, LimitTypes DEF Filled
<1>7. Clamped(market, k, flow.asked) \in BOOLEAN
  BY DEF Clamped
<1>8. ~Clamped(market, k, flow.asked) => Filled(k, q) = flow.asked
  BY <1>1, <1>2, UnclampedQuote DEF Asked
<1>9. flow' = [flow EXCEPT !.pc = "allow", !.quote = q, !.taker = l.taker,
                           !.needed = l.needed, !.limit = l.limit,
                           !.moves = market.moves,
                           !.clamp = Clamped(market, k, flow.asked)]
      /\ market' = market /\ ticket' = ticket /\ done' = done
  BY DEF Quoted
<1>10. market.venue = "group" => q = Fill(market, k, flow.asked)
  BY DEF Asked, Quote
<1> HIDE DEF q, l, k
<1>11. flow' \in Flows
  BY <1>1, <1>2, <1>6, <1>7, <1>9 DEF Flows
<1>12. flow'.pc = "allow" /\ flow'.kind = k /\ flow'.quote = q /\ flow'.taker = l.taker
       /\ flow'.needed = l.needed /\ flow'.limit = l.limit /\ flow'.moves = market.moves
       /\ flow'.asked = flow.asked /\ flow'.clamp = Clamped(market, k, flow.asked)
  BY <1>1, <1>9 DEF Flows, k
<1>13. Terms(flow')
  BY <1>2, <1>3, <1>4, <1>5, <1>8, <1>12 DEF Terms
<1>14. Standing(flow', market')
  BY <1>1, <1>9, <1>10, <1>12 DEF Standing
<1>15. FlowSound(flow', market')
  BY <1>1, <1>12, <1>13, <1>14 DEF FlowSound, Covered
<1>16. Reported'
  BY <1>9, ReportedStays DEF TakerInv
<1> QED
  BY <1>1, <1>9, <1>11, <1>15, <1>16 DEF TakerInv, Types

\* Where a flow quotes, it ends there or goes on with limits of its kind.
LEMMA RunStep ==
    ASSUME TakerInv,
           \/ RunBuy \/ RunExit \/ RunRedeem
           \/ RunBuyGroup \/ RunExitGroup \/ RunRedeemGroup
    PROVE  TakerInv'
<1>1. flow.pc = "quote"
  BY DEF RunBuy, RunExit, RunRedeem, RunBuyGroup, RunExitGroup, RunRedeemGroup, Quoting
<1>2. \/ Refused
      \/ /\ Asked.out # 0
         /\ Quoted(Asked, IF ExactIn(flow.kind) THEN AtLeast(Asked) ELSE AtMost(Asked))
  BY DEF RunBuy, RunExit, RunRedeem, RunBuyGroup, RunExitGroup, RunRedeemGroup,
         Quoting, ExactIn
<1> QED
  BY <1>1, <1>2, QuotedStep, StopStep DEF Refused

\* A step that only moves the flow along.
LEMMA FlowStep ==
    ASSUME TakerInv, UNCHANGED <<market, ticket, done>>,
           NEW pc \in {"order", "approve", "simulate", "swap", "sent"},
           NEW age \in Nat, NEW allowed \in Nat,
           flow.pc \in Priced,
           pc \in Covered => allowed >= flow.needed,
           flow' = [flow EXCEPT !.pc = pc, !.age = age, !.allowed = allowed]
    PROVE  TakerInv'
<1>1. flow \in Flows
  BY DEF TakerInv, Types
<1>2. flow' \in Flows
  BY <1>1 DEF Flows
<1>3. /\ flow'.pc = pc /\ flow'.kind = flow.kind /\ flow'.asked = flow.asked
      /\ flow'.quote = flow.quote /\ flow'.taker = flow.taker
      /\ flow'.needed = flow.needed /\ flow'.limit = flow.limit
      /\ flow'.moves = flow.moves /\ flow'.clamp = flow.clamp
      /\ flow'.allowed = allowed
  BY <1>1 DEF Flows
<1>4. flow.kind \in AllKinds /\ Terms(flow) /\ Standing(flow, market)
  BY DEF TakerInv, FlowSound, Priced
<1>5. Terms(flow')
  BY <1>3, <1>4 DEF Terms
<1>6. Standing(flow', market')
  BY <1>3, <1>4 DEF Standing
<1>7. FlowSound(flow', market')
  BY <1>3, <1>4, <1>5, <1>6 DEF FlowSound
<1>8. Reported'
  BY ReportedStays DEF TakerInv
<1> QED
  BY <1>2, <1>7, <1>8 DEF TakerInv, Types

LEMMA AwaitStep ==
    ASSUME TakerInv,
           \/ Allow \/ Approve \/ BuildOrder \/ SimulateSwap \/ SignSwap
           \/ Reject \/ Age
    PROVE  TakerInv'
<1>1. flow \in Flows /\ flow.age \in Nat /\ flow.allowed \in Nat /\ flow.needed \in Nat
  BY DEF TakerInv, Types, Flows
<1>2. flow.pc \in Covered => flow.allowed >= flow.needed
  BY DEF TakerInv, FlowSound
<1>3. \A pc : [flow EXCEPT !.pc = pc] =
                [flow EXCEPT !.pc = pc, !.age = flow.age, !.allowed = flow.allowed]
  BY <1>1 DEF Flows
<1>4. CASE Allow
  <2>1. CASE flow.allowed >= flow.needed
    <3>1. flow' = [flow EXCEPT !.pc = "order", !.age = flow.age, !.allowed = flow.allowed]
      BY <1>3, <1>4, <2>1 DEF Allow
    <3>2. flow.pc \in Priced /\ UNCHANGED <<market, ticket, done>>
      BY <1>4 DEF Allow, Priced
    <3> QED
      BY <1>1, <2>1, <3>1, <3>2, FlowStep
  <2>2. CASE ~(flow.allowed >= flow.needed)
    <3>1. flow' = [flow EXCEPT !.pc = "approve", !.age = flow.age, !.allowed = flow.allowed]
      BY <1>3, <1>4, <2>2 DEF Allow
    <3>2. flow.pc \in Priced /\ UNCHANGED <<market, ticket, done>>
      BY <1>4 DEF Allow, Priced
    <3>3. ~("approve" \in Covered)
      BY DEF Covered
    <3> QED
      BY <1>1, <3>1, <3>2, <3>3, FlowStep
  <2> QED
    BY <2>1, <2>2
<1>5. CASE Approve
  <2>1. flow' = [flow EXCEPT !.pc = "order", !.age = flow.age, !.allowed = flow.needed]
    BY <1>1, <1>5 DEF Approve, Flows
  <2>2. flow.pc \in Priced /\ UNCHANGED <<market, ticket, done>>
    BY <1>5 DEF Approve, Priced
  <2>3. flow.needed >= flow.needed
    BY <1>1
  <2> QED
    BY <1>1, <2>1, <2>2, <2>3, FlowStep
<1>6. CASE BuildOrder
  <2>1. flow' = [flow EXCEPT !.pc = "simulate", !.age = 0, !.allowed = flow.allowed]
    BY <1>1, <1>6 DEF BuildOrder, Flows
  <2>2. flow.pc \in Priced /\ flow.pc \in Covered /\ UNCHANGED <<market, ticket, done>>
    BY <1>6 DEF BuildOrder, Priced, Covered
  <2> QED
    BY <1>1, <1>2, <2>1, <2>2, FlowStep
<1>7. CASE SimulateSwap
  <2>1. flow.pc \in Priced /\ flow.pc \in Covered /\ UNCHANGED <<market, ticket, done>>
    BY <1>7 DEF SimulateSwap, Priced, Covered
  <2>2. CASE Stop(flow)
    BY <2>1, <2>2, StopStep
  <2>3. CASE flow' = [flow EXCEPT !.pc = "swap"]
    <3>1. flow' = [flow EXCEPT !.pc = "swap", !.age = flow.age, !.allowed = flow.allowed]
      BY <1>3, <2>3
    <3> QED
      BY <1>1, <1>2, <2>1, <3>1, FlowStep
  <2> QED
    BY <1>7, <2>2, <2>3 DEF SimulateSwap
<1>8. CASE SignSwap
  <2>1. flow.pc \in Priced /\ flow.pc \in Covered /\ UNCHANGED <<market, ticket, done>>
    BY <1>8 DEF SignSwap, Priced, Covered
  <2>2. flow' = [flow EXCEPT !.pc = "sent", !.age = flow.age, !.allowed = flow.allowed]
    BY <1>3, <1>8 DEF SignSwap
  <2> QED
    BY <1>1, <1>2, <2>1, <2>2, FlowStep
<1>9. CASE Reject
  BY <1>9, StopStep DEF Reject
<1>10. CASE Age
  <2>1. flow.pc \in Priced /\ flow.pc \in Covered /\ UNCHANGED <<market, ticket, done>>
        /\ flow.pc \in {"simulate", "swap", "sent"}
    BY <1>10 DEF Age, Priced, Covered
  <2>2. flow' = [flow EXCEPT !.pc = flow.pc, !.age = flow.age + 1, !.allowed = flow.allowed]
    BY <1>1, <1>10 DEF Age, Flows
  <2> DEFINE later == flow.age + 1
  <2>3. later \in Nat
    BY <1>1
  <2> HIDE DEF later
  <2>4. flow' = [flow EXCEPT !.pc = flow.pc, !.age = later, !.allowed = flow.allowed]
    BY <2>2 DEF later
  <2> QED
    BY <1>1, <1>2, <2>1, <2>3, <2>4, FlowStep
<1> QED
  BY <1>4, <1>5, <1>6, <1>7, <1>8, <1>9, <1>10

-----------------------------------------------------------------------------
(* The swap *)

\* The market after a fill it gave.
LEMMA SettledType ==
    ASSUME NEW m \in Markets, NEW kind \in AllKinds, NEW a \in Nat
    PROVE  /\ Settled(m, kind, Fill(m, kind, a)) \in Markets
           /\ Settled(m, kind, Fill(m, kind, a)).venue = m.venue
<1> DEFINE f == Fill(m, kind, a)
<1>1. m.inv \in Nat /\ m.coll \in Nat /\ m.outstanding \in Nat /\ m.pot \in Nat
  BY MarketFigures
<1>2. f \in Amounts /\ f.in \in Nat /\ f.out \in Nat
  BY FillType DEF Amounts
<1>3. CASE kind \in {"buyIn", "buyOut"}
  <2>1. f.out <= m.inv /\ f.out <= m.coll
    BY <1>3, IssueFill DEF Fill
  <2> HIDE DEF f
  <2>2. m.inv - f.out \in Nat /\ m.coll - f.out \in Nat /\ m.outstanding + f.out \in Nat
    BY <1>1, <1>2, <2>1
  <2>3. Settled(m, kind, f) = [m EXCEPT !.inv = m.inv - f.out, !.coll = m.coll - f.out,
                                        !.outstanding = m.outstanding + f.out]
    BY <1>3 DEF Settled, Markets
  <2>4. Settled(m, kind, f) \in Markets /\ Settled(m, kind, f).venue = m.venue
    BY <2>2, <2>3 DEF Markets
  <2> QED
    BY <2>4 DEF f
<1>4. CASE kind \in {"exit", "settle"}
  <2>1. f.in <= m.outstanding /\ f.out <= m.pot
    BY <1>4, SellFill DEF Fill
  <2> HIDE DEF f
  <2>2. m.outstanding - f.in \in Nat /\ m.pot - f.out \in Nat
    BY <1>1, <1>2, <2>1
  <2>3. Settled(m, kind, f) = [m EXCEPT !.outstanding = m.outstanding - f.in,
                                        !.pot = m.pot - f.out]
    BY <1>4 DEF Settled, Markets
  <2>4. Settled(m, kind, f) \in Markets /\ Settled(m, kind, f).venue = m.venue
    BY <2>2, <2>3 DEF Markets
  <2> QED
    BY <2>4 DEF f
<1> QED
  BY <1>3, <1>4 DEF AllKinds

\* A fill the limit accepts is within the slippage of the quote.
LEMMA LimitIsRate ==
    ASSUME NEW r \in Flows, r.kind \in AllKinds, Terms(r),
           NEW f \in Amounts, WithinLimit(r, f)
    PROVE  IF r.kind = "buyOut"
           THEN f.in * r.quote.out * SlipBase <= r.quote.in * (SlipBase + Slip) * f.out
           ELSE f.out * r.quote.in * SlipBase
                    >= (r.quote.out * (SlipBase - Slip) - (SlipBase - 1)) * f.in
<1>1. f.in \in Nat /\ f.out \in Nat /\ r.quote.in \in Nat /\ r.quote.out \in Nat
  BY DEF Amounts, Flows
<1>2. r.quote.in > 0 /\ r.quote.out > 0
  BY DEF Terms
<1>3. CASE r.kind = "buyOut"
  <2>1. r.taker = r.quote.out /\ r.limit = (r.quote.in * (SlipBase + Slip)) \div SlipBase
    BY <1>3 DEF Terms, ExactIn, Filled
  <2>2. f.in <= (r.limit * f.out) \div r.taker
    BY <1>3 DEF WithinLimit, ExactIn
  <2>3. f.in * r.quote.out * SlipBase <= r.quote.in * (SlipBase + Slip) * f.out
    BY <1>1, <1>2, <2>1, <2>2, MostRate
  <2> QED
    BY <1>3, <2>3
<1>4. CASE r.kind # "buyOut"
  <2>1. r.taker = r.quote.in /\ r.limit = MinOut(r.quote.out)
    BY <1>4 DEF Terms, ExactIn, Filled
  <2>2. f.out >= DivUp(r.limit * f.in, r.taker)
    BY <1>4 DEF WithinLimit, ExactIn
  <2>3. f.out * r.quote.in * SlipBase >= (r.quote.out * (SlipBase - Slip) - (SlipBase - 1)) * f.in
    BY <1>1, <1>2, <2>1, <2>2, LeastRate
  <2> QED
    BY <1>4, <2>3
<1> QED
  BY <1>3, <1>4

\* A fill the limit accepts takes no more than was approved.
LEMMA LimitIsCovered ==
    ASSUME NEW r \in Flows, r.kind \in AllKinds, Terms(r),
           NEW f \in Amounts, WithinLimit(r, f)
    PROVE  f.in <= r.needed
<1>1. f.in \in Nat /\ f.out \in Nat /\ r.taker \in Nat /\ r.limit \in Nat
  BY DEF Amounts, Flows
<1>2. CASE r.kind # "buyOut"
  <2>1. r.needed = r.taker /\ r.taker >= f.in
    BY <1>2 DEF Terms, ExactIn, WithinLimit
  <2> QED
    BY <1>1, <2>1
<1>3. CASE r.kind = "buyOut"
  <2>1. r.needed = r.limit /\ r.taker >= f.out /\ f.out > 0
        /\ f.in <= (r.limit * f.out) \div r.taker
    BY <1>3 DEF Terms, ExactIn, WithinLimit
  <2>2. r.taker > 0
    BY <1>1, <2>1
  <2> DEFINE p == r.limit * f.out
             d == p \div r.taker
  <2>3. p \in Nat /\ p <= r.limit * r.taker
    BY <1>1, <2>1, TimesMonotone
  <2>4. f.in <= d
    BY <2>1
  <2> HIDE DEF p
  <2>5. d \in Nat /\ d * r.taker <= p
    BY <1>1, <2>2, <2>3, DivBounds
  <2> HIDE DEF d
  <2>6. d <= r.limit
    <3>1. SUFFICES ASSUME r.limit + 1 <= d PROVE FALSE
      BY <1>1, <2>5
    <3>2. (r.limit + 1) * r.taker <= d * r.taker
      BY <1>1, <2>5, <3>1, TimesMonotone
    <3>3. (r.limit + 1) * r.taker = r.limit * r.taker + r.taker
      BY <1>1
    <3>4. r.limit * r.taker \in Nat /\ d * r.taker \in Nat
      BY <1>1, <2>5
    <3> QED
      BY <1>1, <2>2, <2>3, <2>5, <3>2, <3>3, <3>4
  <2> QED
    BY <1>1, <2>1, <2>4, <2>5, <2>6
<1> QED
  BY <1>2, <1>3

LEMMA MineStep ==
    ASSUME TakerInv, MineSwap
    PROVE  TakerInv'
<1> DEFINE k == flow.kind
           f == Fill(market, k, flow.taker)
           d == Report(flow, f)
<1>1. market \in Markets /\ flow \in Flows /\ ticket \in Tickets /\ flow.pc = "sent"
  BY DEF TakerInv, Types, MineSwap
<1>2. k \in AllKinds /\ Terms(flow) /\ Standing(flow, market)
  BY <1>1 DEF TakerInv, FlowSound, Priced
<1>3. flow.taker \in Nat /\ flow.allowed \in Nat /\ flow.asked \in 0..MaxAmount
      /\ flow.quote.in \in Nat /\ flow.quote.out \in Nat
  BY <1>1 DEF Flows, Amounts
<1>4. f \in Amounts /\ f.in \in Nat /\ f.out \in Nat /\ Filled(k, f) <= flow.taker
  BY <1>1, <1>2, <1>3, FillType DEF Amounts
<1>5. CASE ~Executable(flow, f)
  <2>1. Stop(flow) /\ UNCHANGED <<market, ticket, done>>
    BY <1>5 DEF MineSwap
  <2> QED
    BY <2>1, StopStep
<1>6. CASE Executable(flow, f)
  <2>1. flow' = NoFlow(flow.allowed - f.in) /\ market' = Settled(market, k, f)
        /\ done' = {d} /\ ticket' = [ticket EXCEPT !.text = 0]
    BY <1>6 DEF MineSwap
  <2>2. WithinLimit(flow, f) /\ f.in <= flow.allowed /\ f.out > 0
    BY <1>6 DEF Executable, WithinLimit
  <2>3. market' \in Markets /\ market'.venue = market.venue
    BY <1>1, <1>2, <1>3, <2>1, SettledType
  <2>4. ticket' \in Tickets
    <3>1. 0 \in 0..MaxAmount
      BY BoundsAssumption
    <3> QED
      BY <1>1, <2>1, <3>1 DEF Tickets
  <2>5. flow' \in Flows /\ FlowSound(flow', market')
    <3>1. flow.allowed - f.in \in Nat
      BY <1>3, <1>4, <2>2
    <3> QED
      BY <2>1, <3>1, NoFlowSound
  <2>6. d.kind = k /\ d.fill = f /\ d.quote = flow.quote
        /\ (d.partial <=> Filled(k, f) < flow.asked)
        /\ (d.clamped <=> flow.clamp \/ Clamped(market, k, flow.taker))
        /\ (d.still <=> flow.moves = market.moves) /\ d.taker = flow.taker
    BY DEF Report
  <2>7. NeverWorseThanQuoted'
    <3>1. IF k = "buyOut"
          THEN f.in * flow.quote.out * SlipBase <= flow.quote.in * (SlipBase + Slip) * f.out
          ELSE f.out * flow.quote.in * SlipBase
                   >= (flow.quote.out * (SlipBase - Slip) - (SlipBase - 1)) * f.in
      <4> HIDE DEF f
      <4> QED
        BY <1>1, <1>2, <1>4, <2>2, LimitIsRate
    <3> HIDE DEF d, f
    <3> QED
      BY <2>1, <2>6, <3>1 DEF NeverWorseThanQuoted
  <2>8. d.partial => d.clamped
    <3>1. SUFFICES ASSUME ~flow.clamp, ~Clamped(market, k, flow.taker)
                   PROVE  Filled(k, f) = flow.asked
      <4>1. Filled(k, f) \in Nat
        BY <1>4 DEF Filled
      <4> HIDE DEF d, f, k
      <4> QED
        BY <1>3, <2>6, <4>1
    <3>2. flow.taker = flow.asked
      BY <1>2, <3>1 DEF Terms
    <3> QED
      BY <1>1, <1>2, <1>3, <2>2, <3>1, <3>2, UnclampedFill
  <2>9. d.still /\ market.venue = "group" => Filled(k, f) = flow.taker
    <3>1. SUFFICES ASSUME flow.moves = market.moves, market.venue = "group"
                   PROVE  Filled(k, f) = flow.taker
      BY <2>6
    <3>2. flow.quote = Fill(market, k, flow.asked) /\ flow.quote.out > 0
      BY <1>2, <3>1 DEF Standing, Terms
    <3>3. flow.taker = Filled(k, Fill(market, k, flow.asked))
      BY <1>2, <3>2 DEF Terms
    <3>4. flow.asked \in Nat
      BY <1>3, BoundsAssumption
    <3> QED
      BY <1>1, <1>2, <2>2, <3>2, <3>3, <3>4, FillsAgain
  <2>10. PartialMeansClamp'
    <3> HIDE DEF d
    <3> QED
      BY <2>1, <2>8 DEF PartialMeansClamp
  <2>11. QuoteCanFill'
    <3> HIDE DEF d, f
    <3> QED
      BY <2>1, <2>3, <2>6, <2>9 DEF QuoteCanFill
  <2> QED
    BY <2>3, <2>4, <2>5, <2>7, <2>10, <2>11 DEF TakerInv, Types, Reported
<1> QED
  BY <1>5, <1>6

LEMMA Repriced ==
    ASSUME NEW m \in Markets, NEW p \in Prices
    PROVE  LET n == [m EXCEPT !.price = p, !.moves = @ + 1]
           IN  n \in Markets /\ n.moves = m.moves + 1 /\ n.venue = m.venue
<1> DEFINE c == m.moves + 1
<1>1. c \in Nat
  BY DEF Markets
<1> HIDE DEF c
<1>2. LET n == [m EXCEPT !.price = p, !.moves = c]
      IN  n \in Markets /\ n.moves = c /\ n.venue = m.venue
  BY <1>1 DEF Markets
<1> QED
  BY <1>2 DEF c

LEMMA Depleted ==
    ASSUME NEW m \in Markets, NEW x \in {"inv", "coll", "outstanding", "pot"},
           m[x] > 0
    PROVE  LET n == [m EXCEPT ![x] = @ - 1, !.moves = @ + 1]
           IN  n \in Markets /\ n.moves = m.moves + 1 /\ n.venue = m.venue
<1> DEFINE c == m.moves + 1
           y == m[x] - 1
<1>1. c \in Nat
  BY DEF Markets
<1>2. y \in Nat
  BY DEF Markets
<1> HIDE DEF c, y
<1>3. LET n == [m EXCEPT ![x] = y, !.moves = c]
      IN  n \in Markets /\ n.moves = c /\ n.venue = m.venue
  BY <1>1, <1>2 DEF Markets
<1>4. [m EXCEPT ![x] = @ - 1, !.moves = @ + 1] = [m EXCEPT ![x] = y, !.moves = c]
  BY DEF c, y, Markets
<1> QED
  BY <1>3, <1>4 DEF c

\* Whatever others do to the market shows in its moves.
LEMMA MoveStep ==
    ASSUME TakerInv, Reprice \/ Deplete
    PROVE  TakerInv'
<1>1. market \in Markets /\ market.moves \in Nat /\ ticket' = ticket /\ flow' = flow
      /\ done' = done
  BY DEF TakerInv, Types, Markets, Reprice, Deplete
<1>2. market' \in Markets /\ market'.moves = market.moves + 1
      /\ market'.venue = market.venue
  <2>1. CASE Reprice
    BY <1>1, <2>1, Repriced DEF Reprice
  <2>2. CASE Deplete
    <3>1. PICK x \in {"inv", "coll", "outstanding", "pot"} :
             market[x] > 0 /\ market' = [market EXCEPT ![x] = @ - 1, !.moves = @ + 1]
      BY <2>2 DEF Deplete
    <3> QED
      BY ONLY <1>1, <3>1, Depleted
  <2> QED
    BY <2>1, <2>2
<1>3. FlowSound(flow', market')
  <2>1. FlowSound(flow, market) /\ flow.moves \in Nat
    BY DEF TakerInv, Types, Flows
  <2>2. flow.pc \in Priced => Standing(flow, market')
    BY <1>1, <1>2, <2>1 DEF FlowSound, Standing
  <2> QED
    BY <1>1, <2>1, <2>2 DEF FlowSound
<1>4. Reported'
  BY <1>1, <1>2, ReportedStays DEF TakerInv
<1> QED
  BY <1>1, <1>2, <1>3, <1>4 DEF TakerInv, Types

LEMMA TakerInvariant == TakerSpec => []TakerInv
<1>1. TakerInit => TakerInv
  BY InitSound
<1>2. TakerInv /\ [TakerNext]_takerVars => TakerInv'
  <2> SUFFICES ASSUME TakerInv, [TakerNext]_takerVars
               PROVE  TakerInv'
    OBVIOUS
  <2>1. CASE (\E a \in 0..MaxAmount : Type(a)) \/ Toggle \/ Debounce
    BY <2>1, TicketStep
  <2>2. CASE \/ SubmitBuy \/ SubmitExit \/ SubmitRedeem
             \/ SubmitBuyGroup \/ SubmitExitGroup \/ SubmitRedeemGroup
    BY <2>2, SubmitStep DEF SubmitBuy, SubmitExit, SubmitRedeem,
       SubmitBuyGroup, SubmitExitGroup, SubmitRedeemGroup
  <2>3. CASE \/ RunBuy \/ RunExit \/ RunRedeem
             \/ RunBuyGroup \/ RunExitGroup \/ RunRedeemGroup
    BY <2>3, RunStep
  <2>4. CASE \/ Allow \/ Approve \/ BuildOrder \/ SimulateSwap \/ SignSwap
             \/ Reject \/ Age
    BY <2>4, AwaitStep
  <2>5. CASE MineSwap
    BY <2>5, MineStep
  <2>6. CASE Reprice \/ Deplete
    BY <2>6, MoveStep
  <2>7. CASE UNCHANGED takerVars
    <3>1. market' = market /\ ticket' = ticket /\ flow' = flow /\ done' = done
      BY <2>7 DEF takerVars
    <3>2. Reported'
      BY <3>1, ReportedStays DEF TakerInv
    <3> QED
      BY <3>1, <3>2 DEF TakerInv, Types
  <2> QED
    BY <2>1, <2>2, <2>3, <2>4, <2>5, <2>6, <2>7 DEF TakerNext
<1> QED
  BY <1>1, <1>2, PTL DEF TakerSpec

-----------------------------------------------------------------------------
(* Theorems *)

\* However partial and however late a fill is, and whatever moved between the
\* quote and the swap, its rate is within the slippage of that quote: the
\* limit runBuy, runExit and runRedeem derive is kept pro rata by the router.
THEOREM RateTheorem == TakerSpec => []NeverWorseThanQuoted
<1>1. TakerInv => NeverWorseThanQuoted
  BY DEF TakerInv, Reported
<1> QED
  BY <1>1, TakerInvariant, PTL

\* What ensureAllowance approved, or found approved, covers every fill the
\* limit accepts, at the simulation and when the swap is mined.
THEOREM AllowanceTheorem == TakerSpec => []AllowanceSuffices
<1>1. TakerInv => AllowanceSuffices
  <2> SUFFICES ASSUME TakerInv, flow.pc \in {"simulate", "sent"},
                      WithinLimit(flow, Fill(market, flow.kind, flow.taker))
               PROVE  Fill(market, flow.kind, flow.taker).in <= flow.allowed
    BY DEF AllowanceSuffices
  <2> DEFINE f == Fill(market, flow.kind, flow.taker)
  <2>1. market \in Markets /\ flow \in Flows /\ flow.kind \in AllKinds /\ Terms(flow)
        /\ flow.allowed >= flow.needed
    BY DEF TakerInv, Types, FlowSound, Priced, Covered
  <2>2. flow.taker \in Nat /\ flow.allowed \in Nat /\ flow.needed \in Nat
    BY <2>1 DEF Flows
  <2>3. f \in Amounts /\ f.in \in Nat
    BY <2>1, <2>2, FillType DEF Amounts
  <2>4. WithinLimit(flow, f)
    OBVIOUS
  <2> HIDE DEF f
  <2>5. f.in <= flow.needed
    BY <2>1, <2>3, <2>4, LimitIsCovered
  <2>6. f.in <= flow.allowed
    BY <2>1, <2>2, <2>3, <2>5
  <2> QED
    BY <2>6 DEF f
<1> QED
  BY <1>1, TakerInvariant, PTL

\* A swap is reported as partial only if stock, backing, outstanding units or
\* the payer's means cut it short, at the quote or at the swap.
THEOREM PartialTheorem == TakerSpec => []PartialMeansClamp
<1>1. TakerInv => PartialMeansClamp
  BY DEF TakerInv, Reported
<1> QED
  BY <1>1, TakerInvariant, PTL

\* While nobody else moves the paired market, a swap fills to the last unit
\* what quoteGroup said it would.
THEOREM QuoteTheorem == TakerSpec => []QuoteCanFill
<1>1. TakerInv => QuoteCanFill
  BY DEF TakerInv, Reported
<1> QED
  BY <1>1, TakerInvariant, PTL

-----------------------------------------------------------------------------
(***************************************************************************)
(* The writer's flows                                                      *)
(***************************************************************************)

-----------------------------------------------------------------------------
(* Types *)

Jobs == {"vault", "approve", "fund", "create"}

WriterFlows == {"series", "group", "allocate", "deposit", "withdraw"}

StepPhases ==
    {"todo", "preparing", "confirm", "pending", "confirmed", "skipped", "failed", "rejected"}

\* The steps a tab renders, none before its first flow.
StepLists == (UNION {[K -> StepPhases] : K \in SUBSET Jobs}) \union {<< >>}

Rows ==
    [page    : {"none", "write", "vault", "pairs"},
     pc      : {"idle", "readVault", "readFree", "allow", "simulate", "confirm", "hash",
                "await", "checkpoint", "recover"},
     flow    : WriterFlows \union {"none"},
     key     : 0..LastHour,
     topUp   : Nat \union {-1},
     deposit : Nat,
     job     : Jobs \union {"none"},
     tx      : Nat,
     seen    : Nat,
     steps   : StepLists,
     result  : Nat]

Txs ==
    [flow : WriterFlows, job : Jobs, key : 0..LastHour, amount : Nat,
     status : {"sent", "mined", "reverted", "dropped"}]

Chains ==
    [vault : BOOLEAN, free : Nat, allowed : Nat, made : Nat, shown : Nat,
     lost : BOOLEAN, opened : Nat]

\* What the clock, the tabs and the transactions hold.
WriterTypes ==
    /\ hour \in 0..LastHour
    /\ chain \in Chains
    /\ pool \in Seq(Txs)
    /\ storage \in [0..LastHour -> Nat]
    /\ tab \in [Tabs -> Rows]

\* A saved hash is that of a broadcast creation, under the terms it is saved for.
SavedIn(saved, h, p) ==
    saved \in DOMAIN p /\ Creates(p[saved].flow, p[saved].job) /\ p[saved].key = h

\* What a tab waits for is what it sent.
SentIn(r, p) ==
    /\ r.tx \in DOMAIN p
    /\ p[r.tx].flow = r.flow /\ p[r.tx].job = r.job /\ p[r.tx].key = r.key
    /\ p[r.tx].amount = Amount(r, r.job)

\* What a tab shows was mined.
RealIn(r, p) ==
    /\ r.result \in DOMAIN p /\ p[r.result].status = "mined"
    /\ r.flow = "series" => p[r.result].key = r.key

\* Where a flow can be.
Place(r) ==
    /\ r.pc # "idle" => r.flow \in FlowsOf(r.page)
    /\ r.pc = "readVault" => r.flow \in {"series", "group"}
    /\ r.pc = "readFree" => r.flow \in {"series", "group", "allocate"}
    /\ r.pc \in {"checkpoint", "recover"} => r.flow = "series"
    /\ r.pc \in {"simulate", "confirm", "hash", "await"} => r.job # "none"
    /\ r.pc \in {"simulate", "confirm", "hash", "await"} /\ r.job = "vault" =>
          r.flow \in {"series", "group"}
    /\ r.flow \in {"group", "allocate"} => r.topUp = -1

RowSound(r, p) ==
    /\ Place(r)
    /\ r.pc = "recover" => SavedIn(r.tx, r.key, p)
    /\ r.pc \in {"hash", "await"} => SentIn(r, p)
    /\ r.result # 0 => RealIn(r, p)

WriterSound ==
    /\ WriterTypes
    /\ \A t \in Tabs : RowSound(tab[t], pool) /\ tab[t].key <= hour
    /\ \A h \in 0..LastHour : storage[h] # 0 => SavedIn(storage[h], h, pool)

-----------------------------------------------------------------------------
(* What the helpers of a flow change *)

\* A row that moved on: where it is and what it does, nothing else.
Kept(q, r) ==
    /\ q.page = r.page /\ q.flow = r.flow /\ q.key = r.key /\ q.topUp = r.topUp
    /\ q.deposit = r.deposit /\ q.tx = r.tx /\ q.seen = r.seen

Moved(q, r, pc, job) ==
    /\ q \in Rows /\ Kept(q, r)
    /\ q.pc = pc /\ q.job = job /\ q.result = r.result

\* Reporting a phase and marking an error keep the shape of the step list.
LEMMA StepsStay ==
    ASSUME NEW steps \in StepLists, NEW key, NEW phase \in StepPhases
    PROVE  ReportPhase(steps, key, phase) \in StepLists /\ Mark(steps, phase) \in StepLists
<1>1. DOMAIN steps \in SUBSET Jobs /\ \A k \in DOMAIN steps : steps[k] \in StepPhases
  <2>1. CASE steps = << >>
    BY <2>1
  <2>2. ASSUME NEW K \in SUBSET Jobs, steps \in [K -> StepPhases]
        PROVE  DOMAIN steps \in SUBSET Jobs /\ \A k \in DOMAIN steps : steps[k] \in StepPhases
    BY <2>2
  <2> QED
    BY <2>1, <2>2 DEF StepLists
<1>2. ASSUME NEW e \in [DOMAIN steps -> StepPhases] PROVE e \in StepLists
  BY <1>1, <1>2 DEF StepLists
<1>3. ReportPhase(steps, key, phase) \in [DOMAIN steps -> StepPhases]
  BY <1>1 DEF ReportPhase
<1>4. Mark(steps, phase) \in [DOMAIN steps -> StepPhases]
  BY <1>1 DEF Mark
<1> QED
  BY <1>2, <1>3, <1>4

LEMMA SendIs ==
    ASSUME NEW r \in Rows, NEW job \in Jobs
    PROVE  Moved(Send(r, job), r, "simulate", job)
<1>1. ReportPhase(r.steps, StepKey(r.flow, job), "preparing") \in StepLists
  BY StepsStay DEF Rows, StepPhases
<1> QED
  BY <1>1 DEF Send, Moved, Kept, Rows

LEMMA FailIs ==
    ASSUME NEW r \in Rows, NEW phase \in StepPhases
    PROVE  Moved(Fail(r, phase), r, "idle", "none")
<1>1. Mark(r.steps, phase) \in StepLists
  BY StepsStay DEF Rows
<1> QED
  BY <1>1 DEF Fail, Moved, Kept, Rows

LEMMA FinishIs ==
    ASSUME NEW r \in Rows, NEW tx \in Nat
    PROVE  /\ Finish(r, tx) \in Rows /\ Kept(Finish(r, tx), r)
           /\ Finish(r, tx).pc = "idle" /\ Finish(r, tx).job = "none"
           /\ Finish(r, tx).result = tx
BY DEF Finish, Kept, Rows

LEMMA AskIs ==
    ASSUME NEW r \in Rows
    PROVE  /\ Moved(AskVault(r), r, "readVault", r.job)
           /\ Moved(AskFree(r), r, "readFree", r.job)
           /\ Moved(AskAllowance(r), r, "allow", r.job)
           /\ Moved(AskCheckpoint(r), r, "checkpoint", r.job)
<1>1. /\ ReportPhase(r.steps, "vault", "preparing") \in StepLists
      /\ ReportPhase(r.steps, "approve", "preparing") \in StepLists
  BY StepsStay DEF Rows, StepPhases
<1>2. Moved(AskVault(r), r, "readVault", r.job)
  BY <1>1 DEF AskVault, Moved, Kept, Rows
<1>3. Moved(AskFree(r), r, "readFree", r.job)
  BY DEF AskFree, Moved, Kept, Rows
<1>4. Moved(AskAllowance(r), r, "allow", r.job)
  BY <1>1 DEF AskAllowance, Moved, Kept, Rows
<1>5. Moved(AskCheckpoint(r), r, "checkpoint", r.job)
  BY DEF AskCheckpoint, Moved, Kept, Rows
<1> QED
  BY <1>2, <1>3, <1>4, <1>5

\* Rendering a step moves nothing.
LEMMA RenderIs ==
    ASSUME NEW r \in Rows, NEW key, NEW phase \in StepPhases
    PROVE  Moved([r EXCEPT !.steps = ReportPhase(r.steps, key, phase)], r, r.pc, r.job)
<1>1. ReportPhase(r.steps, key, phase) \in StepLists
  BY StepsStay DEF Rows
<1> QED
  BY <1>1 DEF Moved, Kept, Rows

LEMMA StartIs ==
    ASSUME WriterTypes, NEW t \in Tabs, NEW w \in WriterFlows
    PROVE  LET q == Begin(t, w) IN
           /\ q \in Rows /\ q.page = tab[t].page /\ q.pc = "idle" /\ q.flow = w
           /\ q.key = hour /\ q.topUp = -1 /\ q.job = "none" /\ q.result = 0
<1>1. tab[t] \in Rows /\ hour \in 0..LastHour /\ tab[t].page \in {"none", "write", "vault", "pairs"}
      /\ tab[t].seen \in Nat
  BY DEF WriterTypes, Rows
<1> DEFINE steps == [k \in Plan(w) |-> "todo"]
<1>2. steps \in StepLists
  <2>1. Plan(w) \subseteq Jobs
    BY DEF Plan, WriterFlows, Jobs
  <2>2. steps \in [Plan(w) -> StepPhases]
    BY DEF StepPhases
  <2> QED
    BY <2>1, <2>2 DEF StepLists
<1>3. << >> \in StepLists
  BY DEF StepLists
<1>4. 0 \in 0..LastHour
  BY WriterBounds DEF WriterTypes
<1> DEFINE n == NoTab(tab[t].page, tab[t].seen)
<1>5. n \in Rows /\ n.page = tab[t].page /\ n.pc = "idle" /\ n.topUp = -1 /\ n.job = "none"
      /\ n.result = 0
  BY <1>1, <1>3, <1>4 DEF NoTab, Rows
<1> DEFINE named == [n EXCEPT !.flow = w]
           keyed == [named EXCEPT !.key = hour]
           q     == Begin(t, w)
<1>6. q = [n EXCEPT !.flow = w, !.key = hour, !.steps = steps] /\ q = [keyed EXCEPT !.steps = steps]
  BY DEF Begin
<1> HIDE DEF n, steps, q
<1>7. q \in Rows
  <2>1. named \in Rows
    BY <1>5 DEF Rows
  <2> HIDE DEF named
  <2>2. keyed \in Rows
    BY <1>1, <2>1 DEF Rows
  <2> HIDE DEF keyed
  <2> QED
    BY <1>2, <1>6, <2>2 DEF Rows
<1> HIDE DEF named, keyed
<1>8. q.page = n.page /\ q.pc = n.pc
  BY <1>5, <1>6 DEF Rows
<1>9. q.topUp = n.topUp /\ q.job = n.job /\ q.result = n.result
  BY <1>5, <1>6 DEF Rows
<1>10. q.flow = w /\ q.key = hour
  BY <1>5, <1>6 DEF Rows
<1> QED
  BY <1>5, <1>7, <1>8, <1>9, <1>10 DEF q

-----------------------------------------------------------------------------
(* The invariant *)

\* The creation a tab has under way or left saved, for the terms of hour 0.
Current(r, saved) ==
    IF r.pc = "hash" /\ Creates(r.flow, r.job) THEN r.tx ELSE saved[0]

\* A creation is only sent where none is saved, and is saved once sent.
SavesOnce(r, saved) ==
    /\ r.pc \in {"simulate", "confirm", "hash"} /\ Creates(r.flow, r.job) => saved[0] = 0
    /\ r.pc = "await" /\ Creates(r.flow, r.job) => saved[0] = r.tx
    /\ r.pc = "recover" => saved[0] = r.tx

\* No other creation can be mined any more; the flows reported all that were,
\* but the current one.
CreatedOnce(current, c, p) ==
    /\ \A i \in DOMAIN p :
          Creates(p[i].flow, p[i].job) /\ p[i].status = "sent" => i = current
    /\ c.made = c.shown + (IF current \in DOMAIN p /\ p[current].status = "mined" THEN 1 ELSE 0)

OnceKept(r, h, saved, c, p) ==
    h = 0 /\ "hash" \notin ReloadAt =>
        /\ SavesOnce(r, saved)
        /\ CreatedOnce(Current(r, saved), c, p)

AwaitsFund(r) == r.pc \in {"hash", "await"} /\ r.job = "fund"

\* A deposit of this flow may still be mined.
Funding(r, p) ==
    \/ r.pc = "allow"
    \/ r.pc \in {"simulate", "confirm"} /\ r.job \in {"approve", "fund"}
    \/ r.pc \in {"hash", "await"} /\ r.job = "approve"
    \/ AwaitsFund(r) /\ p[r.tx].status = "sent"

Ceiling(c) == Max({c.opened, Need})

\* Only the deposit the tab waits for can be mined, and it fits.
FundKept(r, c, p) ==
    r.page = "pairs" /\ ~c.lost =>
        /\ \A i \in DOMAIN p :
              p[i].job = "fund" /\ p[i].status = "sent" => AwaitsFund(r) /\ i = r.tx
        /\ c.free <= Ceiling(c)
        /\ Funding(r, p) => c.free + r.deposit <= Ceiling(c)

WriterInv ==
    /\ WriterSound
    /\ \A w \in Tabs : Open = {w} =>
          OnceKept(tab[w], hour, storage, chain, pool) /\ FundKept(tab[w], chain, pool)

-----------------------------------------------------------------------------
(* How a step of one tab keeps it *)

\* Transactions stay in the pool, and stay mined.
Grows(p, q) ==
    \A i \in DOMAIN p :
        /\ i \in DOMAIN q
        /\ q[i].flow = p[i].flow /\ q[i].job = p[i].job /\ q[i].key = p[i].key
        /\ q[i].amount = p[i].amount
        /\ p[i].status = "mined" => q[i].status = "mined"

LEMMA RowSoundLater ==
    ASSUME NEW p, NEW q, Grows(p, q), NEW r, RowSound(r, p)
    PROVE  RowSound(r, q)
BY DEF RowSound, Grows, SavedIn, SentIn, RealIn

\* The tab takes q for its row.
Takes(t, q) == q \in Rows /\ q.page = tab[t].page /\ tab' = [tab EXCEPT ![t] = q]

LEMMA TakesIs ==
    ASSUME WriterTypes, NEW t \in Tabs, NEW q, Takes(t, q)
    PROVE  /\ tab' \in [Tabs -> Rows] /\ tab'[t] = q
           /\ \A u \in Tabs \ {t} : tab'[u] = tab[u]
           /\ Open' = Open
<1>1. /\ tab' \in [Tabs -> Rows] /\ tab'[t] = q
      /\ \A u \in Tabs \ {t} : tab'[u] = tab[u]
  BY DEF WriterTypes, Takes
<1>2. \A u \in Tabs : tab'[u].page = tab[u].page
  BY <1>1 DEF Takes
<1> QED
  BY <1>1, <1>2 DEF Open

LEMMA SoundStep ==
    ASSUME WriterSound, NEW t \in Tabs, NEW q, Takes(t, q),
           RowSound(q, pool'), q.key <= hour, UNCHANGED hour,
           chain' \in Chains, pool' \in Seq(Txs), Grows(pool, pool'),
           storage' \in [0..LastHour -> Nat],
           \A h \in 0..LastHour : storage'[h] # 0 => SavedIn(storage'[h], h, pool')
    PROVE  WriterSound'
<1>1. /\ tab' \in [Tabs -> Rows] /\ tab'[t] = q
      /\ \A u \in Tabs \ {t} : tab'[u] = tab[u]
  BY TakesIs DEF WriterSound
<1>2. WriterTypes'
  BY <1>1 DEF WriterSound, WriterTypes
<1>3. ASSUME NEW u \in Tabs PROVE RowSound(tab'[u], pool') /\ tab'[u].key <= hour'
  <2>1. CASE u = t
    BY <1>1, <2>1
  <2>2. CASE u # t
    <3>1. tab'[u] = tab[u] /\ RowSound(tab[u], pool) /\ tab[u].key <= hour
      BY <1>1, <2>2 DEF WriterSound
    <3> QED
      BY <3>1, RowSoundLater
  <2> QED
    BY <2>1, <2>2
<1> QED
  BY <1>2, <1>3 DEF WriterSound

\* The two parts of the invariant, where tab t is the open one and q its row.
KeepsOne(t, q) ==
    Open = {t} =>
        OnceKept(q, hour', storage', chain', pool') /\ FundKept(q, chain', pool')

\* The other tabs' part of a step: the chain is as it was but for what was lost.
LEMMA InvStep ==
    ASSUME WriterInv, NEW t \in Tabs, NEW q, Takes(t, q), WriterSound', KeepsOne(t, q),
           \A w \in Tabs \ {t} : Open = {w} =>
              OnceKept(tab[w], hour', storage', chain', pool') /\ FundKept(tab[w], chain', pool')
    PROVE  WriterInv'
<1>1. /\ tab'[t] = q /\ \A u \in Tabs \ {t} : tab'[u] = tab[u]
      /\ Open' = Open
  BY TakesIs DEF WriterInv, WriterSound
<1>2. ASSUME NEW w \in Tabs, Open = {w}
      PROVE  OnceKept(tab'[w], hour', storage', chain', pool') /\ FundKept(tab'[w], chain', pool')
  <2>1. CASE w = t
    BY <1>1, <1>2, <2>1 DEF KeepsOne
  <2>2. CASE w # t
    BY <1>1, <1>2, <2>2
  <2> QED
    BY <2>1, <2>2
<1> QED
  BY <1>1, <1>2 DEF WriterInv

\* A step that changes nothing but a row, and whether a deposit was lost.
Quiet ==
    /\ UNCHANGED <<hour, pool, storage>>
    /\ chain' \in Chains
    /\ chain'.made = chain.made /\ chain'.shown = chain.shown
    /\ chain'.free = chain.free /\ chain'.opened = chain.opened
    /\ chain.lost => chain'.lost

\* What the row of the open tab has to keep for that.
KeepsOnce(r, q) ==
    /\ SavesOnce(q, storage)
    /\ Current(q, storage) = Current(r, storage)

KeepsFund(r, q) ==
    /\ AwaitsFund(r) /\ pool[r.tx].status = "sent" => AwaitsFund(q) /\ q.tx = r.tx
    /\ Funding(q, pool) => chain.free + q.deposit <= Ceiling(chain)

LEMMA GrowsNot ==
    Grows(pool, pool)
BY DEF Grows

LEMMA QuietStep ==
    ASSUME WriterInv, NEW t \in Tabs, NEW q, Takes(t, q), RowSound(q, pool), q.key <= hour,
           Quiet,
           ASSUME Open = {t}, hour = 0, "hash" \notin ReloadAt,
                  SavesOnce(tab[t], storage)
           PROVE  KeepsOnce(tab[t], q),
           ASSUME Open = {t}, q.page = "pairs", ~chain'.lost, FundKept(tab[t], chain, pool)
           PROVE  KeepsFund(tab[t], q)
    PROVE  WriterInv'
<1>1. WriterSound'
  BY SoundStep, GrowsNot DEF WriterInv, WriterSound, WriterTypes, Quiet
<1>2. ASSUME NEW r, OnceKept(r, hour, storage, chain, pool), NEW x,
             hour = 0 /\ "hash" \notin ReloadAt => KeepsOnce(r, x)
      PROVE  OnceKept(x, hour', storage', chain', pool')
  BY <1>2 DEF OnceKept, KeepsOnce, CreatedOnce, Quiet
<1>3. ASSUME NEW r, FundKept(r, chain, pool), NEW x, x.page = r.page,
             x.page = "pairs" /\ ~chain'.lost => KeepsFund(r, x)
      PROVE  FundKept(x, chain', pool')
  BY <1>3 DEF FundKept, KeepsFund, Ceiling, Quiet
<1>4. KeepsOne(t, q)
  <2> SUFFICES ASSUME Open = {t}
               PROVE  OnceKept(q, hour', storage', chain', pool') /\ FundKept(q, chain', pool')
    BY DEF KeepsOne
  <2>1. OnceKept(tab[t], hour, storage, chain, pool) /\ FundKept(tab[t], chain, pool)
    BY DEF WriterInv
  <2>2. hour = 0 /\ "hash" \notin ReloadAt => KeepsOnce(tab[t], q)
    BY <2>1 DEF OnceKept
  <2>3. q.page = "pairs" /\ ~chain'.lost => KeepsFund(tab[t], q)
    BY <2>1
  <2>4. q.page = tab[t].page
    BY DEF Takes
  <2> QED
    BY <1>2, <1>3, <2>1, <2>2, <2>3, <2>4
<1>5. ASSUME NEW w \in Tabs \ {t}, Open = {w}
      PROVE  OnceKept(tab[w], hour', storage', chain', pool') /\ FundKept(tab[w], chain', pool')
  <2>1. OnceKept(tab[w], hour, storage, chain, pool) /\ FundKept(tab[w], chain, pool)
    BY <1>5 DEF WriterInv
  <2>2. hour = 0 /\ "hash" \notin ReloadAt => KeepsOnce(tab[w], tab[w])
    BY <2>1 DEF OnceKept, KeepsOnce
  <2>3. tab[w].page = "pairs" /\ ~chain'.lost => KeepsFund(tab[w], tab[w])
    BY <2>1 DEF FundKept, KeepsFund, Quiet
  <2> QED
    BY <1>2, <1>3, <2>1, <2>2, <2>3
<1> QED
  BY <1>1, <1>4, <1>5, InvStep

-----------------------------------------------------------------------------
(* Starting a flow *)

LEMMA RowOf ==
    ASSUME WriterInv, NEW t \in Tabs
    PROVE  /\ tab[t] \in Rows /\ RowSound(tab[t], pool) /\ Place(tab[t]) /\ tab[t].key <= hour
           /\ WriterTypes /\ Need \in Nat \ {0} /\ hour \in 0..LastHour /\ chain \in Chains
BY WriterBounds DEF WriterInv, WriterSound, WriterTypes, RowSound

LEMMA StartStep ==
    ASSUME WriterInv, NEW t \in Tabs, NEW q, Takes(t, q), tab[t].pc = "idle",
           q.result = 0, q.key = hour, Place(q),
           \/ q.pc \in {"readVault", "readFree"}
           \/ q.pc = "allow" /\ q.flow = "deposit"
           \/ q.pc = "simulate" /\ q.flow = "withdraw",
           UNCHANGED <<hour, chain, pool, storage>>
    PROVE  WriterInv'
<1>1. chain \in Chains /\ hour \in Nat /\ q.key <= hour
  BY WriterBounds, RowOf DEF WriterTypes
<1>2. Quiet
  BY <1>1 DEF Quiet
<1>3. RowSound(q, pool)
  BY DEF RowSound
<1>4. KeepsOnce(tab[t], q)
  BY DEF KeepsOnce, SavesOnce, Current, Creates
<1>5. q.page = "pairs" => KeepsFund(tab[t], q)
  <2>1. q.page = "pairs" => q.flow \in {"group", "allocate"}
    BY DEF Place, FlowsOf
  <2> QED
    BY <2>1 DEF KeepsFund, AwaitsFund, Funding
<1> QED
  BY <1>1, <1>2, <1>3, <1>4, <1>5, QuietStep

LEMMA SubmitSeriesStep ==
    ASSUME WriterInv, NEW t \in Tabs, SubmitSeries(t)
    PROVE  WriterInv'
<1> DEFINE s == Begin(t, "series")
           r == [s EXCEPT !.topUp = TopUp(tab[t].seen)]
           q == AskVault(r)
<1>1. /\ s \in Rows /\ s.page = tab[t].page /\ s.pc = "idle" /\ s.flow = "series"
      /\ s.key = hour /\ s.result = 0
  BY RowOf, StartIs DEF WriterFlows
<1>2. /\ "series" \in FlowsOf(tab[t].page) /\ tab[t].pc = "idle"
      /\ tab' = [tab EXCEPT ![t] = q] /\ UNCHANGED <<hour, chain, pool, storage>>
  BY DEF SubmitSeries, CanStart
<1> HIDE DEF s
<1>3. r \in Rows /\ r.page = s.page /\ r.flow = s.flow /\ r.key = s.key /\ r.result = s.result
  <2>1. TopUp(tab[t].seen) \in Nat
    BY RowOf DEF Rows, TopUp
  <2> QED
    BY <1>1, <2>1 DEF Rows
<1> HIDE DEF r
<1>4. Moved(q, r, "readVault", r.job)
  BY <1>3, AskIs
<1> HIDE DEF q
<1>5. /\ q \in Rows /\ q.page = tab[t].page /\ q.pc = "readVault" /\ q.flow = "series"
      /\ q.key = hour /\ q.result = 0
  BY <1>1, <1>3, <1>4 DEF Moved, Kept
<1>6. Takes(t, q) /\ Place(q)
  BY <1>2, <1>5 DEF Takes, Place
<1> QED
  BY <1>2, <1>5, <1>6, StartStep

LEMMA SubmitGroupStep ==
    ASSUME WriterInv, NEW t \in Tabs, SubmitGroup(t)
    PROVE  WriterInv'
<1> DEFINE r == Begin(t, "group")
           q == AskVault(r)
<1>1. /\ r \in Rows /\ r.page = tab[t].page /\ r.flow = "group"
      /\ r.key = hour /\ r.result = 0 /\ r.topUp = -1
  BY RowOf, StartIs DEF WriterFlows
<1>2. /\ "group" \in FlowsOf(tab[t].page) /\ tab[t].pc = "idle"
      /\ tab' = [tab EXCEPT ![t] = q] /\ UNCHANGED <<hour, chain, pool, storage>>
  BY DEF SubmitGroup, CanStart
<1> HIDE DEF r
<1>3. Moved(q, r, "readVault", r.job)
  BY <1>1, AskIs
<1> HIDE DEF q
<1>4. /\ q \in Rows /\ q.page = tab[t].page /\ q.pc = "readVault" /\ q.flow = "group"
      /\ q.key = hour /\ q.result = 0 /\ q.topUp = -1
  BY <1>1, <1>3 DEF Moved, Kept
<1>5. Takes(t, q) /\ Place(q)
  BY <1>2, <1>4 DEF Takes, Place
<1> QED
  BY <1>2, <1>4, <1>5, StartStep

LEMMA SubmitAllocateStep ==
    ASSUME WriterInv, NEW t \in Tabs, SubmitAllocate(t)
    PROVE  WriterInv'
<1> DEFINE r == Begin(t, "allocate")
           q == AskFree(r)
<1>1. /\ r \in Rows /\ r.page = tab[t].page /\ r.flow = "allocate"
      /\ r.key = hour /\ r.result = 0 /\ r.topUp = -1
  BY RowOf, StartIs DEF WriterFlows
<1>2. /\ "allocate" \in FlowsOf(tab[t].page) /\ tab[t].pc = "idle"
      /\ tab' = [tab EXCEPT ![t] = q] /\ UNCHANGED <<hour, chain, pool, storage>>
  BY DEF SubmitAllocate, CanStart
<1> HIDE DEF r
<1>3. Moved(q, r, "readFree", r.job)
  BY <1>1, AskIs
<1> HIDE DEF q
<1>4. /\ q \in Rows /\ q.page = tab[t].page /\ q.pc = "readFree" /\ q.flow = "allocate"
      /\ q.key = hour /\ q.result = 0 /\ q.topUp = -1
  BY <1>1, <1>3 DEF Moved, Kept
<1>5. Takes(t, q) /\ Place(q)
  BY <1>2, <1>4 DEF Takes, Place
<1> QED
  BY <1>2, <1>4, <1>5, StartStep

LEMMA SubmitDepositStep ==
    ASSUME WriterInv, NEW t \in Tabs, SubmitDeposit(t)
    PROVE  WriterInv'
<1> DEFINE s == Begin(t, "deposit")
           r == [s EXCEPT !.deposit = Need]
           q == AskAllowance(r)
<1>1. /\ s \in Rows /\ s.page = tab[t].page /\ s.flow = "deposit"
      /\ s.key = hour /\ s.result = 0
  BY RowOf, StartIs DEF WriterFlows
<1>2. /\ "deposit" \in FlowsOf(tab[t].page) /\ tab[t].pc = "idle"
      /\ tab' = [tab EXCEPT ![t] = q] /\ UNCHANGED <<hour, chain, pool, storage>>
  BY DEF SubmitDeposit, CanStart
<1> HIDE DEF s
<1>3. r \in Rows /\ r.page = s.page /\ r.flow = s.flow /\ r.key = s.key /\ r.result = s.result
  <2>1. Need \in Nat
    BY RowOf
  <2> QED
    BY <1>1, <2>1 DEF Rows
<1> HIDE DEF r
<1>4. Moved(q, r, "allow", r.job)
  BY <1>3, AskIs
<1> HIDE DEF q
<1>5. /\ q \in Rows /\ q.page = tab[t].page /\ q.pc = "allow" /\ q.flow = "deposit"
      /\ q.key = hour /\ q.result = 0
  BY <1>1, <1>3, <1>4 DEF Moved, Kept
<1>6. Takes(t, q) /\ Place(q)
  BY <1>2, <1>5 DEF Takes, Place
<1> QED
  BY <1>2, <1>5, <1>6, StartStep

LEMMA SubmitWithdrawStep ==
    ASSUME WriterInv, NEW t \in Tabs, SubmitWithdraw(t)
    PROVE  WriterInv'
<1> DEFINE r == Begin(t, "withdraw")
           q == Send(r, "create")
<1>1. /\ r \in Rows /\ r.page = tab[t].page /\ r.flow = "withdraw"
      /\ r.key = hour /\ r.result = 0
  BY RowOf, StartIs DEF WriterFlows
<1>2. /\ "withdraw" \in FlowsOf(tab[t].page) /\ tab[t].pc = "idle"
      /\ tab' = [tab EXCEPT ![t] = q] /\ UNCHANGED <<hour, chain, pool, storage>>
  BY DEF SubmitWithdraw, CanStart
<1> HIDE DEF r
<1>3. Moved(q, r, "simulate", "create")
  BY <1>1, SendIs DEF Jobs
<1> HIDE DEF q
<1>4. /\ q \in Rows /\ q.page = tab[t].page /\ q.pc = "simulate" /\ q.flow = "withdraw"
      /\ q.key = hour /\ q.result = 0 /\ q.job = "create"
  BY <1>1, <1>3 DEF Moved, Kept
<1>5. Takes(t, q) /\ Place(q)
  BY <1>2, <1>4 DEF Takes, Place
<1> QED
  BY <1>2, <1>4, <1>5, StartStep

-----------------------------------------------------------------------------
(* The steps of a running flow *)

LEMMA GoOnStep ==
    ASSUME WriterInv, NEW t \in Tabs, NEW q, Takes(t, q), UNCHANGED <<hour, chain, pool, storage>>,
           tab[t].pc # "hash", q.pc \notin {"hash", "await"},
           q.key = tab[t].key, Place(q),
           AwaitsFund(tab[t]) => pool[tab[t].tx].status # "sent",
           q.pc = "recover" => SavedIn(q.tx, q.key, pool),
           q.result # 0 => RealIn(q, pool),
           hour = 0 /\ SavesOnce(tab[t], storage) => SavesOnce(q, storage),
           q.page = "pairs" /\ Funding(q, pool) =>
              \/ Funding(tab[t], pool) /\ q.deposit = tab[t].deposit
              \/ chain.free + q.deposit <= Ceiling(chain)
    PROVE  WriterInv'
<1>1. /\ chain \in Chains /\ tab[t].key <= hour
      /\ q.page = tab[t].page
  BY RowOf DEF Takes
<1>2. Quiet
  BY <1>1 DEF Quiet
<1>3. RowSound(q, pool)
  BY DEF RowSound
<1>4. ASSUME hour = 0, SavesOnce(tab[t], storage) PROVE KeepsOnce(tab[t], q)
  BY <1>4 DEF KeepsOnce, Current
<1>5. ASSUME q.page = "pairs", ~chain'.lost, FundKept(tab[t], chain, pool)
      PROVE  KeepsFund(tab[t], q)
  BY <1>1, <1>5 DEF FundKept, KeepsFund
<1> QED
  BY <1>1, <1>2, <1>3, <1>4, <1>5, QuietStep

\* A flow that ends without a result.
LEMMA FailStep ==
    ASSUME WriterInv, NEW t \in Tabs, NEW phase \in StepPhases,
           tab' = [tab EXCEPT ![t] = Fail(tab[t], phase)],
           UNCHANGED <<hour, chain, pool, storage>>,
           tab[t].pc # "hash", AwaitsFund(tab[t]) => pool[tab[t].tx].status # "sent"
    PROVE  WriterInv'
<1> DEFINE q == Fail(tab[t], phase)
<1>1. Moved(q, tab[t], "idle", "none")
  BY RowOf, FailIs
<1>2. Place(tab[t]) /\ (tab[t].result # 0 => RealIn(tab[t], pool))
  BY RowOf DEF RowSound
<1>3. tab' = [tab EXCEPT ![t] = q]
  OBVIOUS
<1> HIDE DEF q
<1>4. Takes(t, q) /\ q.pc = "idle" /\ q.key = tab[t].key
  BY <1>1, <1>3 DEF Takes, Moved, Kept
<1>5. Place(q) /\ (q.result # 0 => RealIn(q, pool))
  BY <1>1, <1>2 DEF Place, Moved, Kept, RealIn
<1>6. SavesOnce(q, storage) /\ ~Funding(q, pool)
  BY <1>4 DEF SavesOnce, Funding, AwaitsFund
<1> QED
  BY <1>4, <1>5, <1>6, GoOnStep

LEMMA ReadVaultStep ==
    ASSUME WriterInv, NEW t \in Tabs, ReadVault(t)
    PROVE  WriterInv'
<1> DEFINE r == tab[t]
           s == [r EXCEPT !.steps = ReportPhase(r.steps, "vault", "skipped")]
           q == IF chain.vault THEN AskFree(s) ELSE Send(r, "vault")
<1>1. /\ r \in Rows /\ Place(r) /\ (r.result # 0 => RealIn(r, pool))
  BY RowOf DEF RowSound
<1>2. /\ r.pc = "readVault" /\ tab' = [tab EXCEPT ![t] = q]
      /\ UNCHANGED <<hour, chain, pool, storage>>
  BY DEF ReadVault
<1>3. Moved(s, r, "readVault", r.job)
  BY <1>1, <1>2, RenderIs DEF StepPhases
<1> HIDE DEF s
<1>4. Moved(AskFree(s), s, "readFree", s.job) /\ Moved(Send(r, "vault"), r, "simulate", "vault")
  BY <1>1, <1>3, AskIs, SendIs DEF Moved, Jobs
<1>5. Moved(q, r, "readFree", r.job) \/ Moved(q, r, "simulate", "vault")
  BY <1>3, <1>4 DEF Moved, Kept
<1> HIDE DEF q
<1>6. Takes(t, q) /\ q.key = r.key /\ q.pc \in {"readFree", "simulate"}
  BY <1>2, <1>5 DEF Takes, Moved, Kept
<1>7. Place(q) /\ (q.result # 0 => RealIn(q, pool))
  BY <1>1, <1>2, <1>5 DEF Place, Moved, Kept, RealIn
<1>8. SavesOnce(q, storage) /\ ~Funding(q, pool)
  BY <1>5 DEF Moved, SavesOnce, Funding, AwaitsFund, Creates
<1> QED
  BY <1>1, <1>2, <1>6, <1>7, <1>8, GoOnStep DEF AwaitsFund

\* What a flow does once its collateral is there.
LEMMA FundingDoneIs ==
    ASSUME NEW r \in Rows, r.flow # "deposit"
    PROVE  LET q == FundingDone(r) IN
           \/ r.flow = "series" /\ Moved(q, r, "checkpoint", r.job)
           \/ r.flow # "series" /\ Moved(q, r, "simulate", "create")
<1>1. /\ Moved(AskCheckpoint(r), r, "checkpoint", r.job)
      /\ Moved(Send(r, "create"), r, "simulate", "create")
  BY AskIs, SendIs DEF Jobs
<1> QED
  BY <1>1 DEF FundingDone

LEMMA CeilingIs ==
    ASSUME NEW c \in Chains, Need \in Nat
    PROVE  /\ Ceiling(c) \in Nat /\ c.opened <= Ceiling(c) /\ Need <= Ceiling(c)
           /\ Ceiling(c) \in {c.opened, Need}
<1> DEFINE o == c.opened
           m == IF o <= Need THEN Need ELSE o
<1>1. o \in Nat
  BY DEF Chains
<1> HIDE DEF o
<1>2. m \in {o, Need} /\ \A x \in {o, Need} : m >= x
  BY <1>1
<1>3. Max({o, Need}) \in {o, Need} /\ \A x \in {o, Need} : Max({o, Need}) >= x
  BY <1>2 DEF Max
<1> QED
  BY <1>1, <1>3 DEF Ceiling, o

LEMMA ReadFreeStep ==
    ASSUME WriterInv, NEW t \in Tabs, ReadFree(t)
    PROVE  WriterInv'
<1> DEFINE d == Deposit(tab[t], chain)
           r == [tab[t] EXCEPT !.deposit = d]
           u == ReportPhase(r.steps, "approve", "skipped")
           s == [r EXCEPT !.steps = ReportPhase(u, "fund", "skipped")]
           q == IF r.deposit > 0 THEN AskAllowance(r) ELSE FundingDone(s)
<1>1. /\ tab[t] \in Rows /\ Place(tab[t]) /\ (tab[t].result # 0 => RealIn(tab[t], pool))
      /\ chain.free \in Nat /\ Need \in Nat /\ chain \in Chains
  BY RowOf DEF RowSound, Chains
<1>2. /\ tab[t].pc = "readFree" /\ tab' = [tab EXCEPT ![t] = q]
      /\ UNCHANGED <<hour, chain, pool, storage>>
  BY DEF ReadFree
<1>3. /\ d \in Nat /\ (tab[t].topUp = -1 => d = IF Need > chain.free THEN Need - chain.free ELSE 0)
  BY <1>1 DEF Rows, Deposit, Shortfall
<1> HIDE DEF d
<1>4. /\ r \in Rows /\ r.deposit = d /\ r.page = tab[t].page /\ r.flow = tab[t].flow
      /\ r.key = tab[t].key /\ r.topUp = tab[t].topUp /\ r.job = tab[t].job
      /\ r.result = tab[t].result /\ r.pc = "readFree"
  BY <1>1, <1>2, <1>3 DEF Rows
<1> HIDE DEF r
<1>5. Moved(s, r, "readFree", r.job)
  <2>1. u \in StepLists
    BY <1>4, StepsStay DEF Rows, StepPhases
  <2> HIDE DEF u
  <2>2. ReportPhase(u, "fund", "skipped") \in StepLists
    BY <2>1, StepsStay DEF StepPhases
  <2> QED
    BY <1>4, <2>2 DEF Moved, Kept, Rows
<1> HIDE DEF s
<1>6. r.flow \in {"series", "group", "allocate"}
  BY <1>1, <1>2, <1>4 DEF Place
<1>7. \/ q.pc = "allow" /\ Moved(q, r, "allow", r.job) /\ d > 0
      \/ q.pc = "checkpoint" /\ Moved(q, r, "checkpoint", r.job) /\ r.flow = "series"
      \/ q.pc = "simulate" /\ Moved(q, r, "simulate", "create") /\ r.flow # "series"
  <2>1. Moved(AskAllowance(r), r, "allow", r.job)
    BY <1>4, AskIs
  <2>2. \/ s.flow = "series" /\ Moved(FundingDone(s), s, "checkpoint", s.job)
        \/ s.flow # "series" /\ Moved(FundingDone(s), s, "simulate", "create")
    BY <1>5, <1>6, FundingDoneIs DEF Moved, Kept
  <2> QED
    BY <1>4, <1>5, <2>1, <2>2 DEF Moved, Kept
<1> HIDE DEF q
<1>8. /\ Takes(t, q) /\ q.key = tab[t].key /\ q.deposit = d /\ q.pc \notin {"hash", "await", "recover"}
      /\ q.flow = tab[t].flow /\ q.topUp = tab[t].topUp /\ q.page = tab[t].page
      /\ q.result = tab[t].result
  BY <1>2, <1>4, <1>7 DEF Takes, Moved, Kept
<1>9. Place(q)
  BY <1>1, <1>2, <1>4, <1>7, <1>8 DEF Place, Moved
<1>10. q.result # 0 => RealIn(q, pool)
  BY <1>1, <1>8 DEF RealIn
<1>11. SavesOnce(q, storage)
  BY <1>4, <1>7, <1>8 DEF Moved, SavesOnce, Creates
<1>12. ASSUME q.page = "pairs", Funding(q, pool) PROVE chain.free + q.deposit <= Ceiling(chain)
  <2>1. tab[t].topUp = -1
    BY <1>1, <1>2, <1>8, <1>12 DEF Place, FlowsOf
  <2>2. d > 0
    BY <1>7, <1>12 DEF Funding, AwaitsFund, Moved
  <2>3. Need <= Ceiling(chain) /\ Ceiling(chain) \in Nat
    BY <1>1, CeilingIs
  <2>4. chain.free + d = Need
    BY <1>1, <1>3, <2>1, <2>2
  <2> QED
    BY <1>8, <2>3, <2>4
<1> QED
  BY <1>2, <1>8, <1>9, <1>10, <1>11, <1>12, GoOnStep DEF AwaitsFund

LEMMA AllowStep ==
    ASSUME WriterInv, NEW t \in Tabs, EnsureAllowance(t)
    PROVE  WriterInv'
<1> DEFINE r == tab[t]
           s == [r EXCEPT !.steps = ReportPhase(r.steps, "approve", "skipped")]
           q == IF chain.allowed >= r.deposit THEN Send(s, "fund") ELSE Send(r, "approve")
<1>1. /\ r \in Rows /\ Place(r) /\ (r.result # 0 => RealIn(r, pool))
  BY RowOf DEF RowSound
<1>2. /\ r.pc = "allow" /\ tab' = [tab EXCEPT ![t] = q]
      /\ UNCHANGED <<hour, chain, pool, storage>>
  BY DEF EnsureAllowance
<1>3. Moved(s, r, "allow", r.job)
  BY <1>1, <1>2, RenderIs DEF StepPhases
<1> HIDE DEF s
<1>4. Moved(Send(s, "fund"), s, "simulate", "fund") /\ Moved(Send(r, "approve"), r, "simulate", "approve")
  BY <1>1, <1>3, SendIs DEF Moved, Jobs
<1>5. Moved(q, r, "simulate", "fund") \/ Moved(q, r, "simulate", "approve")
  BY <1>3, <1>4 DEF Moved, Kept
<1> HIDE DEF q
<1>6. /\ Takes(t, q) /\ q.key = r.key /\ q.pc = "simulate" /\ q.job \in {"fund", "approve"}
      /\ q.deposit = r.deposit
  BY <1>2, <1>5 DEF Takes, Moved, Kept
<1>7. Place(q) /\ (q.result # 0 => RealIn(q, pool))
  BY <1>1, <1>2, <1>5 DEF Place, Moved, Kept, RealIn
<1>8. SavesOnce(q, storage) /\ Funding(r, pool)
  BY <1>2, <1>6 DEF SavesOnce, Funding, Creates
<1> QED
  BY <1>1, <1>2, <1>6, <1>7, <1>8, GoOnStep DEF AwaitsFund

LEMMA SimulateStep ==
    ASSUME WriterInv, NEW t \in Tabs, Simulate(t)
    PROVE  WriterInv'
<1> DEFINE r == tab[t]
           s == ReportPhase(r.steps, StepKey(r.flow, r.job), "confirm")
           q == [r EXCEPT !.pc = "confirm", !.steps = s]
<1>1. /\ r \in Rows /\ Place(r) /\ (r.result # 0 => RealIn(r, pool))
  BY RowOf DEF RowSound
<1>2. /\ r.pc = "simulate" /\ UNCHANGED <<hour, chain, pool, storage>>
      /\ tab' = [tab EXCEPT ![t] = q] \/ tab' = [tab EXCEPT ![t] = Fail(r, "failed")]
  BY DEF Simulate
<1>3. CASE tab' = [tab EXCEPT ![t] = Fail(r, "failed")]
  <2>1. "failed" \in StepPhases
    BY DEF StepPhases
  <2> QED
    BY <1>2, <1>3, <2>1, FailStep DEF AwaitsFund
<1>4. CASE tab' = [tab EXCEPT ![t] = q]
  <2>1. s \in StepLists
    BY <1>1, StepsStay DEF Rows, StepPhases
  <2> HIDE DEF s
  <2>2. Moved(q, r, "confirm", r.job)
    BY <1>1, <2>1 DEF Moved, Kept, Rows
  <2> HIDE DEF q
  <2>3. /\ Takes(t, q) /\ q.key = r.key /\ q.pc = "confirm" /\ q.job = r.job
        /\ q.deposit = r.deposit /\ q.flow = r.flow
    BY <1>4, <2>2 DEF Takes, Moved, Kept
  <2>4. Place(q) /\ (q.result # 0 => RealIn(q, pool))
    BY <1>1, <1>2, <2>2 DEF Place, Moved, Kept, RealIn
  <2>5. SavesOnce(r, storage) => SavesOnce(q, storage)
    BY <1>2, <2>3 DEF SavesOnce
  <2>6. Funding(q, pool) => Funding(r, pool)
    BY <1>2, <2>3 DEF Funding, AwaitsFund
  <2> QED
    BY <1>2, <2>3, <2>4, <2>5, <2>6, GoOnStep DEF AwaitsFund
<1> QED
  BY <1>2, <1>3, <1>4

LEMMA RejectStep ==
    ASSUME WriterInv, NEW t \in Tabs, RejectPrompt(t)
    PROVE  WriterInv'
<1>1. "rejected" \in StepPhases
  BY DEF StepPhases
<1> QED
  BY <1>1, FailStep DEF RejectPrompt, AwaitsFund

LEMMA LoadCheckpointStep ==
    ASSUME WriterInv, NEW t \in Tabs, LoadCheckpoint(t)
    PROVE  WriterInv'
<1> DEFINE r == tab[t]
           saved == storage[r.key]
           s == ReportPhase(r.steps, "create", "pending")
           e == [r EXCEPT !.pc = "recover", !.tx = saved, !.steps = s]
           q == IF saved = 0 THEN Send(r, "create") ELSE e
<1>1. /\ r \in Rows /\ Place(r) /\ (r.result # 0 => RealIn(r, pool)) /\ r.key <= hour
      /\ r.key \in 0..LastHour
  BY RowOf DEF RowSound, Rows
<1>2. /\ r.pc = "checkpoint" /\ tab' = [tab EXCEPT ![t] = q]
      /\ UNCHANGED <<hour, chain, pool, storage>>
  BY DEF LoadCheckpoint
<1>3. saved \in Nat /\ (saved # 0 => SavedIn(saved, r.key, pool))
  BY <1>1 DEF WriterInv, WriterSound, WriterTypes
<1>4. s \in StepLists
  BY <1>1, StepsStay DEF Rows, StepPhases
<1> HIDE DEF s
<1>5. hour = 0 => saved = storage[0]
  BY <1>1
<1> HIDE DEF saved
<1>6. /\ e \in Rows /\ e.page = r.page /\ e.flow = r.flow /\ e.key = r.key /\ e.topUp = r.topUp
      /\ e.result = r.result /\ e.pc = "recover" /\ e.tx = saved
  BY <1>1, <1>3, <1>4 DEF Rows
<1> HIDE DEF e
<1>7. Moved(Send(r, "create"), r, "simulate", "create")
  BY <1>1, SendIs DEF Jobs
<1>8. \/ saved = 0 /\ q.pc = "simulate" /\ q.job = "create"
      \/ saved # 0 /\ q.pc = "recover" /\ q.tx = saved
  BY <1>6, <1>7 DEF Moved
<1>9. /\ q \in Rows /\ q.page = r.page /\ q.flow = r.flow /\ q.key = r.key /\ q.topUp = r.topUp
      /\ q.result = r.result
  BY <1>6, <1>7 DEF Moved, Kept
<1> HIDE DEF q
<1>10. Takes(t, q)
  BY <1>2, <1>9 DEF Takes
<1>11. Place(q) /\ (q.result # 0 => RealIn(q, pool))
  BY <1>1, <1>2, <1>8, <1>9 DEF Place, RealIn
<1>12. q.pc = "recover" => SavedIn(q.tx, q.key, pool)
  BY <1>3, <1>8, <1>9
<1>13. hour = 0 => SavesOnce(q, storage)
  BY <1>5, <1>8 DEF SavesOnce
<1>14. ~Funding(q, pool)
  BY <1>8 DEF Funding, AwaitsFund
<1> QED
  BY <1>2, <1>8, <1>9, <1>10, <1>11, <1>12, <1>13, <1>14, GoOnStep DEF AwaitsFund

LEMMA RefetchStep ==
    ASSUME WriterInv, NEW t \in Tabs, Refetch(t)
    PROVE  WriterInv'
<1> DEFINE r == tab[t]
           q == [r EXCEPT !.seen = chain.free]
<1>1. /\ r \in Rows /\ RowSound(r, pool) /\ r.key <= hour /\ chain \in Chains /\ chain.free \in Nat
  BY RowOf DEF Chains
<1>2. tab' = [tab EXCEPT ![t] = q] /\ UNCHANGED <<hour, chain, pool, storage>>
  BY <1>1 DEF Refetch, WriterInv, WriterSound, WriterTypes
<1>3. /\ q \in Rows /\ q.page = r.page /\ q.pc = r.pc /\ q.flow = r.flow /\ q.key = r.key
      /\ q.topUp = r.topUp /\ q.deposit = r.deposit /\ q.job = r.job /\ q.tx = r.tx
      /\ q.result = r.result
  BY <1>1 DEF Rows
<1> HIDE DEF q
<1>4. Takes(t, q) /\ Quiet
  BY <1>1, <1>2, <1>3 DEF Takes, Quiet
<1>5. RowSound(q, pool)
  BY <1>1, <1>3 DEF RowSound, Place, SavedIn, SentIn, RealIn, Amount
<1>6. ASSUME SavesOnce(r, storage) PROVE KeepsOnce(r, q)
  BY <1>3, <1>6 DEF KeepsOnce, SavesOnce, Current
<1>7. ASSUME q.page = "pairs", ~chain'.lost, FundKept(r, chain, pool) PROVE KeepsFund(r, q)
  BY <1>2, <1>3, <1>7 DEF KeepsFund, FundKept, Funding, AwaitsFund
<1> QED
  BY <1>1, <1>3, <1>4, <1>5, <1>6, <1>7, QuietStep

\* A step that may leave a deposit behind.
LEMMA LosingQuiet ==
    ASSUME WriterInv, NEW t \in Tabs, chain' = Losing(chain, tab[t]),
           UNCHANGED <<hour, pool, storage>>
    PROVE  /\ Quiet
           /\ AwaitsFund(tab[t]) /\ pool[tab[t].tx].status = "sent" => chain'.lost
<1> DEFINE l == chain.lost \/ Waits(tab[t])
<1>1. chain \in Chains /\ chain' = [chain EXCEPT !.lost = l]
  BY RowOf DEF Losing
<1>2. AwaitsFund(tab[t]) /\ pool[tab[t].tx].status = "sent" => l
  BY DEF AwaitsFund, Waits
<1>3. l \in BOOLEAN /\ (chain.lost => l)
  BY <1>1 DEF Waits, Chains
<1> HIDE DEF l
<1>4. /\ chain' \in Chains /\ chain'.lost = l
      /\ chain'.made = chain.made /\ chain'.shown = chain.shown
      /\ chain'.free = chain.free /\ chain'.opened = chain.opened
  BY <1>1, <1>3 DEF Chains
<1> QED
  BY <1>2, <1>3, <1>4 DEF Quiet

LEMMA GiveUpStep ==
    ASSUME WriterInv, NEW t \in Tabs, GiveUp(t)
    PROVE  WriterInv'
<1> DEFINE r == tab[t]
           q == Fail(r, "failed")
<1>1. /\ r \in Rows /\ Place(r) /\ (r.result # 0 => RealIn(r, pool)) /\ r.key <= hour
  BY RowOf DEF RowSound
<1>2. /\ r.pc \in {"await", "recover"} /\ tab' = [tab EXCEPT ![t] = q]
      /\ chain' = Losing(chain, r) /\ UNCHANGED <<hour, pool, storage>>
  BY DEF GiveUp
<1>3. Moved(q, r, "idle", "none")
  BY <1>1, FailIs DEF StepPhases
<1> HIDE DEF q
<1>4. Takes(t, q) /\ q.pc = "idle" /\ q.key = r.key
  BY <1>2, <1>3 DEF Takes, Moved, Kept
<1>5. RowSound(q, pool)
  BY <1>1, <1>3 DEF RowSound, Place, Moved, Kept, RealIn
<1>6. Quiet /\ (AwaitsFund(r) /\ pool[r.tx].status = "sent" => chain'.lost)
  BY <1>2, LosingQuiet
<1>7. KeepsOnce(r, q)
  BY <1>2, <1>4 DEF KeepsOnce, SavesOnce, Current
<1>8. ~chain'.lost => KeepsFund(r, q)
  BY <1>4, <1>6 DEF KeepsFund, Funding, AwaitsFund
<1> QED
  BY <1>1, <1>4, <1>5, <1>6, <1>7, <1>8, QuietStep

LEMMA ReloadStep ==
    ASSUME WriterInv, NEW t \in Tabs, Reload(t)
    PROVE  WriterInv'
<1> DEFINE r == tab[t]
           q == NoTab(r.page, 0)
<1>1. r \in Rows /\ 0 \in 0..LastHour /\ hour \in Nat
  BY WriterBounds, RowOf DEF WriterTypes
<1>2. /\ r.pc \in ReloadAt /\ tab' = [tab EXCEPT ![t] = q]
      /\ chain' = Losing(chain, r) /\ UNCHANGED <<hour, pool, storage>>
  BY DEF Reload
<1>3. << >> \in StepLists
  BY DEF StepLists
<1>4. /\ q \in Rows /\ q.page = r.page /\ q.pc = "idle" /\ q.flow = "none" /\ q.key = 0
      /\ q.job = "none" /\ q.result = 0
  BY <1>1, <1>3 DEF NoTab, Rows
<1> HIDE DEF q
<1>5. Takes(t, q)
  BY <1>2, <1>4 DEF Takes
<1>6. RowSound(q, pool)
  BY <1>4 DEF RowSound, Place
<1>7. Quiet /\ (AwaitsFund(r) /\ pool[r.tx].status = "sent" => chain'.lost)
  BY <1>2, LosingQuiet
<1>8. "hash" \notin ReloadAt => KeepsOnce(r, q)
  BY <1>2, <1>4 DEF KeepsOnce, SavesOnce, Current
<1>9. ~chain'.lost => KeepsFund(r, q)
  BY <1>4, <1>7 DEF KeepsFund, Funding, AwaitsFund
<1>10. q.key <= hour
  BY <1>1, <1>4
<1> QED
  BY <1>5, <1>6, <1>7, <1>8, <1>9, <1>10, QuietStep

\* A flow runs in an open tab only.
LEMMA BusyIsOpen ==
    ASSUME WriterInv, NEW t \in Tabs, tab[t].pc # "idle"
    PROVE  \A w \in Tabs \ {t} : Open # {w}
<1>1. FlowsOf("none") = {}
  BY DEF FlowsOf
<1>2. tab[t].flow \in FlowsOf(tab[t].page)
  BY RowOf DEF Place
<1>3. tab[t].page # "none"
  BY <1>1, <1>2
<1> QED
  BY <1>3 DEF Open

LEMMA BusyStep ==
    ASSUME WriterInv, NEW t \in Tabs, tab[t].pc # "idle", NEW q, Takes(t, q), WriterSound',
           Open = {t} /\ OnceKept(tab[t], hour, storage, chain, pool) =>
              OnceKept(q, hour', storage', chain', pool'),
           Open = {t} /\ FundKept(tab[t], chain, pool) => FundKept(q, chain', pool')
    PROVE  WriterInv'
<1>1. KeepsOne(t, q)
  BY DEF KeepsOne, WriterInv
<1>2. \A w \in Tabs \ {t} : Open # {w}
  BY BusyIsOpen
<1> QED
  BY <1>1, <1>2, InvStep

\* A creation that is mined is shown, and forgotten.
LEMMA ShownStep ==
    ASSUME WriterInv, NEW t \in Tabs, NEW q, Takes(t, q),
           \/ tab[t].pc = "recover"
           \/ tab[t].pc = "await" /\ Creates(tab[t].flow, tab[t].job),
           q.pc = "idle", q.key = tab[t].key, q.result = tab[t].tx, Place(q),
           pool[tab[t].tx].status = "mined",
           chain' = [chain EXCEPT !.shown = @ + 1],
           storage' = [storage EXCEPT ![tab[t].key] = 0],
           UNCHANGED <<hour, pool>>
    PROVE  WriterInv'
<1> DEFINE r == tab[t]
<1>1. /\ r \in Rows /\ RowSound(r, pool) /\ r.key <= hour /\ r.key \in 0..LastHour
      /\ chain \in Chains /\ hour \in Nat /\ q.page = r.page
  BY RowOf DEF Rows, Takes
<1>2. SavedIn(r.tx, r.key, pool)
  BY <1>1 DEF RowSound, SentIn, SavedIn
<1>3. r.flow = "series" /\ r.pc # "idle" /\ r.page # "pairs"
  <2>1. r.flow = "series" /\ r.pc # "idle"
    BY <1>1 DEF RowSound, Place, Creates
  <2>2. r.flow \in FlowsOf(r.page)
    BY <1>1, <2>1 DEF RowSound, Place
  <2> QED
    BY <2>1, <2>2 DEF FlowsOf
<1>4. RowSound(q, pool)
  BY <1>2 DEF RowSound, RealIn, SavedIn
<1>5. /\ chain' \in Chains /\ chain'.made = chain.made /\ chain'.shown = chain.shown + 1
  BY <1>1 DEF Chains
<1>6. /\ pool \in Seq(Txs) /\ storage' \in [0..LastHour -> Nat] /\ storage'[r.key] = 0
      /\ \A h \in 0..LastHour : storage'[h] # 0 => SavedIn(storage'[h], h, pool)
  BY <1>1 DEF WriterInv, WriterSound, WriterTypes
<1>7. WriterSound'
  <2>1. /\ pool' \in Seq(Txs) /\ Grows(pool, pool') /\ RowSound(q, pool')
        /\ \A h \in 0..LastHour : storage'[h] # 0 => SavedIn(storage'[h], h, pool')
    BY <1>4, <1>6, GrowsNot
  <2>2. WriterSound /\ q.key <= hour
    BY <1>1 DEF WriterInv
  <2> QED
    BY <1>5, <1>6, <2>1, <2>2, SoundStep
<1>8. ASSUME OnceKept(r, hour, storage, chain, pool)
      PROVE  OnceKept(q, hour', storage', chain', pool')
  <2> SUFFICES ASSUME hour = 0, "hash" \notin ReloadAt
               PROVE  SavesOnce(q, storage') /\ CreatedOnce(Current(q, storage'), chain', pool)
    BY DEF OnceKept
  <2>1. /\ SavesOnce(r, storage) /\ CreatedOnce(Current(r, storage), chain, pool)
    BY <1>8 DEF OnceKept
  <2>2. Current(r, storage) = r.tx /\ r.tx \in DOMAIN pool
    BY <1>2, <2>1 DEF SavesOnce, Current, SavedIn
  <2>3. r.key = 0 /\ storage'[0] = 0
    BY <1>1, <1>6
  <2>4. Current(q, storage') = 0 /\ 0 \notin DOMAIN pool
    BY <1>6, <2>3 DEF Current
  <2>5. SavesOnce(q, storage')
    BY DEF SavesOnce
  <2>6. /\ \A i \in DOMAIN pool :
              Creates(pool[i].flow, pool[i].job) /\ pool[i].status = "sent" => i = r.tx
        /\ chain.made = chain.shown + 1
    BY <2>1, <2>2 DEF CreatedOnce
  <2>7. chain.shown + 1 \in Nat
    BY <1>1 DEF Chains
  <2> QED
    BY <1>5, <2>4, <2>5, <2>6, <2>7 DEF CreatedOnce
<1>9. FundKept(q, chain', pool')
  BY <1>1, <1>3 DEF FundKept
<1> QED
  BY <1>3, <1>7, <1>8, <1>9, BusyStep

LEMMA RecoverStep ==
    ASSUME WriterInv, NEW t \in Tabs, Recover(t)
    PROVE  WriterInv'
<1> DEFINE s == ReportPhase(tab[t].steps, "create", "confirmed")
           r == [tab[t] EXCEPT !.job = "create", !.steps = s]
           q == Finish(r, r.tx)
           x == Fail(tab[t], "failed")
<1>1. /\ tab[t] \in Rows /\ RowSound(tab[t], pool) /\ tab[t].key <= hour /\ tab[t].key \in 0..LastHour
      /\ chain \in Chains /\ tab[t].pc = "recover" /\ UNCHANGED <<hour, pool>> /\ hour \in Nat
  BY RowOf DEF Rows, Recover
<1>2. s \in StepLists
  BY <1>1, StepsStay DEF Rows, StepPhases
<1>3. Recover(t) =>
        \/ /\ pool[r.tx].status = "mined"
           /\ tab' = [tab EXCEPT ![t] = q] /\ Shown(r, r.tx)
        \/ /\ pool[r.tx].status = "reverted" /\ tab' = [tab EXCEPT ![t] = x]
           /\ storage' = [storage EXCEPT ![r.key] = 0] /\ UNCHANGED chain
  BY DEF Recover
<1> HIDE DEF s
<1>4. /\ r \in Rows /\ r.page = tab[t].page /\ r.flow = tab[t].flow /\ r.key = tab[t].key
      /\ r.topUp = tab[t].topUp /\ r.tx = tab[t].tx /\ r.job = "create"
  BY <1>1, <1>2 DEF Rows, Jobs
<1> HIDE DEF r
<1>5. /\ r.flow = "series" /\ SavedIn(r.tx, r.key, pool) /\ r.tx \in Nat
  BY <1>1, <1>4 DEF RowSound, Place, Rows
<1>6. CASE /\ pool[r.tx].status = "mined"
           /\ tab' = [tab EXCEPT ![t] = q] /\ Shown(r, r.tx)
  <2>1. /\ q \in Rows /\ Kept(q, r) /\ q.pc = "idle" /\ q.job = "none" /\ q.result = r.tx
    BY <1>4, <1>5, FinishIs
  <2> HIDE DEF q
  <2>2. /\ Takes(t, q) /\ q.key = tab[t].key /\ q.result = tab[t].tx /\ q.pc = "idle"
    BY <1>4, <1>6, <2>1 DEF Takes, Kept
  <2>3. Place(q)
    BY <1>4, <1>5, <2>1 DEF Place, Kept
  <2>4. /\ chain' = [chain EXCEPT !.shown = @ + 1]
        /\ storage' = [storage EXCEPT ![tab[t].key] = 0]
    BY <1>4, <1>5, <1>6 DEF Shown, Creates
  <2> QED
    BY <1>1, <1>4, <1>6, <2>2, <2>3, <2>4, ShownStep
<1>7. CASE /\ pool[r.tx].status = "reverted" /\ tab' = [tab EXCEPT ![t] = x]
           /\ storage' = [storage EXCEPT ![r.key] = 0] /\ UNCHANGED chain
  <2>1. Moved(x, tab[t], "idle", "none")
    BY <1>1, FailIs DEF StepPhases
  <2> HIDE DEF x
  <2>2. Takes(t, x) /\ x.key = tab[t].key /\ x.pc = "idle" /\ x.page = tab[t].page
    BY <1>7, <2>1 DEF Takes, Moved, Kept
  <2>3. RowSound(x, pool)
    BY <1>1, <2>1 DEF RowSound, Place, Moved, Kept, RealIn
  <2>4. /\ pool \in Seq(Txs) /\ storage' \in [0..LastHour -> Nat] /\ storage'[r.key] = 0
        /\ \A h \in 0..LastHour : storage'[h] # 0 => SavedIn(storage'[h], h, pool)
    BY <1>1, <1>4, <1>7 DEF WriterInv, WriterSound, WriterTypes
  <2>5. WriterSound'
    <3>1. /\ pool' \in Seq(Txs) /\ Grows(pool, pool') /\ RowSound(x, pool') /\ chain' \in Chains
          /\ \A h \in 0..LastHour : storage'[h] # 0 => SavedIn(storage'[h], h, pool')
      BY <1>1, <1>7, <2>3, <2>4, GrowsNot
    <3>2. WriterSound /\ x.key <= hour
      BY <1>1, <2>2 DEF WriterInv
    <3> QED
      BY <1>1, <2>2, <2>4, <3>1, <3>2, SoundStep
  <2>6. ASSUME OnceKept(tab[t], hour, storage, chain, pool)
        PROVE  OnceKept(x, hour', storage', chain', pool')
    <3> SUFFICES ASSUME hour = 0, "hash" \notin ReloadAt
                 PROVE  SavesOnce(x, storage') /\ CreatedOnce(Current(x, storage'), chain, pool)
      BY <1>1, <1>7 DEF OnceKept
    <3>1. /\ SavesOnce(tab[t], storage) /\ CreatedOnce(Current(tab[t], storage), chain, pool)
      BY <2>6 DEF OnceKept
    <3>2. Current(tab[t], storage) = r.tx /\ r.tx \in DOMAIN pool
      BY <1>1, <1>4, <1>5, <3>1 DEF SavesOnce, Current, SavedIn
    <3>3. r.key = 0 /\ storage'[0] = 0
      BY <1>1, <1>4, <2>4
    <3>4. Current(x, storage') = 0 /\ 0 \notin DOMAIN pool
      BY <2>2, <2>4, <3>3 DEF Current
    <3>5. SavesOnce(x, storage')
      BY <2>2 DEF SavesOnce
    <3>6. /\ \A i \in DOMAIN pool :
                Creates(pool[i].flow, pool[i].job) /\ pool[i].status = "sent" => i = r.tx
          /\ chain.made = chain.shown + 0
      BY <1>7, <3>1, <3>2 DEF CreatedOnce
    <3> QED
      BY <1>7, <3>4, <3>5, <3>6 DEF CreatedOnce
  <2>7. ASSUME FundKept(tab[t], chain, pool) PROVE FundKept(x, chain', pool')
    BY <1>1, <1>7, <2>2, <2>7 DEF FundKept, Funding, AwaitsFund
  <2> QED
    BY <1>1, <2>2, <2>5, <2>6, <2>7, BusyStep
<1> QED
  BY <1>3, <1>6, <1>7

\* A receipt that is not that of a creation: the flow goes on.
LEMMA ConfirmedIs ==
    ASSUME NEW r \in Rows, Place(r), r.pc = "await", ~Creates(r.flow, r.job)
    PROVE  LET q == Proceed(r) IN
           \/ r.job = "vault" /\ Moved(q, r, "readFree", r.job)
           \/ r.job = "approve" /\ Moved(q, r, "simulate", "fund")
           \/ r.job = "fund" /\ r.flow = "series" /\ Moved(q, r, "checkpoint", r.job)
           \/ r.flow \notin {"series", "deposit"} /\ Moved(q, r, "simulate", "create")
           \/ /\ q \in Rows /\ Kept(q, r) /\ q.pc = "idle" /\ q.job = "none" /\ q.result = r.tx
              /\ r.flow # "series"
<1>1. r.job \in Jobs /\ r.tx \in Nat
  BY DEF Place, Rows
<1>2. CASE r.job = "vault"
  BY <1>2, AskIs DEF Proceed
<1>3. CASE r.job = "approve"
  BY <1>3, SendIs DEF Proceed, Jobs
<1>4. CASE r.job = "fund" /\ r.flow = "deposit"
  <2>1. Proceed(r) = Finish(r, r.tx)
    BY <1>4 DEF Proceed, FundingDone
  <2> QED
    BY <1>1, <1>4, <2>1, FinishIs
<1>5. CASE r.job = "fund" /\ r.flow # "deposit"
  <2>1. Proceed(r) = FundingDone(r)
    BY <1>5 DEF Proceed
  <2> QED
    BY <1>5, <2>1, FundingDoneIs
<1>6. CASE r.job = "create"
  <2>1. Proceed(r) = Finish(r, r.tx) /\ r.flow # "series"
    BY <1>6 DEF Proceed, Creates
  <2> QED
    BY <1>1, <2>1, FinishIs
<1> QED
  BY <1>1, <1>2, <1>3, <1>4, <1>5, <1>6 DEF Jobs

LEMMA ReceiptStep ==
    ASSUME WriterInv, NEW t \in Tabs, Await(t)
    PROVE  WriterInv'
<1> DEFINE r == tab[t]
           s == ReportPhase(r.steps, StepKey(r.flow, r.job), "confirmed")
           e == [r EXCEPT !.steps = s]
           q == Proceed(e)
<1>1. /\ r \in Rows /\ RowSound(r, pool) /\ Place(r) /\ r.pc = "await" /\ SentIn(r, pool)
      /\ UNCHANGED <<hour, pool>> /\ chain \in Chains /\ r.tx \in Nat /\ r.key \in 0..LastHour
  BY RowOf DEF Await, RowSound, Rows
<1>2. \/ /\ pool[r.tx].status = "mined" /\ tab' = [tab EXCEPT ![t] = q]
         /\ Shown(r, r.tx)
      \/ /\ pool[r.tx].status = "reverted" /\ tab' = [tab EXCEPT ![t] = Fail(r, "failed")]
         /\ UNCHANGED <<chain, storage>>
  BY DEF Await
<1>3. Moved(e, r, r.pc, r.job)
  BY <1>1, RenderIs DEF StepPhases
<1> HIDE DEF s, e
<1>4. Place(e)
  BY <1>1, <1>3 DEF Place, Moved, Kept
<1>5. CASE /\ pool[r.tx].status = "mined" /\ tab' = [tab EXCEPT ![t] = q]
           /\ Shown(r, r.tx) /\ Creates(r.flow, r.job)
  <2>1. q = Finish(e, e.tx) /\ e.tx = r.tx
    BY <1>3, <1>5 DEF Proceed, Creates, Moved, Kept
  <2>2. /\ q \in Rows /\ Kept(q, e) /\ q.pc = "idle" /\ q.job = "none" /\ q.result = r.tx
    BY <1>1, <1>3, <2>1, FinishIs DEF Moved
  <2> HIDE DEF q
  <2>3. Takes(t, q) /\ q.key = r.key
    BY <1>3, <1>5, <2>2 DEF Takes, Moved, Kept
  <2>4. Place(q)
    BY <1>4, <2>2 DEF Place, Kept
  <2>5. /\ chain' = [chain EXCEPT !.shown = @ + 1]
        /\ storage' = [storage EXCEPT ![r.key] = 0]
    BY <1>5 DEF Shown
  <2> QED
    BY <1>1, <1>5, <2>2, <2>3, <2>4, <2>5, ShownStep
<1>6. CASE /\ pool[r.tx].status = "mined" /\ tab' = [tab EXCEPT ![t] = q]
           /\ Shown(r, r.tx) /\ ~Creates(r.flow, r.job)
  <2>1. UNCHANGED <<chain, storage>>
    BY <1>1, <1>6 DEF Shown, Chains
  <2>2. \/ e.job = "vault" /\ Moved(q, e, "readFree", e.job)
        \/ e.job = "approve" /\ Moved(q, e, "simulate", "fund")
        \/ e.job = "fund" /\ e.flow = "series" /\ Moved(q, e, "checkpoint", e.job)
        \/ e.flow \notin {"series", "deposit"} /\ Moved(q, e, "simulate", "create")
        \/ /\ q \in Rows /\ Kept(q, e) /\ q.pc = "idle" /\ q.job = "none" /\ q.result = e.tx
           /\ e.flow # "series"
    BY <1>1, <1>3, <1>4, <1>6, ConfirmedIs DEF Moved, Kept
  <2> HIDE DEF q
  <2>3. Kept(q, r) /\ Takes(t, q)
    BY <1>3, <1>6, <2>2 DEF Takes, Moved, Kept
  <2>4. q.pc \in {"idle", "readFree", "simulate", "checkpoint"}
    BY <2>2 DEF Moved
  <2>5. Place(q)
    BY <1>1, <1>3, <1>4, <2>2, <2>3 DEF Place, Moved, Kept
  <2>6. q.result # 0 => RealIn(q, pool)
    <3>1. r.result # 0 => RealIn(r, pool)
      BY <1>1 DEF RowSound
    <3>2. q.result = r.result \/ (q.result = r.tx /\ r.flow # "series")
      BY <1>3, <2>2 DEF Moved, Kept
    <3> QED
      BY <1>1, <1>6, <2>3, <3>1, <3>2 DEF RealIn, SentIn, Kept
  <2>7. SavesOnce(q, storage)
    BY <1>3, <2>2, <2>3 DEF SavesOnce, Moved, Kept, Creates
  <2>8. Funding(q, pool) => Funding(r, pool)
    BY <1>1, <1>3, <2>2, <2>4 DEF Funding, AwaitsFund, Moved
  <2>9. q.key = r.key /\ q.deposit = r.deposit
    BY <2>3 DEF Kept
  <2> QED
    BY <1>1, <1>6, <2>1, <2>3, <2>4, <2>5, <2>6, <2>7, <2>8, <2>9, GoOnStep
<1>7. CASE /\ pool[r.tx].status = "reverted" /\ tab' = [tab EXCEPT ![t] = Fail(r, "failed")]
           /\ UNCHANGED <<chain, storage>>
  <2>1. "failed" \in StepPhases
    BY DEF StepPhases
  <2> QED
    BY <1>1, <1>7, <2>1, FailStep
<1> QED
  BY <1>2, <1>5, <1>6, <1>7

LEMMA ConfirmStep ==
    ASSUME WriterInv, NEW t \in Tabs, Confirm(t)
    PROVE  WriterInv'
<1> DEFINE r == tab[t]
           n == Len(pool) + 1
           tx == [flow |-> r.flow, job |-> r.job, key |-> r.key,
                  amount |-> Amount(r, r.job), status |-> "sent"]
           q == [r EXCEPT !.pc = "hash", !.tx = n]
<1>1. /\ r \in Rows /\ RowSound(r, pool) /\ Place(r) /\ r.pc = "confirm" /\ chain \in Chains
      /\ r.key <= hour /\ Need \in Nat /\ pool \in Seq(Txs) /\ tab \in [Tabs -> Rows]
  BY RowOf DEF Confirm, WriterTypes
<1>2. /\ pool' = Append(pool, tx) /\ UNCHANGED <<hour, chain, storage>>
      /\ tab' = [tab EXCEPT ![t].pc = "hash", ![t].tx = n]
  BY DEF Confirm
<1>3. tab' = [tab EXCEPT ![t] = q]
  BY <1>1, <1>2
<1>4. tx \in Txs
  <2>1. Amount(r, r.job) \in Nat
    BY <1>1 DEF Amount, Rows
  <2>2. r.flow \in WriterFlows /\ r.job \in Jobs
    BY <1>1 DEF Place, Rows, FlowsOf, WriterFlows
  <2> QED
    BY <1>1, <2>1, <2>2 DEF Txs, Rows
<1>5. /\ tx.flow = r.flow /\ tx.job = r.job /\ tx.key = r.key /\ tx.status = "sent"
      /\ tx.amount = Amount(r, r.job)
  OBVIOUS
<1>6. n \in Nat
  BY <1>1
<1>7. /\ q \in Rows /\ q.page = r.page /\ q.pc = "hash" /\ q.flow = r.flow /\ q.key = r.key
      /\ q.topUp = r.topUp /\ q.deposit = r.deposit /\ q.job = r.job /\ q.tx = n
      /\ q.result = r.result
  BY <1>1, <1>6 DEF Rows
<1> HIDE DEF tx, q
<1>8. /\ pool' \in Seq(Txs) /\ DOMAIN pool' = DOMAIN pool \union {n} /\ pool'[n] = tx
      /\ n \notin DOMAIN pool /\ \A i \in DOMAIN pool : pool'[i] = pool[i]
  BY <1>1, <1>2, <1>4
<1> HIDE DEF n
<1>9. Takes(t, q) /\ Grows(pool, pool')
  BY <1>3, <1>7, <1>8 DEF Takes, Grows
<1>10. RowSound(q, pool')
  <2>1. Place(q)
    BY <1>1, <1>7 DEF Place
  <2>2. SentIn(q, pool')
    BY <1>5, <1>7, <1>8 DEF SentIn, Amount
  <2>3. q.result # 0 => RealIn(q, pool')
    BY <1>1, <1>7, <1>8 DEF RowSound, RealIn
  <2> QED
    BY <1>7, <2>1, <2>2, <2>3 DEF RowSound
<1>11. WriterSound'
  <2>1. /\ storage' \in [0..LastHour -> Nat]
        /\ \A h \in 0..LastHour : storage'[h] # 0 => SavedIn(storage'[h], h, pool')
    BY <1>2, <1>8 DEF WriterInv, WriterSound, WriterTypes, SavedIn
  <2>2. WriterSound /\ q.key <= hour /\ chain' \in Chains /\ UNCHANGED hour
    BY <1>1, <1>2, <1>7 DEF WriterInv
  <2> QED
    BY <1>8, <1>9, <1>10, <2>1, <2>2, SoundStep
<1>12. ASSUME OnceKept(r, hour, storage, chain, pool)
       PROVE  OnceKept(q, hour', storage', chain', pool')
  <2> SUFFICES ASSUME hour = 0, "hash" \notin ReloadAt
               PROVE  SavesOnce(q, storage) /\ CreatedOnce(Current(q, storage), chain, pool')
    BY <1>2 DEF OnceKept
  <2>1. SavesOnce(r, storage) /\ CreatedOnce(storage[0], chain, pool)
    BY <1>1, <1>12 DEF OnceKept, Current
  <2>2. SavesOnce(q, storage)
    BY <1>1, <1>7, <2>1 DEF SavesOnce
  <2>3. CASE Creates(r.flow, r.job)
    <3>1. storage[0] = 0 /\ Current(q, storage) = n
      BY <1>1, <1>7, <2>1, <2>3 DEF SavesOnce, Current
    <3>2. 0 \notin DOMAIN pool
      BY <1>1
    <3> QED
      BY <1>5, <1>8, <2>1, <2>2, <3>1, <3>2 DEF CreatedOnce
  <2>4. CASE ~Creates(r.flow, r.job)
    <3>1. Current(q, storage) = storage[0]
      BY <1>7, <2>4 DEF Current
    <3> QED
      BY <1>5, <1>8, <2>1, <2>2, <2>4, <3>1 DEF CreatedOnce
  <2> QED
    BY <2>3, <2>4
<1>13. ASSUME FundKept(r, chain, pool) PROVE FundKept(q, chain', pool')
  <2> SUFFICES ASSUME r.page = "pairs", ~chain.lost
               PROVE  /\ \A i \in DOMAIN pool' :
                            pool'[i].job = "fund" /\ pool'[i].status = "sent" =>
                              AwaitsFund(q) /\ i = q.tx
                      /\ chain.free <= Ceiling(chain)
                      /\ Funding(q, pool') => chain.free + q.deposit <= Ceiling(chain)
    BY <1>2, <1>7 DEF FundKept
  <2>1. /\ \A i \in DOMAIN pool : ~(pool[i].job = "fund" /\ pool[i].status = "sent")
        /\ chain.free <= Ceiling(chain)
        /\ Funding(r, pool) => chain.free + r.deposit <= Ceiling(chain)
    BY <1>1, <1>13 DEF FundKept, AwaitsFund
  <2>2. Funding(q, pool') => Funding(r, pool)
    BY <1>1, <1>7 DEF Funding, AwaitsFund
  <2>3. r.job = "fund" => AwaitsFund(q)
    BY <1>7 DEF AwaitsFund
  <2> QED
    BY <1>5, <1>7, <1>8, <2>1, <2>2, <2>3
<1> QED
  BY <1>1, <1>9, <1>11, <1>12, <1>13, BusyStep

LEMMA HashStep ==
    ASSUME WriterInv, NEW t \in Tabs, Hash(t)
    PROVE  WriterInv'
<1> DEFINE r == tab[t]
           s == ReportPhase(r.steps, StepKey(r.flow, r.job), "pending")
           q == [r EXCEPT !.pc = "await", !.steps = s]
<1>1. /\ r \in Rows /\ RowSound(r, pool) /\ Place(r) /\ r.pc = "hash" /\ chain \in Chains
      /\ r.key <= hour /\ tab \in [Tabs -> Rows] /\ SentIn(r, pool) /\ r.tx \in Nat
      /\ r.key \in 0..LastHour /\ hour \in Nat /\ WriterTypes
  <2>1. /\ r \in Rows /\ RowSound(r, pool) /\ Place(r) /\ chain \in Chains /\ r.key <= hour
        /\ WriterTypes /\ r.pc = "hash"
    BY RowOf DEF Hash
  <2>2. tab \in [Tabs -> Rows] /\ hour \in Nat
    BY WriterBounds, <2>1 DEF WriterTypes
  <2>3. SentIn(r, pool)
    BY <2>1 DEF RowSound
  <2>4. r.tx \in Nat /\ r.key \in 0..LastHour
    BY <2>1 DEF Rows
  <2> QED
    BY <2>1, <2>2, <2>3, <2>4
<1>2. /\ storage' = IF Creates(r.flow, r.job) THEN [storage EXCEPT ![r.key] = r.tx] ELSE storage
      /\ tab' = [tab EXCEPT ![t].pc = "await",
                            ![t].steps = ReportPhase(@, StepKey(r.flow, r.job), "pending")]
      /\ UNCHANGED <<hour, chain, pool>>
  BY DEF Hash
<1>3. tab' = [tab EXCEPT ![t] = q]
  BY <1>1, <1>2 DEF Rows
<1>4. s \in StepLists
  BY <1>1, StepsStay DEF Rows, StepPhases
<1> HIDE DEF s
<1>5. /\ q \in Rows /\ q.page = r.page /\ q.pc = "await" /\ q.flow = r.flow /\ q.key = r.key
      /\ q.topUp = r.topUp /\ q.deposit = r.deposit /\ q.job = r.job /\ q.tx = r.tx
      /\ q.result = r.result
  BY <1>1, <1>4 DEF Rows
<1> HIDE DEF q
<1>6. Takes(t, q)
  BY <1>3, <1>5 DEF Takes
<1>7. RowSound(q, pool)
  BY <1>1, <1>5 DEF RowSound, Place, SentIn, RealIn, Amount
<1>8. storage \in [0..LastHour -> Nat] /\ \A h \in 0..LastHour : storage[h] # 0 => SavedIn(storage[h], h, pool)
  BY DEF WriterInv, WriterSound, WriterTypes
<1>9. /\ storage' \in [0..LastHour -> Nat]
      /\ \A h \in 0..LastHour : storage'[h] # 0 => SavedIn(storage'[h], h, pool)
      /\ Creates(r.flow, r.job) => storage'[r.key] = r.tx
      /\ ~Creates(r.flow, r.job) => storage' = storage
  <2>1. Creates(r.flow, r.job) => SavedIn(r.tx, r.key, pool)
    BY <1>1 DEF SavedIn, SentIn
  <2>2. CASE Creates(r.flow, r.job)
    BY <1>1, <1>2, <1>8, <2>1, <2>2
  <2>3. CASE ~Creates(r.flow, r.job)
    BY <1>2, <1>8, <2>3
  <2> QED
    BY <2>2, <2>3
<1>10. WriterSound'
  <2>1. /\ pool' \in Seq(Txs) /\ Grows(pool, pool') /\ RowSound(q, pool') /\ chain' \in Chains
        /\ \A h \in 0..LastHour : storage'[h] # 0 => SavedIn(storage'[h], h, pool')
    BY <1>1, <1>2, <1>7, <1>9, GrowsNot DEF WriterTypes
  <2>2. WriterSound /\ q.key <= hour /\ UNCHANGED hour
    BY <1>1, <1>2, <1>5 DEF WriterInv
  <2> QED
    BY <1>6, <1>9, <2>1, <2>2, SoundStep
<1>11. ASSUME OnceKept(r, hour, storage, chain, pool)
       PROVE  OnceKept(q, hour', storage', chain', pool')
  <2> SUFFICES ASSUME hour = 0, "hash" \notin ReloadAt
               PROVE  SavesOnce(q, storage') /\ CreatedOnce(Current(q, storage'), chain, pool)
    BY <1>2 DEF OnceKept
  <2>1. CreatedOnce(Current(r, storage), chain, pool) /\ r.key = 0
    BY <1>1, <1>11 DEF OnceKept
  <2>2. SavesOnce(q, storage')
    BY <1>5, <1>9, <2>1 DEF SavesOnce
  <2>3. Current(q, storage') = Current(r, storage)
    BY <1>1, <1>5, <1>9, <2>1 DEF Current
  <2> QED
    BY <2>1, <2>2, <2>3
<1>12. ASSUME FundKept(r, chain, pool) PROVE FundKept(q, chain', pool')
  BY <1>1, <1>2, <1>5, <1>12 DEF FundKept, Funding, AwaitsFund
<1> QED
  BY <1>1, <1>6, <1>10, <1>11, <1>12, BusyStep

-----------------------------------------------------------------------------
(* The chain and the clock *)

\* What becomes of a transaction is seen by no tab, nor by the storage.
LEMMA PoolStep ==
    ASSUME WriterInv, UNCHANGED <<hour, storage, tab>>,
           NEW i \in DOMAIN pool, pool[i].status = "sent",
           NEW status \in {"mined", "reverted", "dropped"},
           pool' = [pool EXCEPT ![i].status = status],
           chain' \in Chains, chain'.shown = chain.shown, chain'.opened = chain.opened,
           chain'.lost = chain.lost,
           chain'.made = chain.made
              + (IF status = "mined" /\ Creates(pool[i].flow, pool[i].job) THEN 1 ELSE 0),
           \/ chain'.free <= chain.free
           \/ /\ chain'.free = chain.free + pool[i].amount
              /\ status = "mined" /\ pool[i].job = "fund"
    PROVE  WriterInv'
<1>1. WriterTypes /\ WriterSound /\ Need \in Nat /\ chain \in Chains
      /\ pool \in Seq(Txs) /\ i \in DOMAIN pool /\ pool[i] \in Txs
  BY WriterBounds DEF WriterInv, WriterSound, WriterTypes
<1> DEFINE tx == [pool[i] EXCEPT !.status = status]
<1>2. /\ tx \in Txs /\ tx.flow = pool[i].flow /\ tx.job = pool[i].job /\ tx.key = pool[i].key
      /\ tx.amount = pool[i].amount /\ tx.status = status
  BY <1>1 DEF Txs
<1>3. pool' = [pool EXCEPT ![i] = tx]
  BY <1>1
<1> HIDE DEF tx
<1>4. /\ pool' \in Seq(Txs) /\ DOMAIN pool' = DOMAIN pool /\ pool'[i] = tx
      /\ \A j \in DOMAIN pool : j # i => pool'[j] = pool[j]
  BY <1>1, <1>2, <1>3
<1>5. /\ Grows(pool, pool')
      /\ \A j \in DOMAIN pool : /\ pool'[j].flow = pool[j].flow /\ pool'[j].job = pool[j].job
                                /\ pool'[j].status = "sent" => pool[j].status = "sent" /\ j # i
  BY <1>2, <1>4 DEF Grows
<1>6. WriterSound'
  <2>1. \A t \in Tabs : RowSound(tab[t], pool') /\ tab[t].key <= hour
    BY <1>1, <1>5, RowSoundLater DEF WriterSound
  <2>2. \A h \in 0..LastHour : storage[h] # 0 => SavedIn(storage[h], h, pool')
    BY <1>1, <1>5 DEF WriterSound, SavedIn, Grows
  <2>3. WriterTypes'
    BY <1>1, <1>4 DEF WriterTypes
  <2> QED
    BY <2>1, <2>2, <2>3 DEF WriterSound
<1>7. ASSUME NEW w \in Tabs, Open = {w}, OnceKept(tab[w], hour, storage, chain, pool)
      PROVE  OnceKept(tab[w], hour, storage, chain', pool')
  <2> DEFINE cur == Current(tab[w], storage)
  <2> SUFFICES ASSUME hour = 0, "hash" \notin ReloadAt
               PROVE  SavesOnce(tab[w], storage) /\ CreatedOnce(cur, chain', pool')
    BY DEF OnceKept
  <2>1. SavesOnce(tab[w], storage) /\ CreatedOnce(cur, chain, pool)
    BY <1>7 DEF OnceKept
  <2>2. cur \in DOMAIN pool => Creates(pool[cur].flow, pool[cur].job)
    <3>1. RowSound(tab[w], pool) /\ 0 \in 0..LastHour
      BY WriterBounds, <1>1 DEF WriterSound, WriterTypes
    <3>2. 0 \notin DOMAIN pool
      BY <1>1
    <3>3. storage[0] # 0 => SavedIn(storage[0], 0, pool)
      BY <1>1, <3>1 DEF WriterSound
    <3>4. CASE tab[w].pc = "hash" /\ Creates(tab[w].flow, tab[w].job)
      BY <3>1, <3>4 DEF Current, RowSound, SentIn
    <3>5. CASE ~(tab[w].pc = "hash" /\ Creates(tab[w].flow, tab[w].job))
      BY <3>2, <3>3, <3>5 DEF Current, SavedIn
    <3> QED
      BY <3>4, <3>5
  <2> HIDE DEF cur
  <2>3. \A j \in DOMAIN pool' :
           Creates(pool'[j].flow, pool'[j].job) /\ pool'[j].status = "sent" => j = cur
    BY <1>4, <1>5, <2>1 DEF CreatedOnce
  <2>4. chain.made \in Nat /\ chain.shown \in Nat
    BY <1>1 DEF Chains
  <2>5. CASE i = cur
    <3>1. cur \in DOMAIN pool' /\ pool'[cur].status = status /\ pool[cur].status = "sent"
      BY <1>2, <1>4, <2>5
    <3>2. chain.made = chain.shown
      BY <2>1, <2>4, <3>1 DEF CreatedOnce
    <3>3. chain'.made = chain'.shown + (IF status = "mined" THEN 1 ELSE 0)
      BY <2>2, <2>4, <2>5, <3>2
    <3> QED
      BY <2>1, <2>3, <3>1, <3>3 DEF CreatedOnce
  <2>6. CASE i # cur
    <3>1. ~Creates(pool[i].flow, pool[i].job)
      BY <2>1, <2>6 DEF CreatedOnce
    <3>2. cur \in DOMAIN pool => pool'[cur] = pool[cur]
      BY <1>4, <2>6
    <3>3. chain'.made = chain.made /\ chain'.shown = chain.shown
      BY <2>4, <3>1
    <3>4. /\ cur \in DOMAIN pool' <=> cur \in DOMAIN pool
          /\ cur \in DOMAIN pool => pool'[cur].status = pool[cur].status
      BY <1>4, <3>2
    <3> QED
      BY <2>1, <2>3, <3>3, <3>4 DEF CreatedOnce
  <2> QED
    BY <2>5, <2>6
<1>8. ASSUME NEW w \in Tabs, Open = {w}, FundKept(tab[w], chain, pool)
      PROVE  FundKept(tab[w], chain', pool')
  <2> DEFINE r == tab[w]
  <2> SUFFICES ASSUME r.page = "pairs", ~chain.lost
               PROVE  /\ \A j \in DOMAIN pool' :
                            pool'[j].job = "fund" /\ pool'[j].status = "sent" =>
                              AwaitsFund(r) /\ j = r.tx
                      /\ chain'.free <= Ceiling(chain')
                      /\ Funding(r, pool') => chain'.free + r.deposit <= Ceiling(chain')
    BY DEF FundKept
  <2>1. /\ \A j \in DOMAIN pool :
              pool[j].job = "fund" /\ pool[j].status = "sent" => AwaitsFund(r) /\ j = r.tx
        /\ chain.free <= Ceiling(chain)
        /\ Funding(r, pool) => chain.free + r.deposit <= Ceiling(chain)
    BY <1>8 DEF FundKept
  <2>2. /\ chain.free \in Nat /\ chain'.free \in Nat /\ Ceiling(chain) \in Nat
        /\ Ceiling(chain') = Ceiling(chain) /\ r.deposit \in Nat /\ pool[i].amount \in Nat
    <3>1. Ceiling(chain) \in Nat
      BY <1>1, CeilingIs
    <3>2. r \in Rows
      BY <1>1 DEF WriterTypes
    <3> QED
      BY <1>1, <3>1, <3>2 DEF Chains, Rows, Txs, Ceiling
  <2>3. \A j \in DOMAIN pool' :
           pool'[j].job = "fund" /\ pool'[j].status = "sent" => AwaitsFund(r) /\ j = r.tx
    BY <1>4, <1>5, <2>1
  <2>4. RowSound(r, pool)
    BY <1>1 DEF WriterSound
  <2>5. Funding(r, pool') => Funding(r, pool)
    BY <1>5, <2>4 DEF Funding, AwaitsFund, RowSound, SentIn
  <2>6. CASE chain'.free <= chain.free
    BY <2>1, <2>2, <2>3, <2>5, <2>6
  <2>7. CASE ~(chain'.free <= chain.free)
    <3>1. /\ chain'.free = chain.free + pool[i].amount /\ status = "mined"
          /\ pool[i].job = "fund"
      BY <2>7
    <3>2. AwaitsFund(r) /\ i = r.tx /\ Funding(r, pool)
      BY <2>1, <3>1 DEF Funding
    <3>3. pool[i].amount = r.deposit
      BY <2>4, <3>1, <3>2 DEF RowSound, AwaitsFund, SentIn, Amount
    <3>4. ~Funding(r, pool')
      BY <1>2, <1>4, <3>1, <3>2 DEF Funding, AwaitsFund
    <3> QED
      BY <2>1, <2>2, <2>3, <3>1, <3>2, <3>3, <3>4
  <2> QED
    BY <2>6, <2>7
<1>9. Open' = Open
  BY DEF Open
<1> QED
  BY <1>6, <1>7, <1>8, <1>9 DEF WriterInv

LEMMA MinedStep ==
    ASSUME WriterInv, NEW i \in DOMAIN pool, Mine(i)
    PROVE  WriterInv'
<1> DEFINE tx == pool[i]
<1>1. /\ pool \in Seq(Txs) /\ tx \in Txs /\ chain \in Chains
      /\ tx.status = "sent" /\ tx.amount \in Nat /\ tx.job \in Jobs
  <2>1. pool \in Seq(Txs) /\ tx \in Txs /\ chain \in Chains
    BY DEF WriterInv, WriterSound, WriterTypes
  <2>2. tx.status = "sent"
    BY DEF Mine, Turn, InPool
  <2> HIDE DEF tx
  <2> QED
    BY <2>1, <2>2 DEF Txs
<1>2. /\ Succeeds(chain, tx.flow, tx.job, tx.amount) /\ chain' = Apply(chain, tx)
      /\ pool' = [pool EXCEPT ![i].status = "mined"] /\ UNCHANGED <<hour, storage, tab>>
  BY DEF Mine
<1> HIDE DEF tx
<1>3. /\ chain' \in Chains /\ chain'.shown = chain.shown /\ chain'.opened = chain.opened
      /\ chain'.lost = chain.lost
      /\ chain'.made = chain.made + (IF Creates(tx.flow, tx.job) THEN 1 ELSE 0)
      /\ \/ chain'.free <= chain.free
         \/ chain'.free = chain.free + tx.amount /\ tx.job = "fund"
  <2>1. /\ chain.free \in Nat /\ chain.allowed \in Nat /\ chain.made \in Nat
    BY <1>1 DEF Chains
  <2>2. CASE tx.job = "vault"
    <3>1. chain' = [chain EXCEPT !.vault = TRUE] /\ ~Creates(tx.flow, tx.job)
      BY <1>2, <2>2 DEF Apply, Spends, Creates
    <3>2. /\ chain' \in Chains /\ chain'.shown = chain.shown /\ chain'.opened = chain.opened
          /\ chain'.lost = chain.lost /\ chain'.made = chain.made /\ chain'.free = chain.free
      BY <1>1, <3>1 DEF Chains
    <3> QED
      BY <2>1, <3>1, <3>2
  <2>3. CASE tx.job = "approve"
    <3>1. chain' = [chain EXCEPT !.allowed = tx.amount] /\ ~Creates(tx.flow, tx.job)
      BY <1>2, <2>3 DEF Apply, Spends, Creates
    <3> QED
      BY SMTT(30), <1>1, <2>1, <3>1 DEF Chains
  <2>4. CASE tx.job = "fund"
    <3>1. /\ chain' = [chain EXCEPT !.allowed = @ - tx.amount, !.free = @ + tx.amount]
          /\ ~Creates(tx.flow, tx.job) /\ chain.allowed >= tx.amount
      BY <1>2, <2>4 DEF Apply, Spends, Creates, Succeeds
    <3>2. chain.allowed - tx.amount \in Nat /\ chain.free + tx.amount \in Nat
      BY <1>1, <2>1, <3>1
    <3>3. /\ chain' \in Chains /\ chain'.shown = chain.shown /\ chain'.opened = chain.opened
          /\ chain'.lost = chain.lost /\ chain'.made = chain.made
          /\ chain'.free = chain.free + tx.amount
      BY <1>1, <3>1, <3>2 DEF Chains
    <3> QED
      BY <2>1, <2>4, <3>1, <3>3
  <2>5. CASE Spends(tx.flow, tx.job)
    <3>1. /\ chain' = [chain EXCEPT !.free = @ - tx.amount]
          /\ ~Creates(tx.flow, tx.job) /\ chain.free >= tx.amount
      BY <1>2, <2>5 DEF Apply, Spends, Creates, Succeeds
    <3>2. chain.free - tx.amount \in Nat
      BY <1>1, <2>1, <3>1
    <3>3. /\ chain' \in Chains /\ chain'.shown = chain.shown /\ chain'.opened = chain.opened
          /\ chain'.lost = chain.lost /\ chain'.made = chain.made
          /\ chain'.free = chain.free - tx.amount
      BY <1>1, <3>1, <3>2 DEF Chains
    <3> QED
      BY <1>1, <2>1, <3>1, <3>3
  <2>6. CASE Creates(tx.flow, tx.job)
    <3>1. chain' = [chain EXCEPT !.made = @ + 1]
      BY <1>2, <2>6 DEF Apply, Spends, Creates
    <3> QED
      BY SMTT(30), <1>1, <2>1, <2>6, <3>1 DEF Chains
  <2>7. CASE tx.job = "create" /\ ~Spends(tx.flow, tx.job) /\ ~Creates(tx.flow, tx.job)
    <3>1. chain' = chain
      BY <1>2, <2>7 DEF Apply
    <3> QED
      BY <1>1, <2>1, <2>7, <3>1
  <2> QED
    BY <1>1, <2>2, <2>3, <2>4, <2>5, <2>6, <2>7 DEF Jobs
<1> QED
  BY <1>1, <1>2, <1>3, PoolStep DEF tx

LEMMA LostTxStep ==
    ASSUME WriterInv, NEW i \in DOMAIN pool, Revert(i) \/ Drop(i)
    PROVE  WriterInv'
<1>1. /\ pool[i].status = "sent" /\ UNCHANGED <<hour, chain, storage, tab>>
      /\ \/ pool' = [pool EXCEPT ![i].status = "reverted"]
         \/ pool' = [pool EXCEPT ![i].status = "dropped"]
  BY DEF Revert, Drop, Turn, InPool
<1>2. chain \in Chains /\ chain.free \in Nat /\ chain.made \in Nat
  BY DEF WriterInv, WriterSound, WriterTypes, Chains
<1>3. /\ chain' \in Chains /\ chain'.shown = chain.shown /\ chain'.opened = chain.opened
      /\ chain'.lost = chain.lost /\ chain'.free <= chain.free
      /\ chain'.made = chain.made + 0
  BY <1>1, <1>2
<1>4. CASE pool' = [pool EXCEPT ![i].status = "reverted"]
  BY <1>1, <1>3, <1>4, PoolStep
<1>5. CASE pool' = [pool EXCEPT ![i].status = "dropped"]
  BY <1>1, <1>3, <1>5, PoolStep
<1> QED
  BY <1>1, <1>4, <1>5

\* From the next hour on, the form derives other terms.
LEMMA NextHourStep ==
    ASSUME WriterInv, NextHour
    PROVE  WriterInv'
<1>1. /\ hour \in 0..LastHour /\ hour' = hour + 1 /\ hour < LastHour /\ LastHour \in Nat
      /\ UNCHANGED <<chain, pool, storage, tab>>
  BY WriterBounds DEF WriterInv, WriterSound, WriterTypes, NextHour, Later
<1>2. hour' \in 0..LastHour /\ hour' # 0 /\ hour <= hour'
  BY <1>1
<1>3. WriterSound'
  <2>1. WriterTypes'
    BY <1>1, <1>2 DEF WriterInv, WriterSound, WriterTypes
  <2>2. ASSUME NEW t \in Tabs PROVE RowSound(tab[t], pool) /\ tab[t].key <= hour'
    <3>1. RowSound(tab[t], pool) /\ tab[t].key <= hour /\ tab[t].key \in 0..LastHour
      BY RowOf DEF Rows
    <3> QED
      BY <1>1, <1>2, <3>1
  <2> QED
    BY <1>1, <2>1, <2>2 DEF WriterInv, WriterSound
<1>4. ASSUME NEW w \in Tabs, Open = {w}
      PROVE  OnceKept(tab[w], hour', storage, chain, pool) /\ FundKept(tab[w], chain, pool)
  BY <1>2, <1>4 DEF OnceKept, WriterInv
<1>5. Open' = Open
  BY <1>1 DEF Open
<1> QED
  BY <1>1, <1>3, <1>4, <1>5 DEF WriterInv

-----------------------------------------------------------------------------
(* The theorems *)

LEMMA WriterInitSound ==
    ASSUME WriterInit
    PROVE  WriterInv
<1>1. /\ hour = 0 /\ pool = << >> /\ storage = [h \in 0..LastHour |-> 0]
      /\ LastHour \in Nat /\ Need \in Nat
  BY WriterBounds DEF WriterInit
<1>2. /\ chain \in Chains /\ chain.made = 0 /\ chain.shown = 0 /\ chain.free = chain.opened
      /\ chain.lost = FALSE
  <2>1. /\ chain \in [vault : BOOLEAN, free : 0..Need, allowed : {0},
                      made : {0}, shown : {0}, lost : {FALSE}, opened : 0..Need]
        /\ chain.opened = chain.free
    BY DEF WriterInit
  <2>2. 0..Need \subseteq Nat /\ 0 \in Nat /\ FALSE \in BOOLEAN
    BY <1>1
  <2>3. /\ chain.made = 0 /\ chain.shown = 0 /\ chain.lost = FALSE /\ chain.allowed = 0
        /\ chain.vault \in BOOLEAN /\ chain.free \in Nat /\ chain.opened \in Nat
    BY <2>1, <2>2
  <2>4. chain = [vault |-> chain.vault, free |-> chain.free, allowed |-> chain.allowed,
                 made |-> chain.made, shown |-> chain.shown, lost |-> chain.lost,
                 opened |-> chain.opened]
    BY <2>1
  <2>5. chain \in Chains
    BY <2>2, <2>3, <2>4 DEF Chains
  <2> QED
    BY <2>1, <2>3, <2>5
<1>3. PICK start \in [Tabs -> {"none", "write", "vault", "pairs"}] :
         tab = [t \in Tabs |-> NoTab(start[t], 0)]
  <2>1. PICK s \in Sessions : tab = [t \in Tabs |-> NoTab(s.page[t], 0)]
    BY DEF WriterInit
  <2>2. s.page \in [Tabs -> {"none", "write", "vault", "pairs"}]
    BY SessionsKnown
  <2> QED
    BY <2>1, <2>2
<1>4. ASSUME NEW t \in Tabs
      PROVE  /\ tab[t] \in Rows /\ tab[t].pc = "idle" /\ tab[t].result = 0 /\ tab[t].flow = "none"
             /\ tab[t].key = 0
  <2>1. tab[t] = NoTab(start[t], 0) /\ start[t] \in {"none", "write", "vault", "pairs"}
    BY <1>3
  <2>2. << >> \in StepLists /\ 0 \in 0..LastHour
    BY <1>1 DEF StepLists
  <2> QED
    BY <2>1, <2>2 DEF NoTab, Rows
<1>5. tab \in [Tabs -> Rows]
  BY <1>3, <1>4
<1>6. WriterSound
  <2>1. pool \in Seq(Txs) /\ hour \in 0..LastHour /\ storage \in [0..LastHour -> Nat]
    BY <1>1
  <2>2. WriterTypes
    BY <1>2, <1>5, <2>1 DEF WriterTypes
  <2>3. \A t \in Tabs : RowSound(tab[t], pool) /\ tab[t].key <= hour
    BY <1>1, <1>4 DEF RowSound, Place
  <2>4. \A h \in 0..LastHour : storage[h] = 0
    BY <1>1
  <2> QED
    BY <2>2, <2>3, <2>4 DEF WriterSound
<1>7. ASSUME NEW w \in Tabs
      PROVE  OnceKept(tab[w], hour, storage, chain, pool) /\ FundKept(tab[w], chain, pool)
  <2>1. DOMAIN pool = {}
    BY <1>1
  <2>2. tab[w].pc = "idle"
    BY <1>4
  <2>3. SavesOnce(tab[w], storage)
    BY <2>2 DEF SavesOnce
  <2>4. CreatedOnce(Current(tab[w], storage), chain, pool)
    BY <1>2, <2>1 DEF CreatedOnce
  <2>5. chain.free <= Ceiling(chain)
    BY <1>1, <1>2, CeilingIs
  <2>6. ~Funding(tab[w], pool)
    BY <2>2 DEF Funding, AwaitsFund
  <2> QED
    BY <2>1, <2>3, <2>4, <2>5, <2>6 DEF OnceKept, FundKept
<1> QED
  BY <1>6, <1>7 DEF WriterInv

LEMMA WriterNextSound ==
    ASSUME WriterInv, [WriterNext]_writerVars
    PROVE  WriterInv'
<1>1. CASE UNCHANGED writerVars
  BY <1>1 DEF writerVars, Open, WriterInv, WriterSound, WriterTypes
<1>2. ASSUME NEW t \in Tabs,
             \/ SubmitSeries(t) \/ SubmitGroup(t) \/ SubmitAllocate(t)
             \/ SubmitDeposit(t) \/ SubmitWithdraw(t)
      PROVE  WriterInv'
  BY <1>2, SubmitSeriesStep, SubmitGroupStep, SubmitAllocateStep, SubmitDepositStep,
     SubmitWithdrawStep
<1>3. ASSUME NEW t \in Tabs,
             \/ ReadVault(t) \/ ReadFree(t) \/ EnsureAllowance(t)
             \/ Simulate(t) \/ Hash(t) \/ Await(t)
             \/ LoadCheckpoint(t) \/ Recover(t)
      PROVE  WriterInv'
  BY <1>3, ReadVaultStep, ReadFreeStep, AllowStep, SimulateStep, HashStep, ReceiptStep,
     LoadCheckpointStep, RecoverStep
<1>4. ASSUME NEW t \in Tabs,
             \/ Confirm(t) \/ RejectPrompt(t) \/ GiveUp(t)
             \/ Refetch(t) \/ Reload(t)
      PROVE  WriterInv'
  BY <1>4, ConfirmStep, RejectStep, GiveUpStep, RefetchStep, ReloadStep
<1>5. CASE NextHour
  BY <1>5, NextHourStep
<1>6. ASSUME NEW i \in DOMAIN pool, Mine(i) \/ Revert(i) \/ Drop(i)
      PROVE  WriterInv'
  BY <1>6, MinedStep, LostTxStep
<1> QED
  BY <1>1, <1>2, <1>3, <1>4, <1>5, <1>6 DEF WriterNext

LEMMA WriterInvariant == WriterSpec => []WriterInv
<1>1. WriterInit => WriterInv
  BY WriterInitSound
<1>2. WriterInv /\ [WriterNext]_writerVars => WriterInv'
  BY WriterNextSound
<1> QED
  BY <1>1, <1>2, PTL DEF WriterSpec

\* The series a flow announces was mined, under the terms of that flow,
\* whatever the other tabs of the writer save or clear of the checkpoint
\* meanwhile (tx.ts, runCreateSeries): for any number of tabs, wherever they
\* are reloaded.
THEOREM RealTheorem == WriterSpec => []ResultIsReal
<1>1. WriterInv => ResultIsReal
  BY DEF WriterInv, WriterSound, RowSound, RealIn, ResultIsReal
<1> QED
  BY <1>1, WriterInvariant, PTL

\* One open tab, as the properties count it.
LEMMA OpenTab ==
    ASSUME IsFiniteSet(Tabs), Cardinality(Open) = 1
    PROVE  \E w \in Tabs : Open = {w}
<1>1. Open \subseteq Tabs
  BY DEF Open
<1>2. IsFiniteSet(Open)
  BY <1>1, FS_Subset
<1>3. \E w : Open = {w}
  BY <1>2, FS_Singleton
<1> QED
  BY <1>1, <1>3

\* The checkpoint resumes a creation and never repeats it (tx.ts, the
\* checkpoint of the create flow): with one tab open and while the form
\* derives the same start hour, at most one mined series is not shown yet.
\* Where a tab may be reloaded between the wallet's broadcast and the hash
\* reaching the page nothing is saved, and this does not hold.
THEOREM OnceTheorem ==
    ASSUME IsFiniteSet(Tabs), "hash" \notin ReloadAt
    PROVE  WriterSpec => []ResumesNotRepeats
<1>1. WriterInv => ResumesNotRepeats
  <2> SUFFICES ASSUME WriterInv, hour = 0, Cardinality(Open) = 1
               PROVE  chain.made <= chain.shown + 1
    BY DEF ResumesNotRepeats, NoSecondSeries
  <2>1. PICK w \in Tabs : Open = {w}
    BY OpenTab
  <2>2. CreatedOnce(Current(tab[w], storage), chain, pool)
    BY <2>1 DEF WriterInv, OnceKept
  <2>3. chain.made \in Nat /\ chain.shown \in Nat
    BY DEF WriterInv, WriterSound, WriterTypes, Chains
  <2> QED
    BY <2>2, <2>3 DEF CreatedOnce
<1> QED
  BY <1>1, WriterInvariant, PTL

\* The pair flows pull only the collateral that is missing (tx.ts,
\* runCreateGroup, runAllocateExitBuffer), however often they fail and are
\* started again in one tab and wherever it is reloaded, unless the page
\* stopped waiting for a deposit that was still pending.
THEOREM ShortfallTheorem ==
    ASSUME IsFiniteSet(Tabs)
    PROVE  WriterSpec => []OnlyShortfallPulled
<1>1. WriterInv => OnlyShortfallPulled
  <2> SUFFICES ASSUME WriterInv, Cardinality(Open) = 1, ~chain.lost,
                      \A t \in Open : tab[t].page = "pairs"
               PROVE  chain.free <= Ceiling(chain)
    BY DEF OnlyShortfallPulled, Ceiling
  <2>1. PICK w \in Tabs : Open = {w}
    BY OpenTab
  <2> QED
    BY <2>1 DEF WriterInv, FundKept
<1> QED
  BY <1>1, WriterInvariant, PTL

-----------------------------------------------------------------------------
(***************************************************************************)
(* The writing pages.  Arithmetic first.                                   *)
(***************************************************************************)

LEMMA ProductNat ==
    ASSUME NEW a \in Nat, NEW b \in Nat
    PROVE  a * b \in Nat /\ (a > 0 /\ b > 0 => a * b > 0)
  OBVIOUS

\* What a quotient is at most, and at least.
LEMMA DivAtMost ==
    ASSUME NEW a \in Nat, NEW b \in Nat, b > 0, NEW k \in Nat, a < (k + 1) * b
    PROVE  a \div b <= k
<1> DEFINE q == a \div b
<1>1. q \in Nat /\ q * b <= a
  BY DivBounds
<1> HIDE DEF q
<1> SUFFICES ASSUME k + 1 <= q PROVE FALSE
  BY <1>1 DEF q
<1>2. (k + 1) * b <= q * b
  BY <1>1, TimesMonotone
<1>3. (k + 1) * b \in Nat /\ q * b \in Nat
  BY <1>1, ProductNat
<1> QED
  BY <1>1, <1>2, <1>3

LEMMA DivAtLeast ==
    ASSUME NEW a \in Nat, NEW b \in Nat, b > 0, NEW k \in Nat, k * b <= a
    PROVE  k <= a \div b
<1> DEFINE q == a \div b
<1>1. q \in Nat /\ a < q * b + b
  BY DivBounds
<1> HIDE DEF q
<1> SUFFICES ASSUME q + 1 <= k PROVE FALSE
  BY <1>1 DEF q
<1>2. (q + 1) * b <= k * b
  BY <1>1, TimesMonotone
<1>3. (q + 1) * b = q * b + b /\ q * b \in Nat /\ k * b \in Nat
  BY <1>1, ProductNat
<1> QED
  BY <1>1, <1>2, <1>3

\* A quotient rounded up.
LEMMA CeilBounds ==
    ASSUME NEW a \in Nat, NEW b \in Nat, b > 0
    PROVE  /\ CeilDiv(a, b) \in Nat
           /\ a <= CeilDiv(a, b) * b
           /\ CeilDiv(a, b) * b < a + b
           /\ a > 0 => CeilDiv(a, b) > 0
<1> DEFINE x == a + b - 1
           q == x \div b
<1>1. x \in Nat
  OBVIOUS
<1> HIDE DEF x
<1>2. q \in Nat /\ q * b <= x /\ x < q * b + b
  BY <1>1, DivBounds
<1>3. q * b \in Nat /\ (q = 0 => q * b = 0)
  BY <1>2, ProductNat
<1>4. CeilDiv(a, b) = q
  BY DEF CeilDiv, x
<1> HIDE DEF q
<1> QED
  BY <1>2, <1>3, <1>4 DEF x

LEMMA CeilAtMost ==
    ASSUME NEW a \in Nat, NEW b \in Nat, b > 0, NEW k \in Nat, a <= k * b
    PROVE  CeilDiv(a, b) <= k
<1> DEFINE x == a + b - 1
<1>1. x \in Nat
  OBVIOUS
<1>2. (k + 1) * b = k * b + b /\ k * b \in Nat
  BY ProductNat
<1>3. x < (k + 1) * b
  BY <1>2
<1>4. CeilDiv(a, b) = x \div b
  BY DEF CeilDiv
<1> HIDE DEF x
<1> QED
  BY <1>1, <1>3, <1>4, DivAtMost

\* A variance whose square root is taken has one, rounded down.
LEMMA RootExists ==
    ASSUME NEW v \in Nat
    PROVE  sqrtWad(v) \in Nat
<1> DEFINE roots == {r \in 0 .. v + WAD : r * r <= v * WAD}
           top == Max(roots)
<1>1. WAD \in Nat /\ WAD >= 100
  BY FormsAssumption
<1>2. v + WAD \in Nat /\ v * WAD \in Nat
  BY <1>1, ProductNat
<1>3. 0 \in roots /\ roots \subseteq 0 .. v + WAD
  BY <1>2
<1>4. top \in roots /\ \A r \in roots : r <= top
  <2> HIDE DEF roots
  <2> QED
    BY <1>2, <1>3, MaxOfNumbers
<1>5. top \in Nat /\ top <= v + WAD /\ top * top <= v * WAD
  BY <1>1, <1>4
<1>6. (top + 1) * (top + 1) > v * WAD
  <2> HIDE DEF top
  <2>1. CASE top + 1 <= v + WAD
    <3>1. ~(top + 1 \in roots)
      BY <1>4, <1>5
    <3>2. top + 1 \in 0 .. v + WAD /\ (top + 1) * (top + 1) \in Int
      BY <1>1, <1>5, <2>1
    <3>3. ~((top + 1) * (top + 1) <= v * WAD)
      BY <3>1, <3>2
    <3> QED
      BY <1>2, <3>2, <3>3
  <2>2. CASE top + 1 > v + WAD
    <3>1. top = v + WAD
      BY <1>1, <1>5, <2>2
    <3>2. (v + WAD + 1) * (v + WAD + 1) > v * WAD
      BY <1>1
    <3> QED
      BY <3>1, <3>2
  <2> QED
    BY <1>1, <1>5, <2>1, <2>2
<1>7. \E r \in 0 .. v + WAD : r * r <= v * WAD /\ (r + 1) * (r + 1) > v * WAD
  BY <1>4, <1>5, <1>6
<1> HIDE DEF top, roots
<1>8. sqrtWad(v) \in 0 .. v + WAD
  BY <1>7 DEF sqrtWad
<1> QED
  BY <1>1, <1>8

-----------------------------------------------------------------------------
(* What is typed, and the parts of the derivation *)

Stances == {"cheap", "fair", "rich", "custom"}
Overrides ==
    {ov \in [OverrideKeys -> Typed \cup SaleModes] :
        \A k \in OverrideKeys \ {"saleMode"} : ov[k] \in Typed}

\* Inputs of the derivation that a page can be in.
TypedInputs(in) ==
    /\ in.tenorDays \in Int /\ in.stance \in Stances
    /\ in.customVol \in Typed /\ in.collateral \in Typed
    /\ in.ov \in Overrides
    /\ in.nowTs \in Int
    /\ in.trailing \in Nat \cup {Absent}
    /\ in.wallet \in Nat \cup {Absent}

LEMMA NumberTyped ==
    ASSUME NEW v \in Typed, IsNumber(v)
    PROVE  v \in Int
  BY DEF Typed, IsNumber

LEMMA PositiveTyped ==
    ASSUME NEW v \in Typed, Positive(v)
    PROVE  v \in Nat \ {0}
  BY DEF Typed, IsNumber, Positive

LEMMA OverrideTyped ==
    ASSUME NEW in, TypedInputs(in), NEW k \in OverrideKeys, k # "saleMode"
    PROVE  in.ov[k] \in Typed
  BY DEF TypedInputs, Overrides

LEMMA Scales ==
    /\ WAD \in Nat /\ WAD >= 100 /\ BPS \in Nat \ {0}
    /\ UNIT_NOTIONAL \in Nat \ {0} /\ TicketCut \in Nat \ {0}
    /\ UNITS_STEP \in Nat \ {0} /\ MIN_UNITS = WAD
    /\ MAX_CAP_VARIANCE \in Nat /\ RV_FLOOR \in Nat
    /\ WAD * WAD \in Nat /\ WAD * WAD > 0
<1>1. /\ WAD \in Nat /\ WAD >= 100 /\ BPS \in Nat \ {0}
      /\ UNIT_NOTIONAL \in Nat \ {0} /\ TicketCut \in Nat \ {0}
  BY FormsAssumption
<1>2. WAD \div 100 \in Nat \ {0} /\ WAD \div 25 \in Nat /\ 4 * WAD \in Nat
  BY <1>1
<1>3. WAD * WAD \in Nat /\ WAD * WAD > 0
  BY <1>1, ProductNat
<1> QED
  BY <1>1, <1>2, <1>3 DEF UNITS_STEP, MIN_UNITS, MAX_CAP_VARIANCE, RV_FLOOR

LEMMA TrailingNat ==
    ASSUME NEW in, TypedInputs(in)
    PROVE  Trailing(in) \in Nat
  BY Scales DEF TypedInputs, Trailing

LEMMA VarianceOfVol ==
    ASSUME NEW vol \in Nat
    PROVE  varianceFromVol(vol) \in Nat
<1>1. vol * vol \in Nat
  BY ProductNat
<1> DEFINE x == vol * vol
<1> HIDE DEF x
<1>2. x \in Nat => x \div WAD \in Nat
  BY Scales, DivBounds
<1> QED
  BY <1>1, <1>2 DEF varianceFromVol, x

LEMMA StanceVarianceNat ==
    ASSUME NEW trailing \in Nat, NEW bps \in Nat
    PROVE  stanceVariance(trailing, bps) \in Nat
<1> DEFINE x == trailing * bps * bps
           b == BPS * BPS
<1>1. x \in Nat
  <2>1. trailing * bps \in Nat
    BY ProductNat
  <2> DEFINE y == trailing * bps
  <2> HIDE DEF y
  <2>2. y \in Nat => y * bps \in Nat
    BY ProductNat
  <2> QED
    BY <2>1, <2>2 DEF y
<1>2. b \in Nat /\ b > 0
  BY Scales, ProductNat
<1>3. stanceVariance(trailing, bps) = x \div b
  BY DEF stanceVariance
<1> HIDE DEF x, b
<1> QED
  BY <1>1, <1>2, <1>3, DivBounds

LEMMA AnchorNat ==
    ASSUME NEW in, TypedInputs(in)
    PROVE  AnchorPart(in).anchor \in Nat
<1> DEFINE fair == stanceVariance(Trailing(in), STANCE_BPS.fair)
           own == varianceFromVol(in.customVol)
           level == stanceVariance(Trailing(in), STANCE_BPS[in.stance])
<1>1. Trailing(in) \in Nat /\ BPS \in Nat
  BY TrailingNat, Scales
<1>2. /\ STANCE_BPS.fair \in Nat
      /\ in.stance # "custom" => STANCE_BPS[in.stance] \in Nat
  BY <1>1 DEF STANCE_BPS, TypedInputs, Stances
<1>3. fair \in Nat /\ (in.stance # "custom" => level \in Nat)
  BY <1>1, <1>2, StanceVarianceNat
<1>4. Positive(in.customVol) => own \in Nat
  BY PositiveTyped, VarianceOfVol DEF TypedInputs
<1> HIDE DEF fair, own, level
<1>5. AnchorPart(in).anchor
        = IF in.stance = "custom" THEN IF Positive(in.customVol) /\ own > 0 THEN own ELSE fair
          ELSE IF in.trailing = Absent THEN fair ELSE level
  BY DEF AnchorPart, fair, own, level
<1> QED
  BY <1>3, <1>4, <1>5

LEMMA SpreadInRange ==
    ASSUME NEW in, TypedInputs(in)
    PROVE  /\ SpreadPart(in).spread \in MIN_HALF_SPREAD_BPS .. MAX_HALF_SPREAD_BPS
           /\ SpreadPart(in).spread \in Nat
<1> DEFINE v == in.ov["halfSpreadBps"]
<1>1. v \in Typed
  BY OverrideTyped DEF OverrideKeys
<1>2. /\ BPS \div 1000 \in Nat /\ BPS \div 50 \in Nat /\ BPS \div 5 \in Nat
      /\ BPS \div 1000 <= BPS \div 50 /\ BPS \div 50 <= BPS \div 5
  BY Scales
<1>3. /\ HALF_SPREAD_BPS \in MIN_HALF_SPREAD_BPS .. MAX_HALF_SPREAD_BPS
      /\ HALF_SPREAD_BPS \in Nat /\ MIN_HALF_SPREAD_BPS \in Nat
  BY <1>2 DEF HALF_SPREAD_BPS, MIN_HALF_SPREAD_BPS, MAX_HALF_SPREAD_BPS
<1>4. SpreadPart(in).spread =
        IF IsNumber(v) /\ v \in MIN_HALF_SPREAD_BPS .. MAX_HALF_SPREAD_BPS THEN v
        ELSE HALF_SPREAD_BPS
  BY DEF SpreadPart
<1> HIDE DEF v
<1> QED
  BY <1>3, <1>4

\* The least index of a ladder's steps that fit is one of them.
LEMMA LeastOf ==
    ASSUME NEW S, S \subseteq Nat, S # {}
    PROVE  (CHOOSE i \in S : \A j \in S : i <= j) \in S
<1>1. \E i \in S : \A j \in S : i <= j
  BY LeastNumber
<1> QED
  BY <1>1

LEMMA CapOnLadder ==
    ASSUME NEW trailing \in Nat, NEW anchor \in Nat
    PROVE  capVarianceFor(trailing, anchor) \in Nat \ {0}
<1> DEFINE floorVol == Greater(2 * sqrtWad(trailing), sqrtWad(2 * anchor))
           round == {i \in DOMAIN CAP_VOL_LADDER : CAP_VOL_LADDER[i] >= floorVol}
           least == CHOOSE i \in round : \A j \in round : i <= j
           step == IF round = {} THEN Len(CAP_VOL_LADDER) ELSE least
           vol == CAP_VOL_LADDER[step]
           h == WAD \div 2
<1>1. /\ DOMAIN CAP_VOL_LADDER = 1 .. 5 /\ Len(CAP_VOL_LADDER) = 5
      /\ \A i \in 1 .. 5 : CAP_VOL_LADDER[i] \in Nat /\ CAP_VOL_LADDER[i] >= h
  <2>1. WAD \in Nat /\ WAD >= 100
    BY Scales
  <2>2. /\ h \in Nat /\ (3 * WAD) \div 4 \in Nat /\ (3 * WAD) \div 2 \in Nat
        /\ (3 * WAD) \div 4 >= h /\ WAD >= h /\ (3 * WAD) \div 2 >= h /\ 2 * WAD >= h
    BY <2>1
  <2> QED
    BY <2>1, <2>2 DEF CAP_VOL_LADDER
<1>2. h \in Nat /\ h >= 50 /\ WAD <= 2 * h + 1
  BY Scales
<1>3. step \in 1 .. 5
  <2>1. round \subseteq 1 .. 5
    BY <1>1
  <2> HIDE DEF round
  <2>2. round \subseteq Nat
    BY <2>1
  <2>3. round # {} => least \in round
    BY <2>2, LeastOf
  <2>4. Len(CAP_VOL_LADDER) \in 1 .. 5
    BY <1>1
  <2>5. step = IF round = {} THEN Len(CAP_VOL_LADDER) ELSE least
    OBVIOUS
  <2> HIDE DEF least, step
  <2> QED
    BY <2>1, <2>3, <2>4, <2>5
<1>4. capVarianceFor(trailing, anchor) = varianceFromVol(vol)
  BY DEF capVarianceFor
<1> HIDE DEF step
<1>5. vol \in Nat /\ vol >= h
  BY <1>1, <1>3
<1> HIDE DEF vol, h
<1>6. vol * vol >= WAD /\ vol * vol \in Nat
  <2>1. h * vol <= vol * vol /\ 50 * h <= h * vol
    <3>1. h * vol <= vol * vol
      BY <1>2, <1>5, TimesMonotone
    <3>2. 50 * vol <= h * vol
      BY <1>2, <1>5, TimesMonotone
    <3> QED
      BY <1>2, <1>5, <3>1, <3>2
  <2>2. vol * vol \in Nat /\ h * vol \in Nat
    BY <1>2, <1>5, ProductNat
  <2> QED
    BY <1>2, <2>1, <2>2, Scales
<1> DEFINE x == vol * vol
<1>7. x \in Nat /\ 1 * WAD <= x
  BY <1>6, Scales
<1> HIDE DEF x
<1>8. x \div WAD \in Nat /\ 1 <= x \div WAD
  BY <1>7, Scales, DivAtLeast, DivBounds
<1> QED
  BY <1>4, <1>8 DEF varianceFromVol, x

LEMMA AskNat ==
    ASSUME NEW anchor \in Nat, NEW spread \in Nat
    PROVE  mulDivUp(anchor, BPS + spread, BPS) \in Nat
<1> DEFINE x == anchor * (BPS + spread)
<1>1. x \in Nat
  <2>1. BPS + spread \in Nat
    BY Scales
  <2> QED
    BY <2>1, ProductNat
<1> HIDE DEF x
<1>2. CeilDiv(x, BPS) \in Nat
  BY <1>1, Scales, CeilBounds
<1> QED
  BY <1>2 DEF mulDivUp, x

LEMMA CapFits ==
    ASSUME NEW in, TypedInputs(in), NEW anchor \in Nat, NEW spread \in Nat
    PROVE  LET c == CapPart(in, anchor, spread) IN
           /\ c.cap \in 1 .. MAX_CAP_VARIANCE
           /\ c.errors = {} => anchor <= c.cap /\ mulDivUp(anchor, BPS + spread, BPS) <= c.cap
<1> DEFINE v == in.ov["capVolPct"]
           ladder == capVarianceFor(Trailing(in), anchor)
           natural == Lesser(ladder, MAX_CAP_VARIANCE)
           own == varianceFromVol(v)
           typed == Positive(v) /\ own > 0
           cap == IF typed /\ own <= MAX_CAP_VARIANCE THEN own ELSE natural
           ask == mulDivUp(anchor, BPS + spread, BPS)
           c == CapPart(in, anchor, spread)
           first == IF v = Absent THEN {}
                    ELSE IF ~typed THEN {"cap-parse"}
                    ELSE IF own > MAX_CAP_VARIANCE THEN {"cap-ceiling"} ELSE {}
           second == IF anchor > cap THEN {"anchor-over-cap"} ELSE {}
           third == IF ask > cap /\ anchor <= cap THEN {"ask-over-cap"} ELSE {}
<1>1. v \in Typed
  BY OverrideTyped DEF OverrideKeys
<1>2. Positive(v) => own \in Nat
  BY <1>1, PositiveTyped, VarianceOfVol
<1>3. ladder \in Nat \ {0}
  BY TrailingNat, CapOnLadder
<1>4. MAX_CAP_VARIANCE \in Nat /\ MAX_CAP_VARIANCE >= 1
  BY Scales DEF MAX_CAP_VARIANCE
<1>5. ask \in Nat
  BY AskNat
<1>6. c.cap = cap /\ c.errors = (first \cup second) \cup third
  BY DEF CapPart
<1> HIDE DEF v, ladder, own, ask, c
<1>7. cap \in 1 .. MAX_CAP_VARIANCE
  BY <1>2, <1>3, <1>4 DEF Lesser
<1>8. c.errors = {} => second = {} /\ third = {}
  <2> HIDE DEF first, second, third
  <2> QED
    BY <1>6
<1> HIDE DEF cap
<1>9. c.errors = {} => anchor <= cap /\ ask <= cap
  BY SMTT(30), <1>4, <1>5, <1>7, <1>8
<1> QED
  BY <1>6, <1>7, <1>9 DEF c, ask

\* Every step of the ladder.
GridStep(t) == t \in 1800 .. 86400
Sampled(n) == n \in MIN_SAMPLES .. CONTRACT_MAX_SAMPLES

LEMMA GridStepIs ==
    ASSUME NEW t, GridStep(t)
    PROVE  t \in Nat /\ t >= 1800 /\ t <= 86400
  BY SMTT(30) DEF GridStep

LEMMA GridLength ==
    DOMAIN INTERVAL_LADDER = 1 .. 7 /\ Len(INTERVAL_LADDER) = 7
<1>1. DOMAIN INTERVAL_LADDER = 1 .. 7
  BY SMT DEF INTERVAL_LADDER
<1>2. Len(INTERVAL_LADDER) = 7
  BY SMT DEF INTERVAL_LADDER
<1> QED
  BY <1>1, <1>2, SMT

LEMMA GridSteps ==
    ASSUME NEW i \in 1 .. 7
    PROVE  GridStep(INTERVAL_LADDER[i])
<1>1. i = 1 \/ i = 2 \/ i = 3 \/ i = 4 \/ i = 5 \/ i = 6 \/ i = 7
  BY SMT
<1>2. /\ INTERVAL_LADDER[1] = 1800 /\ INTERVAL_LADDER[2] = 3600 /\ INTERVAL_LADDER[3] = 7200
      /\ INTERVAL_LADDER[4] = 14400 /\ INTERVAL_LADDER[5] = 21600 /\ INTERVAL_LADDER[6] = 43200
      /\ INTERVAL_LADDER[7] = 86400
  BY SMT DEF INTERVAL_LADDER
<1>3. /\ GridStep(1800) /\ GridStep(3600) /\ GridStep(7200) /\ GridStep(14400)
      /\ GridStep(21600) /\ GridStep(43200) /\ GridStep(86400)
  BY SMT DEF GridStep
<1> QED
  BY <1>1, <1>2, <1>3, SMT

LEMMA GridOnLadder ==
    ASSUME NEW tenorSeconds
    PROVE  GridStep(intervalFor(tenorSeconds))
<1> DEFINE fits == {i \in DOMAIN INTERVAL_LADDER :
                      CeilDiv(tenorSeconds, INTERVAL_LADDER[i]) <= MAX_SAMPLES}
           least == CHOOSE i \in fits : \A j \in fits : i <= j
           step == IF fits = {} THEN Len(INTERVAL_LADDER) ELSE least
<1>1. intervalFor(tenorSeconds) = INTERVAL_LADDER[step]
  BY DEF intervalFor
<1>2. fits \subseteq 1 .. 7
  BY GridLength
<1>3. fits # {} => least \in fits
  <2> HIDE DEF fits
  <2>1. fits \subseteq Nat
    BY <1>2
  <2> QED
    BY <2>1, LeastOf
<1>4. Len(INTERVAL_LADDER) \in 1 .. 7
  BY GridLength
<1>5. step = IF fits = {} THEN Len(INTERVAL_LADDER) ELSE least
  OBVIOUS
<1> HIDE DEF fits, least, step
<1>6. step \in 1 .. 7
  BY <1>2, <1>3, <1>4, <1>5
<1>7. GridStep(INTERVAL_LADDER[step])
  BY <1>6, GridSteps
<1> QED
  BY <1>1, <1>7

LEMMA RoundedSamples ==
    ASSUME NEW span \in Nat, NEW interval, GridStep(interval)
    PROVE  Greater(1, (2 * span + interval) \div (2 * interval)) \in Nat \ {0}
<1> DEFINE a == 2 * span + interval
           b == 2 * interval
<1>1. a \in Nat /\ b \in Nat /\ b > 0
  BY GridStepIs, SMT
<1> HIDE DEF a, b
<1>2. a \div b \in Nat
  BY <1>1, DivBounds
<1>3. Greater(1, a \div b) \in Nat \ {0}
  BY <1>2 DEF Greater
<1> QED
  BY <1>3 DEF a, b

\* The pieces of the window, in the order the derivation computes them.
TenorOf(in) ==
    clampInt(IF IsNumber(in.ov["tenorDays"]) THEN in.ov["tenorDays"] ELSE in.tenorDays, 1, 3650) * DAY
OnLadder(in) == \E i \in DOMAIN INTERVAL_LADDER : INTERVAL_LADDER[i] = in.ov["sampleInterval"]
IntervalOf(in) == IF OnLadder(in) THEN in.ov["sampleInterval"] ELSE intervalFor(TenorOf(in))
StartOf(in) == IF IsNumber(in.ov["start"]) THEN in.ov["start"] ELSE defaultStart(in.nowTs)
SamplesOf(in) ==
    Greater(1, (2 * TenorOf(in) + IntervalOf(in)) \div (2 * IntervalOf(in)))
ExpiryOf(in) == StartOf(in) + SamplesOf(in) * IntervalOf(in)
SnappedOf(in) ==
    Lesser(ExpiryOf(in), StartOf(in) + saleSteps(in.ov["saleMode"], SamplesOf(in)) * IntervalOf(in))
SaleEndOf(in) == IF SnappedOf(in) <= in.nowTs THEN in.nowTs + HOUR ELSE SnappedOf(in)
StartErrors(in) == IF in.ov["start"] = Bad THEN {"start-parse"} ELSE {}
FewErrors(in) == IF SamplesOf(in) < MIN_SAMPLES THEN {"samples-floor"} ELSE {}
ManyErrors(in) == IF SamplesOf(in) > CONTRACT_MAX_SAMPLES THEN {"samples-ceiling"} ELSE {}

LEMMA WindowPieces ==
    ASSUME NEW in
    PROVE  LET w == WindowPart(in) IN
           /\ w.start = StartOf(in) /\ w.expiry = ExpiryOf(in) /\ w.saleEnd = SaleEndOf(in)
           /\ w.interval = IntervalOf(in) /\ w.samples = SamplesOf(in)
           /\ StartErrors(in) \cup FewErrors(in) \cup ManyErrors(in) \subseteq w.errors
<1> DEFINE v == in.ov["tenorDays"]
           tenor == IF v = Bad \/ (IsNumber(v) /\ v < 1) THEN {"tenor-parse"} ELSE {}
           range == IF ExpiryOf(in) > MaxTimestamp THEN {"ts-range"} ELSE {}
           all == (((tenor \cup StartErrors(in)) \cup FewErrors(in)) \cup ManyErrors(in)) \cup range
<1>1. WindowPart(in)
        = [start |-> StartOf(in), expiry |-> ExpiryOf(in), saleEnd |-> SaleEndOf(in),
           interval |-> IntervalOf(in), samples |-> SamplesOf(in), errors |-> all]
  BY SMT DEF WindowPart, StartOf, ExpiryOf, SaleEndOf, SnappedOf, IntervalOf,
             SamplesOf, OnLadder, TenorOf, StartErrors, FewErrors, ManyErrors
<1>2. StartErrors(in) \cup FewErrors(in) \cup ManyErrors(in) \subseteq all
  <2> HIDE DEF tenor, range
  <2> QED
    OBVIOUS
<1> HIDE DEF all
<1> QED
  BY <1>1, <1>2

LEMMA ClampNat ==
    ASSUME NEW v \in Int, NEW lo \in Nat, NEW hi \in Nat
    PROVE  clampInt(v, lo, hi) \in Nat
  BY DEF clampInt

LEMMA TenorNat ==
    ASSUME NEW in, TypedInputs(in)
    PROVE  TenorOf(in) \in Nat
<1> DEFINE v == in.ov["tenorDays"]
           days == IF IsNumber(v) THEN v ELSE in.tenorDays
<1>1. v \in Typed /\ in.tenorDays \in Int
  BY OverrideTyped DEF OverrideKeys, TypedInputs
<1>2. IsNumber(v) => v \in Int
  BY <1>1, NumberTyped
<1>3. TenorOf(in) = clampInt(days, 1, 3650) * DAY
  BY SMT DEF TenorOf
<1> HIDE DEF v
<1>4. days \in Int
  BY <1>1, <1>2
<1> HIDE DEF days
<1>5. clampInt(days, 1, 3650) \in Nat
  BY <1>4, ClampNat, SMT
<1>6. clampInt(days, 1, 3650) * DAY \in Nat
  <2> DEFINE c == clampInt(days, 1, 3650)
  <2>1. c \in Nat
    BY <1>5
  <2> HIDE DEF c
  <2>2. DAY \in Nat
    BY SMT DEF DAY
  <2>3. c * DAY \in Nat
    BY <2>1, <2>2, ProductNat
  <2> QED
    BY <2>3, SMT DEF c
<1> QED
  BY <1>3, <1>6, SMT

LEMMA IntervalFits ==
    ASSUME NEW in
    PROVE  GridStep(IntervalOf(in))
<1> DEFINE v == in.ov["sampleInterval"]
<1>1. ASSUME OnLadder(in) PROVE GridStep(v)
  <2>1. PICK i \in DOMAIN INTERVAL_LADDER : INTERVAL_LADDER[i] = v
    BY <1>1 DEF OnLadder
  <2> HIDE DEF v
  <2>2. i \in 1 .. 7
    BY <2>1, GridLength
  <2>3. GridStep(INTERVAL_LADDER[i])
    BY <2>2, GridSteps
  <2> QED
    BY <2>1, <2>3
<1>2. GridStep(intervalFor(TenorOf(in)))
  BY GridOnLadder
<1>3. IntervalOf(in) = IF OnLadder(in) THEN v ELSE intervalFor(TenorOf(in))
  BY DEF IntervalOf
<1> HIDE DEF v
<1> QED
  BY <1>1, <1>2, <1>3

LEMMA SamplesPositive ==
    ASSUME NEW in, TypedInputs(in)
    PROVE  SamplesOf(in) \in Nat \ {0}
<1>1. TenorOf(in) \in Nat /\ GridStep(IntervalOf(in))
  BY TenorNat, IntervalFits
<1> QED
  BY <1>1, RoundedSamples DEF SamplesOf

LEMMA StartFits ==
    ASSUME NEW in, TypedInputs(in)
    PROVE  /\ StartOf(in) \in Int
           /\ in.ov["start"] = Absent => StartOf(in) >= in.nowTs + 300
<1> DEFINE v == in.ov["start"]
           now0 == in.nowTs
<1>1. v \in Typed /\ now0 \in Int
  BY OverrideTyped DEF OverrideKeys, TypedInputs
<1>2. IsNumber(v) => v \in Int
  BY <1>1, NumberTyped
<1>3. StartOf(in) = IF IsNumber(v) THEN v ELSE defaultStart(now0)
  BY DEF StartOf
<1>4. v = Absent => ~IsNumber(v)
  BY DEF IsNumber
<1> HIDE DEF now0, v
<1>5. defaultStart(now0) \in Int /\ defaultStart(now0) >= now0 + 300
  BY <1>1 DEF defaultStart, CeilDiv, HOUR
<1>6. StartOf(in) \in Int /\ (v = Absent => StartOf(in) >= now0 + 300)
  BY <1>2, <1>3, <1>4, <1>5
<1> QED
  BY <1>6 DEF now0, v

LEMMA SaleStepsFit ==
    ASSUME NEW mode, NEW n \in Nat \ {0}
    PROVE  /\ saleSteps(mode, n) \in Nat
           /\ mode # "start" => saleSteps(mode, n) >= 1
<1> DEFINE half == Greater(1, n \div 2)
           quarter == Greater(1, n \div 4)
           s == saleSteps(mode, n)
<1>1. half \in Nat \ {0} /\ quarter \in Nat \ {0}
  <2>1. n \div 2 \in Nat /\ n \div 4 \in Nat
    OBVIOUS
  <2> QED
    BY <2>1 DEF Greater
<1>2. mode # "start" => s \in {n, half, quarter}
  BY DEF saleSteps
<1>3. mode = "start" => s = 0
  BY DEF saleSteps
<1> HIDE DEF half, quarter, s
<1>4. s \in Nat /\ (mode # "start" => s >= 1)
  BY <1>1, <1>2, <1>3
<1> QED
  BY <1>4 DEF s

\* How the window of a form lies, and its sale when the start is the page's.
LEMMA WindowLies ==
    ASSUME NEW in, TypedInputs(in)
    PROVE  LET w == WindowPart(in) IN
           /\ GridStep(w.interval)
           /\ w.samples \in Nat \ {0}
           /\ w.start \in Int
           /\ w.expiry = w.start + w.samples * w.interval
           /\ w.errors = {} => /\ Sampled(w.samples)
                               /\ in.ov["start"] # Bad
           /\ in.ov["start"] = Absent =>
                /\ w.start >= in.nowTs + 300
                /\ w.saleEnd \in Int /\ w.saleEnd <= w.expiry
                /\ w.saleEnd >= w.start + (IF in.ov["saleMode"] = "start" THEN 0 ELSE w.interval)
<1> DEFINE w == WindowPart(in)
           interval == IntervalOf(in)
           start == StartOf(in)
           n == SamplesOf(in)
           mode == in.ov["saleMode"]
           own == in.ov["start"]
           now0 == in.nowTs
           steps == saleSteps(mode, n)
           whole == n * interval
           part == steps * interval
<1>1. /\ w.start = start /\ w.expiry = ExpiryOf(in) /\ w.saleEnd = SaleEndOf(in)
      /\ w.interval = interval /\ w.samples = n
      /\ StartErrors(in) \cup FewErrors(in) \cup ManyErrors(in) \subseteq w.errors
  BY WindowPieces
<1>2. /\ GridStep(interval) /\ n \in Nat \ {0}
      /\ start \in Int /\ (own = Absent => start >= now0 + 300)
      /\ now0 \in Int
  BY IntervalFits, SamplesPositive, StartFits DEF TypedInputs
<1>3. ExpiryOf(in) = start + whole /\ SnappedOf(in) = Lesser(start + whole, start + part)
  BY DEF ExpiryOf, SnappedOf
<1>4. SaleEndOf(in) = IF SnappedOf(in) <= now0 THEN now0 + HOUR ELSE SnappedOf(in)
  BY DEF SaleEndOf
<1>5. w.errors = {} => Sampled(n) /\ own # Bad
  <2>1. w.errors = {} => StartErrors(in) = {} /\ FewErrors(in) = {} /\ ManyErrors(in) = {}
    <3> HIDE DEF w
    <3> QED
      BY <1>1
  <2>2. StartErrors(in) = {} => own # Bad
    BY DEF StartErrors
  <2>3. FewErrors(in) = {} => ~(n < MIN_SAMPLES)
    BY DEF FewErrors
  <2>4. ManyErrors(in) = {} => ~(n > CONTRACT_MAX_SAMPLES)
    BY DEF ManyErrors
  <2> HIDE DEF w, n, own
  <2>5. w.errors = {} => n >= 2 /\ n <= 256
    BY <1>2, <2>1, <2>3, <2>4, SMT DEF MIN_SAMPLES, CONTRACT_MAX_SAMPLES
  <2>6. n >= 2 /\ n <= 256 => Sampled(n)
    BY <1>2, SMT DEF Sampled, MIN_SAMPLES, CONTRACT_MAX_SAMPLES
  <2> QED
    BY <2>1, <2>2, <2>5, <2>6
<1> HIDE DEF w, interval, start, n, own, now0
<1>6. steps \in Nat /\ (mode # "start" => steps >= 1)
  <2> HIDE DEF mode
  <2> QED
    BY <1>2, SaleStepsFit
<1> HIDE DEF steps, mode
<1>7. /\ whole \in Nat /\ whole >= interval
      /\ part \in Nat
      /\ mode # "start" => part >= interval
  <2>1. interval \in Nat /\ 1 * interval = interval
    BY <1>2, GridStepIs
  <2>2. whole \in Nat /\ part \in Nat
    BY <1>2, <1>6, <2>1, ProductNat
  <2>3. 1 * interval <= n * interval
    BY <1>2, <2>1, TimesMonotone
  <2>4. mode # "start" => 1 * interval <= steps * interval
    BY <1>6, <2>1, TimesMonotone
  <2> QED
    BY <2>1, <2>2, <2>3, <2>4
<1>8. w.expiry = w.start + w.samples * w.interval
  BY <1>1, <1>3
<1> HIDE DEF whole, part
<1>9. interval \in Nat
  BY <1>2, GridStepIs
<1>10. own = Absent =>
        /\ SaleEndOf(in) \in Int /\ SaleEndOf(in) <= ExpiryOf(in)
        /\ SaleEndOf(in) >= start + (IF mode = "start" THEN 0 ELSE interval)
  <2>1. own = Absent =>
          /\ SnappedOf(in) \in Int /\ SnappedOf(in) <= ExpiryOf(in)
          /\ SnappedOf(in) >= start /\ SnappedOf(in) > now0
          /\ mode # "start" => SnappedOf(in) >= start + interval
    BY <1>2, <1>3, <1>7, <1>9 DEF Lesser
  <2>2. own = Absent => SaleEndOf(in) = SnappedOf(in)
    BY <1>2, <1>4, <2>1
  <2> QED
    BY <1>2, <2>1, <2>2
<1>11. /\ GridStep(w.interval)
       /\ w.samples \in Nat \ {0}
       /\ w.start \in Int
       /\ w.errors = {} => Sampled(w.samples) /\ own # Bad
       /\ own = Absent =>
            /\ w.start >= now0 + 300
            /\ w.saleEnd \in Int /\ w.saleEnd <= w.expiry
            /\ w.saleEnd >= w.start + (IF mode = "start" THEN 0 ELSE w.interval)
  BY <1>1, <1>2, <1>5, <1>10
<1> QED
  BY <1>8, <1>11 DEF w, own, now0, mode


LEMMA NotionalNat ==
    ASSUME NEW in, TypedInputs(in)
    PROVE  NotionalPart(in).notional \in Nat \ {0}
<1> DEFINE v == in.ov["unitNotional"]
<1>1. v \in Typed
  BY OverrideTyped DEF OverrideKeys
<1>2. NotionalPart(in).notional = IF Positive(v) THEN v ELSE UNIT_NOTIONAL
  BY DEF NotionalPart
<1>3. Positive(v) => v \in Nat \ {0}
  BY <1>1, PositiveTyped
<1> HIDE DEF v
<1> QED
  BY <1>2, <1>3, Scales

-----------------------------------------------------------------------------
(* Collateral and inventory *)

\* The inventory a budget backs, in whole steps.
Stock(budget, notional, cap) ==
    (((budget * WAD * WAD) \div (notional * cap)) \div UNITS_STEP) * UNITS_STEP

\* What is locked for it.
LEMMA LiabilityOf ==
    ASSUME NEW units \in Nat, NEW notional \in Nat, NEW cap \in Nat
    PROVE  /\ maxSeriesLiability(units, notional, cap)
                = CeilDiv(units * (notional * cap), WAD * WAD)
           /\ units * (notional * cap) \in Nat
           /\ notional * cap \in Nat
<1>1. (units * notional) * cap = units * (notional * cap)
  OBVIOUS
<1> DEFINE k == notional * cap
<1>2. k \in Nat
  BY ProductNat
<1>3. units * k \in Nat
  <2> HIDE DEF k
  <2> QED
    BY <1>2, ProductNat
<1> QED
  BY <1>1, <1>2, <1>3 DEF maxSeriesLiability, mulDivUp

\* It takes no more than the budget, and a step more would.
LEMMA StockBacked ==
    ASSUME NEW budget \in Nat, NEW notional \in Nat \ {0}, NEW cap \in Nat \ {0}
    PROVE  LET k == notional * cap
               q == WAD * WAD
               units == Stock(budget, notional, cap)
           IN  /\ k \in Nat \ {0} /\ units \in Nat
               /\ units * k <= budget * q
               /\ budget * q < (units + UNITS_STEP) * k
               /\ \E i \in Nat : units = i * UNITS_STEP
<1> DEFINE k == notional * cap
           q == WAD * WAD
           amount == budget * q
           raw == amount \div k
           i == raw \div UNITS_STEP
           units == i * UNITS_STEP
<1>1. k \in Nat \ {0}
  BY ProductNat
<1>2. q \in Nat
  BY Scales
<1>3. Stock(budget, notional, cap) = units
  <2>1. budget * WAD * WAD = amount
    BY Scales
  <2> QED
    BY <2>1 DEF Stock
<1> HIDE DEF k, q
<1>4. amount \in Nat
  BY <1>2, ProductNat
<1> HIDE DEF amount
<1>5. raw \in Nat /\ raw * k <= amount /\ amount < raw * k + k
  BY <1>1, <1>4, DivBounds
<1> HIDE DEF raw
<1>6. i \in Nat /\ i * UNITS_STEP <= raw /\ raw < i * UNITS_STEP + UNITS_STEP
  BY <1>5, Scales, DivBounds
<1> HIDE DEF i
<1>7. units \in Nat
  BY <1>6, Scales, ProductNat
<1>8. units <= raw /\ raw + 1 <= units + UNITS_STEP
  BY <1>5, <1>6, <1>7, Scales
<1>9. \E j \in Nat : units = j * UNITS_STEP
  BY <1>6
<1> HIDE DEF units
<1>10. units * k <= raw * k /\ (raw + 1) * k <= (units + UNITS_STEP) * k
  BY <1>1, <1>5, <1>7, <1>8, TimesMonotone, Scales
<1>11. (raw + 1) * k = raw * k + k /\ raw * k \in Nat /\ units * k \in Nat
       /\ (units + UNITS_STEP) * k \in Nat
  <2>1. units + UNITS_STEP \in Nat
    BY <1>7, Scales
  <2> QED
    BY <1>1, <1>5, <1>7, <2>1, ProductNat
<1>12. units * k <= amount /\ amount < (units + UNITS_STEP) * k
  BY <1>1, <1>4, <1>5, <1>10, <1>11
<1> QED
  BY <1>1, <1>3, <1>7, <1>9, <1>12 DEF k, q, amount, units

\* What is locked for what a budget backs is within the budget.
LEMMA StockWithinBudget ==
    ASSUME NEW budget \in Nat, NEW notional \in Nat \ {0}, NEW cap \in Nat \ {0}
    PROVE  /\ maxSeriesLiability(Stock(budget, notional, cap), notional, cap) \in Nat
           /\ maxSeriesLiability(Stock(budget, notional, cap), notional, cap) <= budget
<1> DEFINE k == notional * cap
           q == WAD * WAD
           units == Stock(budget, notional, cap)
           whole == units * k
<1>1. units \in Nat /\ whole <= budget * q
  BY StockBacked
<1>2. /\ maxSeriesLiability(units, notional, cap) = CeilDiv(whole, q)
      /\ whole \in Nat
  BY ZenonT(60), <1>1, LiabilityOf
<1>3. q \in Nat /\ q > 0
  BY Scales
<1> HIDE DEF whole, q, units
<1>4. CeilDiv(whole, q) \in Nat /\ CeilDiv(whole, q) <= budget
  BY <1>1, <1>2, <1>3, CeilAtMost, CeilBounds
<1> QED
  BY <1>2, <1>4 DEF units

\* The collateral a form is worth.
Budget(in) == IF Positive(in.collateral) THEN in.collateral ELSE 0

LEMMA BudgetNat ==
    ASSUME NEW in, TypedInputs(in)
    PROVE  Budget(in) \in Nat
  BY PositiveTyped DEF TypedInputs, Budget

LEMMA SizeFits ==
    ASSUME NEW in, TypedInputs(in), NEW notional \in Nat \ {0}, NEW cap \in Nat \ {0}
    PROVE  LET z == SizePart(in, notional, cap) IN
           /\ z.maxUnits \in Nat /\ z.committed \in Nat
           /\ z.committed = IF z.maxUnits > 0 THEN maxSeriesLiability(z.maxUnits, notional, cap)
                            ELSE 0
           /\ "short-balance" \in z.errors <=> in.wallet # Absent /\ z.committed > in.wallet
           /\ in.ov["maxUnits"] = Absent => /\ z.maxUnits = Stock(Budget(in), notional, cap)
                                            /\ z.committed <= Budget(in)
<1> DEFINE v == in.ov["maxUnits"]
           budget == Budget(in)
           stock == Stock(budget, notional, cap)
           maxUnits == IF v # Absent THEN IF Positive(v) THEN v ELSE 0 ELSE stock
           committed == IF maxUnits > 0 THEN maxSeriesLiability(maxUnits, notional, cap) ELSE 0
           e1 == IF in.collateral = Bad THEN {"collateral-parse"} ELSE {}
           e2 == IF v # Absent /\ ~Positive(v) THEN {"units-parse"} ELSE {}
           e3 == IF maxUnits < MIN_UNITS /\ v = Absent
                 THEN {IF budget > 0 THEN "under-one-unit" ELSE "no-collateral"} ELSE {}
           e4 == IF in.wallet # Absent /\ committed > in.wallet THEN {"short-balance"} ELSE {}
           z == SizePart(in, notional, cap)
<1>1. v \in Typed /\ budget \in Nat
  BY OverrideTyped, BudgetNat DEF OverrideKeys
<1>2. z = [maxUnits |-> maxUnits, committed |-> committed,
           errors |-> ((e1 \cup e2) \cup e3) \cup e4]
  BY DEF SizePart, Stock, Budget
<1>3. z.maxUnits = maxUnits /\ z.committed = committed /\ z.errors = ((e1 \cup e2) \cup e3) \cup e4
  <2> HIDE DEF z, maxUnits, committed, e1, e2, e3, e4
  <2> QED
    BY <1>2
<1>4. /\ stock \in Nat
      /\ maxSeriesLiability(stock, notional, cap) \in Nat
      /\ maxSeriesLiability(stock, notional, cap) <= budget
  <2> HIDE DEF budget
  <2> QED
    BY <1>1, StockBacked, StockWithinBudget
<1> HIDE DEF budget, stock, z
<1>5. maxUnits \in Nat
  <2>1. Positive(v) => v \in Nat
    BY <1>1, PositiveTyped
  <2> HIDE DEF v
  <2> QED
    BY <1>4, <2>1
<1>6. v = Absent => maxUnits = stock
  OBVIOUS
<1> HIDE DEF maxUnits
<1>7. maxSeriesLiability(maxUnits, notional, cap) \in Nat
  <2> DEFINE whole == maxUnits * (notional * cap)
             q == WAD * WAD
  <2>1. maxSeriesLiability(maxUnits, notional, cap) = CeilDiv(whole, q) /\ whole \in Nat
    BY <1>5, LiabilityOf
  <2>2. q \in Nat /\ q > 0
    BY Scales
  <2> HIDE DEF whole, q
  <2> QED
    BY <2>1, <2>2, CeilBounds
<1>8. committed \in Nat /\ (v = Absent => committed <= budget)
  <2> HIDE DEF v
  <2> QED
    BY <1>1, <1>4, <1>6, <1>7
<1>9. "short-balance" \in z.errors <=> in.wallet # Absent /\ committed > in.wallet
  <2> HIDE DEF committed
  <2>1. "short-balance" \notin e1 /\ "short-balance" \notin e2 /\ "short-balance" \notin e3
    OBVIOUS
  <2>2. "short-balance" \in e4 <=> in.wallet # Absent /\ committed > in.wallet
    OBVIOUS
  <2> HIDE DEF e1, e2, e3, e4
  <2> QED
    BY <1>3, <2>1, <2>2
<1> HIDE DEF e1, e2, e3, e4
<1> QED
  <2>1. committed = IF maxUnits > 0 THEN maxSeriesLiability(maxUnits, notional, cap) ELSE 0
    OBVIOUS
  <2> HIDE DEF committed
  <2> QED
    BY <1>3, <1>5, <1>6, <1>8, <1>9, <2>1 DEF z, stock, budget, v

LEMMA TicketRounds ==
    ASSUME NEW v \in Nat
    PROVE  /\ ticketUsdc(v) \in Nat
           /\ ticketUsdc(v) <= v + TicketCut \div 2
           /\ v = 0 => ticketUsdc(v) = 0
<1> DEFINE half == TicketCut \div 2
           x == v + half
           n == x \div TicketCut
<1>1. half \in Nat /\ half < TicketCut
  BY Scales
<1> HIDE DEF half
<1>2. x \in Nat
  BY <1>1
<1>3. n \in Nat /\ n * TicketCut <= x
  <2> HIDE DEF x
  <2> QED
    BY <1>2, Scales, DivBounds
<1>4. v = 0 => n = 0
  <2>1. v = 0 => x < (0 + 1) * TicketCut
    BY <1>1, Scales
  <2> HIDE DEF x
  <2>2. v = 0 => n <= 0
    BY <1>2, <2>1, Scales, DivAtMost
  <2> QED
    BY <1>3, <2>2
<1>5. n * TicketCut \in Nat /\ (n = 0 => n * TicketCut = 0)
  <2> HIDE DEF n
  <2> QED
    BY <1>3, Scales, ProductNat
<1>6. ticketUsdc(v) = n * TicketCut
  BY DEF ticketUsdc, half
<1> HIDE DEF n
<1> QED
  BY <1>3, <1>4, <1>5, <1>6 DEF half

LEMMA MaxIsNat ==
    ASSUME NEW balance \in Nat, NEW notional \in Nat \ {0}, NEW cap \in Nat \ {0}
    PROVE  /\ maxCollateralFor(balance, notional, cap) \in Nat
           /\ maxCollateralFor(balance, notional, cap)
                = IF balance = 0 THEN 0
                  ELSE maxSeriesLiability(Stock(balance, notional, cap), notional, cap)
<1>1. maxCollateralFor(balance, notional, cap)
        = IF balance = 0 THEN 0
          ELSE maxSeriesLiability(Stock(balance, notional, cap), notional, cap)
  BY DEF maxCollateralFor, maxSeriesLiability, Stock
<1> QED
  BY <1>1, StockWithinBudget

\* Typing what MAX shows asks for no more than the balance.
LEMMA MaxFits ==
    ASSUME NEW balance \in Nat, NEW notional \in Nat \ {0}, NEW cap \in Nat \ {0},
           (1 + TicketCut \div 2) * WAD * WAD <= UNITS_STEP * notional * cap
    PROVE  LET shown == ticketUsdc(maxCollateralFor(balance, notional, cap)) IN
           /\ shown \in Nat
           /\ maxSeriesLiability(Stock(shown, notional, cap), notional, cap) <= balance
<1> DEFINE top == maxCollateralFor(balance, notional, cap)
           shown == ticketUsdc(top)
           k == notional * cap
           q == WAD * WAD
           h == TicketCut \div 2
           u == Stock(balance, notional, cap)
           w == Stock(shown, notional, cap)
<1>1. top \in Nat
  BY MaxIsNat
<1>2. shown \in Nat /\ shown <= top + h /\ (top = 0 => shown = 0)
  <2> HIDE DEF top
  <2> QED
    BY <1>1, TicketRounds
<1>3. CASE balance = 0
  <2>1. top = 0
    BY <1>3, MaxIsNat
  <2>2. shown = 0
    BY <1>2, <2>1
  <2>3. maxSeriesLiability(w, notional, cap) <= shown
    <3> HIDE DEF shown
    <3> QED
      BY <1>2, StockWithinBudget
  <2> QED
    BY <1>2, <1>3, <2>2, <2>3
<1>4. CASE balance # 0
  <2>1. top = maxSeriesLiability(u, notional, cap) /\ top <= balance
    BY ZenonT(60), <1>4, MaxIsNat, StockWithinBudget
  <2>2. /\ k \in Nat \ {0} /\ u \in Nat /\ \E i \in Nat : u = i * UNITS_STEP
    BY ZenonT(60), StockBacked
  <2>3. /\ w \in Nat /\ w * k <= shown * q /\ \E i \in Nat : w = i * UNITS_STEP
    <3> HIDE DEF shown
    <3> QED
      BY <1>2, StockBacked
  <2>4. q \in Nat /\ q > 0 /\ h \in Nat /\ UNITS_STEP \in Nat \ {0}
    BY Scales
  <2>5. (1 + h) * q <= UNITS_STEP * k
    <3>1. (1 + h) * WAD * WAD = (1 + h) * q
      BY <2>4, Scales
    <3>2. UNITS_STEP * notional * cap = UNITS_STEP * k
      BY Scales
    <3> QED
      BY <3>1, <3>2
  <2>6. top = CeilDiv(u * k, q) /\ u * k \in Nat
    <3> HIDE DEF u
    <3> QED
      BY ZenonT(60), <2>1, <2>2, LiabilityOf
  <2>7. maxSeriesLiability(w, notional, cap) = CeilDiv(w * k, q) /\ w * k \in Nat
    <3> HIDE DEF w
    <3>1. w \in Nat
      BY <2>3
    <3> QED
      BY <2>2, <3>1, LiabilityOf
  <2> HIDE DEF top, shown, k, q, h, u, w
  <2>8. u * k <= top * q /\ top * q < u * k + q
    <3> DEFINE whole == u * k
    <3>1. whole \in Nat /\ top = CeilDiv(whole, q)
      BY <2>6
    <3> HIDE DEF whole
    <3>2. whole <= top * q /\ top * q < whole + q
      BY <2>4, <3>1, CeilBounds
    <3> QED
      BY <3>2 DEF whole
  <2>9. w <= u
    <3> SUFFICES ASSUME w > u PROVE FALSE
      BY <2>2, <2>3
    <3>1. PICK i \in Nat : u = i * UNITS_STEP
      BY <2>2
    <3>2. PICK j \in Nat : w = j * UNITS_STEP
      BY <2>3
    <3>3. i + 1 <= j
      <4> SUFFICES ASSUME j <= i PROVE FALSE
        OBVIOUS
      <4>1. j * UNITS_STEP <= i * UNITS_STEP
        BY <2>4, TimesMonotone
      <4> QED
        BY <2>2, <2>3, <3>1, <3>2, <4>1
    <3>4. (i + 1) * UNITS_STEP <= j * UNITS_STEP /\ (i + 1) * UNITS_STEP = u + UNITS_STEP
      BY <2>4, <3>1, <3>3, TimesMonotone
    <3>5. u + UNITS_STEP <= w
      BY <3>2, <3>4
    <3>6. (u + UNITS_STEP) * k <= w * k
      BY <2>2, <2>3, <2>4, <3>5, TimesMonotone
    <3>7. shown * q <= (top + h) * q
      BY <1>1, <1>2, <2>4, TimesMonotone
    <3>8. /\ (u + UNITS_STEP) * k = u * k + UNITS_STEP * k
          /\ (top + h) * q = top * q + h * q
          /\ (1 + h) * q = q + h * q
      BY <1>1, <2>2, <2>4
    <3>9. /\ UNITS_STEP * k \in Nat /\ h * q \in Nat /\ top * q \in Nat /\ shown * q \in Nat
      BY <1>1, <1>2, <2>2, <2>4, ProductNat
    <3> DEFINE a == u * k
               b == UNITS_STEP * k
               c == h * q
               d == top * q
               e == shown * q
               f == w * k
    <3>10. /\ a \in Nat /\ b \in Nat /\ c \in Nat /\ d \in Nat /\ e \in Nat /\ f \in Nat
           /\ a + b <= f /\ f <= e /\ e <= d + c /\ d < a + q /\ q + c <= b
      BY <2>3, <2>5, <2>6, <2>7, <2>8, <3>6, <3>7, <3>8, <3>9
    <3> HIDE DEF a, b, c, d, e, f
    <3> QED
      BY <2>4, <3>10
  <2>10. w * k <= top * q
    <3>1. w * k <= u * k
      BY <2>2, <2>3, <2>9, TimesMonotone
    <3>2. top * q \in Nat
      BY <1>1, <2>4, ProductNat
    <3> QED
      BY <2>6, <2>7, <2>8, <3>1, <3>2
  <2>11. CeilDiv(w * k, q) <= top /\ CeilDiv(w * k, q) \in Nat
    <3> DEFINE whole == w * k
    <3>1. whole \in Nat /\ whole <= top * q
      BY <2>7, <2>10
    <3> HIDE DEF whole
    <3>2. CeilDiv(whole, q) <= top /\ CeilDiv(whole, q) \in Nat
      BY <1>1, <2>4, <3>1, CeilAtMost, CeilBounds
    <3> QED
      BY <3>2 DEF whole
  <2>12. maxSeriesLiability(w, notional, cap) <= balance
    BY <1>1, <2>1, <2>7, <2>11
  <2> QED
    BY <1>2, <2>12 DEF shown, top, w
<1> QED
  BY <1>3, <1>4

-----------------------------------------------------------------------------
(* The price while the sale goes on *)

\* Lifted by what the headroom leaves, the price still fits under the cap.
LEMMA HeadroomFits ==
    ASSUME NEW anchor \in Nat, NEW spread \in Nat, NEW cap \in Nat \ {0},
           mulDivUp(anchor, BPS + spread, BPS) <= cap,
           NEW lift \in Nat, lift <= headroom(anchor, spread, cap)
    PROVE  /\ (anchor + lift) * (BPS + spread) <= cap * BPS
           /\ lift <= cap
<1> DEFINE b == BPS + spread
           x == anchor * b
           y == cap * BPS
           ceiling == y \div b
<1>1. BPS \in Nat \ {0} /\ b \in Nat \ {0}
  BY Scales
<1>2. x \in Nat /\ y \in Nat
  <2> HIDE DEF b
  <2> QED
    BY <1>1, ProductNat
<1>3. x <= y
  <2>1. mulDivUp(anchor, b, BPS) = CeilDiv(x, BPS)
    BY DEF mulDivUp
  <2> HIDE DEF x, b
  <2>2. x \in Nat /\ BPS \in Nat /\ BPS > 0
    BY <1>1, <1>2
  <2>3. CeilDiv(x, BPS) \in Nat /\ x <= CeilDiv(x, BPS) * BPS
    BY <2>2, CeilBounds
  <2>4. CeilDiv(x, BPS) <= cap
    BY <2>1 DEF b
  <2>5. CeilDiv(x, BPS) * BPS <= cap * BPS /\ CeilDiv(x, BPS) * BPS \in Nat
    BY <1>1, <2>3, <2>4, TimesMonotone, ProductNat
  <2> QED
    BY <1>2, <2>3, <2>5
<1>4. headroom(anchor, spread, cap) = IF ceiling > anchor THEN ceiling - anchor ELSE 0
  BY DEF headroom
<1>5. ceiling \in Nat /\ ceiling * b <= y
  <2> HIDE DEF y, b
  <2> QED
    BY <1>1, <1>2, DivBounds
<1>6. ceiling <= cap
  <2>1. cap * BPS <= cap * b
    BY <1>1
  <2>2. (cap + 1) * b = cap * b + b /\ cap * b \in Nat
    <3> HIDE DEF b
    <3> QED
      BY <1>1, ProductNat
  <2>3. y < (cap + 1) * b
    BY <1>1, <1>2, <2>1, <2>2
  <2> HIDE DEF y, b
  <2> QED
    BY <1>1, <1>2, <2>3, DivAtMost
<1> HIDE DEF ceiling
<1>7. lift <= cap
  BY <1>4, <1>5, <1>6
<1>8. (anchor + lift) * b <= y
  <2> HIDE DEF b, y
  <2>1. CASE lift = 0
    <3>1. (anchor + lift) * b = x
      BY <2>1 DEF x
    <3> QED
      BY <1>3, <3>1
  <2>2. CASE lift > 0
    <3>1. anchor + lift <= ceiling
      BY <1>4, <1>5, <2>2
    <3>2. (anchor + lift) * b <= ceiling * b
      BY <1>1, <1>5, <3>1, TimesMonotone
    <3>3. (anchor + lift) * b \in Nat /\ ceiling * b \in Nat
      BY <1>1, <1>5, ProductNat
    <3> QED
      BY <1>2, <1>5, <3>2, <3>3
  <2> QED
    BY <2>1, <2>2
<1> QED
  BY <1>7, <1>8 DEF b, y

LEMMA HeadroomNat ==
    ASSUME NEW anchor \in Nat, NEW spread \in Nat, NEW cap \in Nat
    PROVE  headroom(anchor, spread, cap) \in Nat
<1> DEFINE y == cap * BPS
           b == BPS + spread
<1>1. y \in Nat /\ b \in Nat \ {0}
  BY Scales, ProductNat
<1>2. headroom(anchor, spread, cap) = IF y \div b > anchor THEN y \div b - anchor ELSE 0
  BY DEF headroom
<1> HIDE DEF y, b
<1>3. y \div b \in Nat
  BY <1>1, DivBounds
<1> QED
  BY <1>2, <1>3

LEMMA ImpactFits ==
    ASSUME NEW in, TypedInputs(in), NEW anchor \in Nat, NEW spread \in Nat,
           NEW cap \in Nat \ {0}, NEW maxUnits \in Nat, maxUnits >= WAD,
           mulDivUp(anchor, BPS + spread, BPS) <= cap
    PROVE  LET i == ImpactPart(in, anchor, spread, cap, maxUnits) IN
           /\ i.errors = {} => i.impact \in 0 .. cap
           /\ in.ov["impactPerUnit"] = Absent => i.askAtSellOut <= cap
<1> DEFINE liftOv == in.ov["selloutLiftBps"]
           liftBps == IF Positive(liftOv) THEN liftOv ELSE SELLOUT_LIFT_BPS
           wished == (anchor * liftBps) \div BPS
           lift == Lesser(wished, headroom(anchor, spread, cap))
           lifted == lift * WAD
           derived == lifted \div maxUnits
           v == in.ov["impactPerUnit"]
           taken == IsNumber(v) /\ v >= 0 /\ v <= cap
           impact == IF taken THEN v ELSE IF maxUnits > 0 THEN derived ELSE 0
           sold == (impact * maxUnits) \div WAD
           atSellOut == anchor + sold
           ask == mulDivUp(Lesser(atSellOut, cap), BPS + spread, BPS)
           errors == IF v = Absent \/ taken THEN {}
                     ELSE {IF IsNumber(v) /\ v > cap THEN "impact-range" ELSE "impact-parse"}
           i == ImpactPart(in, anchor, spread, cap, maxUnits)
<1>1. liftOv \in Typed /\ v \in Typed
  BY OverrideTyped DEF OverrideKeys
<1>2. i = [impact |-> impact, varianceAtSellOut |-> atSellOut, askAtSellOut |-> ask,
           errors |-> errors]
  BY DEF ImpactPart
<1>3. i.impact = impact /\ i.askAtSellOut = ask /\ i.errors = errors
  <2> HIDE DEF i, impact, atSellOut, ask, errors
  <2> QED
    BY <1>2
<1> HIDE DEF i
<1>4. wished \in Nat
  <2>1. liftBps \in Nat
    <3>1. SELLOUT_LIFT_BPS \in Nat
      BY Scales DEF SELLOUT_LIFT_BPS
    <3>2. Positive(liftOv) => liftOv \in Nat
      BY <1>1, PositiveTyped
    <3> HIDE DEF liftOv
    <3> QED
      BY <3>1, <3>2
  <2> HIDE DEF liftBps
  <2> DEFINE x == anchor * liftBps
  <2>2. x \in Nat
    BY <2>1, ProductNat
  <2> HIDE DEF x
  <2>3. x \div BPS \in Nat
    BY <2>2, Scales, DivBounds
  <2> QED
    BY <2>3 DEF x
<1> HIDE DEF wished
<1>5. lift \in Nat /\ lift <= headroom(anchor, spread, cap)
  <2> DEFINE room == headroom(anchor, spread, cap)
  <2>1. room \in Nat
    BY HeadroomNat
  <2> HIDE DEF room
  <2>2. Lesser(wished, room) \in Nat /\ Lesser(wished, room) <= room
    BY <1>4, <2>1 DEF Lesser
  <2> QED
    BY <2>2 DEF room
<1> HIDE DEF lift
<1>6. (anchor + lift) * (BPS + spread) <= cap * BPS /\ lift <= cap
  BY <1>5, HeadroomFits
<1>7. /\ lifted \in Nat /\ derived \in Nat
      /\ derived * maxUnits <= lifted /\ derived <= lift
  <2>1. lifted \in Nat
    BY <1>5, Scales, ProductNat
  <2>2. lifted < (lift + 1) * maxUnits
    <3>1. lift * WAD <= lift * maxUnits
      BY <1>5, Scales
    <3>2. (lift + 1) * maxUnits = lift * maxUnits + maxUnits /\ lift * maxUnits \in Nat
      BY <1>5, ProductNat
    <3> QED
      BY <2>1, <3>1, <3>2, Scales
  <2> HIDE DEF lifted
  <2>3. maxUnits > 0
    BY Scales
  <2> QED
    BY <1>5, <2>1, <2>2, <2>3, DivBounds, DivAtMost
<1> HIDE DEF derived
<1>8. errors = {} => impact \in 0 .. cap
  <2>1. taken => v \in 0 .. cap
    BY <1>1, NumberTyped
  <2>2. (IF maxUnits > 0 THEN derived ELSE 0) \in 0 .. cap
    BY <1>5, <1>6, <1>7
  <2> HIDE DEF taken, v, errors
  <2> QED
    BY <2>1, <2>2
<1>9. ASSUME v = Absent PROVE ask <= cap
  <2>1. impact = derived
    <3>1. ~taken
      BY <1>9 DEF IsNumber
    <3> HIDE DEF taken
    <3> QED
      BY <3>1, Scales
  <2> HIDE DEF impact
  <2>2. sold \in Nat /\ sold <= lift
    <3> DEFINE x == impact * maxUnits
    <3>1. x \in Nat /\ x <= lift * WAD
      BY <1>7, <2>1, ProductNat DEF lifted
    <3>2. x < (lift + 1) * WAD
      BY <1>5, <3>1, Scales
    <3> HIDE DEF x
    <3>3. x \div WAD \in Nat /\ x \div WAD <= lift
      BY <1>5, <3>1, <3>2, Scales, DivBounds, DivAtMost
    <3> QED
      BY <3>3 DEF x
  <2> HIDE DEF sold
  <2> DEFINE a == Lesser(atSellOut, cap)
             b == BPS + spread
             x == a * b
  <2>3. a \in Nat /\ a <= anchor + lift
    BY <1>5, <2>2 DEF Lesser
  <2>4. b \in Nat
    BY Scales
  <2>5. ask = CeilDiv(x, BPS)
    BY DEF mulDivUp
  <2>6. (anchor + lift) * b <= cap * BPS
    BY <1>6
  <2> HIDE DEF a, b, ask
  <2>7. x \in Nat /\ x <= (anchor + lift) * b
    BY <1>5, <2>3, <2>4, ProductNat, TimesMonotone
  <2>8. (anchor + lift) * b \in Nat /\ cap * BPS \in Nat
    BY <1>5, <2>4, Scales, ProductNat
  <2> HIDE DEF x
  <2>9. x <= cap * BPS
    BY <2>6, <2>7, <2>8
  <2> QED
    BY <2>5, <2>7, <2>9, Scales, CeilAtMost
<1> HIDE DEF impact, ask, errors
<1> QED
  BY <1>3, <1>8, <1>9 DEF i, v

LEMMA HalfLifeDerived ==
    ASSUME NEW in, NEW interval, GridStep(interval), in.ov["halfLifeHours"] = Absent
    PROVE  HalfLifePart(in, interval).halfLife \in MIN_HALF_LIFE .. MAX_HALF_LIFE
<1> DEFINE h == halfLifeFor(interval)
<1>1. HalfLifePart(in, interval).halfLife = h
  BY SMT DEF HalfLifePart, IsNumber
<1>2. interval \in Nat
  BY GridStepIs
<1>3. h \in Nat /\ h >= 3600 /\ h <= 43200
  BY <1>2, SMT DEF halfLifeFor, clampInt, HOUR
<1> HIDE DEF h
<1>4. /\ MIN_HALF_LIFE \in Nat /\ MIN_HALF_LIFE <= 3600
      /\ MAX_HALF_LIFE \in Nat /\ 43200 <= MAX_HALF_LIFE
  BY SMT DEF MIN_HALF_LIFE, MAX_HALF_LIFE, DAY
<1>5. h \in MIN_HALF_LIFE .. MAX_HALF_LIFE
  BY <1>3, <1>4, SMT
<1> QED
  BY <1>1, <1>5, SMT

-----------------------------------------------------------------------------
(* The derivation, and what the controller makes of a valid form *)

Anchor(in) == AnchorPart(in).anchor
Spread(in) == SpreadPart(in).spread
CapOf(in) == CapPart(in, Anchor(in), Spread(in))
Notional(in) == NotionalPart(in).notional
Size(in) == SizePart(in, Notional(in), CapOf(in).cap)
Impact(in) == ImpactPart(in, Anchor(in), Spread(in), CapOf(in).cap, Size(in).maxUnits)
HalfLife(in) == HalfLifePart(in, WindowPart(in).interval)

LEMMA Derives ==
    ASSUME NEW in
    PROVE  LET d == deriveSeries(in)
               p == d.draft
               w == WindowPart(in)
           IN  /\ p.start = w.start /\ p.expiry = w.expiry /\ p.saleEnd = w.saleEnd
               /\ p.sampleInterval = w.interval /\ p.unitNotional = Notional(in)
               /\ p.capVariance = CapOf(in).cap /\ p.anchorVariance = Anchor(in)
               /\ p.impactPerUnit = Impact(in).impact /\ p.halfLife = HalfLife(in).halfLife
               /\ p.halfSpreadBps = Spread(in) /\ p.maxUnits = Size(in).maxUnits
               /\ d.committed = Size(in).committed
               /\ d.askAtSellOut = Impact(in).askAtSellOut
               /\ d.valid => /\ CapOf(in).errors = {} /\ w.errors = {}
                             /\ Size(in).errors = {} /\ Impact(in).errors = {}
                             /\ Size(in).maxUnits >= MIN_UNITS /\ Anchor(in) > 0
               /\ "short-balance" \in Size(in).errors => "short-balance" \in d.errors
<1> DEFINE d == deriveSeries(in)
           w == WindowPart(in)
           terms == [start |-> w.start, expiry |-> w.expiry, saleEnd |-> w.saleEnd,
                     sampleInterval |-> w.interval, unitNotional |-> Notional(in),
                     capVariance |-> CapOf(in).cap, anchorVariance |-> Anchor(in),
                     impactPerUnit |-> Impact(in).impact, halfLife |-> HalfLife(in).halfLife,
                     halfSpreadBps |-> Spread(in), maxUnits |-> Size(in).maxUnits]
           errors == AnchorPart(in).errors \cup SpreadPart(in).errors \cup CapOf(in).errors
                       \cup w.errors \cup NotionalPart(in).errors \cup Size(in).errors
                       \cup Impact(in).errors \cup HalfLife(in).errors
           shown == Readouts(Notional(in), Anchor(in), CapOf(in).ask, Spread(in), CapOf(in).cap,
                             Impact(in).impact, Size(in))
           valid == errors = {} /\ Size(in).maxUnits >= MIN_UNITS /\ Anchor(in) > 0
                      /\ CapOf(in).cap > 0
<1>1. d = [draft |-> terms, valid |-> valid, errors |-> errors,
           committed |-> Size(in).committed, samples |-> w.samples,
           checkpointCalls |-> checkpointCallsFor(w.samples),
           askAtSellOut |-> Impact(in).askAtSellOut, shown |-> shown]
  BY DEF deriveSeries, Anchor, Spread, CapOf, Notional, Size, Impact, HalfLife
<1>2. valid => /\ CapOf(in).errors = {} /\ w.errors = {}
               /\ Size(in).errors = {} /\ Impact(in).errors = {}
               /\ Size(in).maxUnits >= MIN_UNITS /\ Anchor(in) > 0
  OBVIOUS
<1>3. "short-balance" \in Size(in).errors => "short-balance" \in errors
  OBVIOUS
<1>4. /\ d.draft = terms /\ d.valid = valid /\ d.errors = errors
      /\ d.committed = Size(in).committed
      /\ d.askAtSellOut = Impact(in).askAtSellOut
  <2> HIDE DEF d, terms, valid, errors, shown
  <2> QED
    BY <1>1
<1>5. /\ terms.start = w.start /\ terms.expiry = w.expiry /\ terms.saleEnd = w.saleEnd
      /\ terms.sampleInterval = w.interval /\ terms.unitNotional = Notional(in)
      /\ terms.capVariance = CapOf(in).cap /\ terms.anchorVariance = Anchor(in)
      /\ terms.impactPerUnit = Impact(in).impact /\ terms.halfLife = HalfLife(in).halfLife
      /\ terms.halfSpreadBps = Spread(in) /\ terms.maxUnits = Size(in).maxUnits
  OBVIOUS
<1> HIDE DEF terms, valid, errors, shown, d
<1> QED
  BY <1>2, <1>3, <1>4, <1>5 DEF d

\* The parts of a form: typed, and within bounds when it is valid.
LEMMA PartsFit ==
    ASSUME NEW in, TypedInputs(in)
    PROVE  /\ Anchor(in) \in Nat
           /\ Spread(in) \in Nat /\ Spread(in) \in MIN_HALF_SPREAD_BPS .. MAX_HALF_SPREAD_BPS
           /\ CapOf(in).cap \in 1 .. MAX_CAP_VARIANCE /\ CapOf(in).cap \in Nat \ {0}
           /\ CapOf(in).errors = {} =>
                /\ Anchor(in) <= CapOf(in).cap
                /\ mulDivUp(Anchor(in), BPS + Spread(in), BPS) <= CapOf(in).cap
           /\ Notional(in) \in Nat \ {0}
           /\ Size(in).maxUnits \in Nat /\ Size(in).committed \in Nat
<1>1. Anchor(in) \in Nat
  BY AnchorNat DEF Anchor
<1>2. Spread(in) \in Nat /\ Spread(in) \in MIN_HALF_SPREAD_BPS .. MAX_HALF_SPREAD_BPS
  BY SpreadInRange DEF Spread
<1>3. /\ CapOf(in).cap \in 1 .. MAX_CAP_VARIANCE
      /\ CapOf(in).errors = {} =>
                /\ Anchor(in) <= CapOf(in).cap
                /\ mulDivUp(Anchor(in), BPS + Spread(in), BPS) <= CapOf(in).cap
  BY <1>1, <1>2, CapFits DEF CapOf
<1>4. CapOf(in).cap \in Nat \ {0}
  BY <1>3, Scales
<1>5. Notional(in) \in Nat \ {0}
  BY NotionalNat DEF Notional
<1>6. Size(in).maxUnits \in Nat /\ Size(in).committed \in Nat
  BY <1>4, <1>5, SizeFits DEF Size
<1> QED
  BY <1>1, <1>2, <1>3, <1>4, <1>5, <1>6

LEMMA WholeSamples ==
    ASSUME NEW n \in Nat, NEW interval \in Nat, interval > 0
    PROVE  (n * interval) \div interval = n /\ (n * interval) % interval = 0
<1> DEFINE x == n * interval
<1>1. x \in Nat
  BY ProductNat
<1>2. x \div interval = n
  BY ExactQuotient
<1> HIDE DEF x
<1>3. x = interval * (x \div interval) + (x % interval)
  BY <1>1
<1>4. x % interval = x - interval * n /\ x % interval \in Int
  BY <1>1, <1>2, <1>3
<1>5. x = interval * n
  BY DEF x
<1> QED
  BY <1>1, <1>2, <1>4, <1>5 DEF x

LEMMA PositiveLiability ==
    ASSUME NEW units \in Nat \ {0}, NEW notional \in Nat \ {0}, NEW cap \in Nat \ {0}
    PROVE  maxSeriesLiability(units, notional, cap) > 0
<1> DEFINE k == notional * cap
           x == units * k
           q == WAD * WAD
<1>1. k \in Nat /\ k > 0
  BY ProductNat
<1>2. x \in Nat /\ x > 0
  <2> HIDE DEF k
  <2> QED
    BY <1>1, ProductNat
<1>3. q \in Nat /\ q > 0
  BY Scales
<1>4. maxSeriesLiability(units, notional, cap) = CeilDiv(x, q)
  BY LiabilityOf
<1> HIDE DEF x, q
<1> QED
  BY <1>2, <1>3, <1>4, CeilBounds

\* The sale of a form whose start is the page's lasts this long at least.
Grace(in) ==
    300 + (IF in.ov["saleMode"] = "start" THEN 0 ELSE deriveSeries(in).draft.sampleInterval)

LEMMA ValidAccepted ==
    ASSUME NEW in, TypedInputs(in), deriveSeries(in).valid, NEW at \in Int
    PROVE  LET r == Refusals(deriveSeries(in).draft, at) IN
           /\ r \subseteq {"BadHalfLife", "BadSaleEnd"}
           /\ "BadHalfLife" \in r => in.ov["halfLifeHours"] # Absent
           /\ "BadSaleEnd" \in r => in.ov["start"] # Absent \/ at > in.nowTs + Grace(in)
<1> DEFINE d == deriveSeries(in)
           p == d.draft
           w == WindowPart(in)
           r == Refusals(p, at)
           samples == (p.expiry - p.start) \div p.sampleInterval
           r1 == IF p.expiry <= p.start THEN {"BadWindow"} ELSE {}
           r2 == IF p.sampleInterval < 300 \/ (p.expiry - p.start) % p.sampleInterval # 0
                 THEN {"BadInterval"} ELSE {}
           r3 == IF samples \notin MIN_SAMPLES .. CONTRACT_MAX_SAMPLES THEN {"BadSampleCount"} ELSE {}
           r4 == IF p.saleEnd < at \/ p.start > p.saleEnd \/ p.saleEnd > p.expiry
                 THEN {"BadSaleEnd"} ELSE {}
           r5 == IF p.unitNotional = 0 THEN {"BadNotional"} ELSE {}
           r6 == IF p.capVariance \notin 1 .. MAX_CAP_VARIANCE THEN {"BadCap"} ELSE {}
           r7 == IF p.anchorVariance \notin 1 .. p.capVariance THEN {"BadAnchor"} ELSE {}
           r8 == IF p.impactPerUnit > p.capVariance THEN {"BadImpact"} ELSE {}
           r9 == IF p.halfSpreadBps \notin MIN_HALF_SPREAD_BPS .. MAX_HALF_SPREAD_BPS
                 THEN {"BadSpread"} ELSE {}
           r10 == IF p.halfLife # 0 /\ p.halfLife \notin MIN_HALF_LIFE .. MAX_HALF_LIFE
                  THEN {"BadHalfLife"} ELSE {}
           r11 == IF p.maxUnits = 0 THEN {"BadMaxUnits"} ELSE {}
           r12 == IF maxSeriesLiability(p.maxUnits, p.unitNotional, p.capVariance) = 0
                  THEN {"LiabilityOutOfRange"} ELSE {}
<1>1. /\ p.start = w.start /\ p.expiry = w.expiry /\ p.saleEnd = w.saleEnd
      /\ p.sampleInterval = w.interval /\ p.unitNotional = Notional(in)
      /\ p.capVariance = CapOf(in).cap /\ p.anchorVariance = Anchor(in)
      /\ p.impactPerUnit = Impact(in).impact /\ p.halfLife = HalfLife(in).halfLife
      /\ p.halfSpreadBps = Spread(in) /\ p.maxUnits = Size(in).maxUnits
      /\ CapOf(in).errors = {} /\ w.errors = {} /\ Impact(in).errors = {}
      /\ Size(in).maxUnits >= MIN_UNITS /\ Anchor(in) > 0
  BY Derives
<1>2. r = ((((((((((r1 \cup r2) \cup r3) \cup r4) \cup r5) \cup r6) \cup r7) \cup r8) \cup r9)
             \cup r10) \cup r11) \cup r12
  BY DEF Refusals
<1>3. /\ GridStep(w.interval)
      /\ w.samples \in Nat \ {0} /\ Sampled(w.samples)
      /\ w.start \in Int
      /\ w.expiry = w.start + w.samples * w.interval
      /\ in.ov["start"] = Absent =>
           /\ w.start >= in.nowTs + 300
           /\ w.saleEnd \in Int /\ w.saleEnd <= w.expiry
           /\ w.saleEnd >= w.start + (IF in.ov["saleMode"] = "start" THEN 0 ELSE w.interval)
  BY <1>1, WindowLies
<1>4. Grace(in) = 300 + (IF in.ov["saleMode"] = "start" THEN 0 ELSE w.interval)
  BY <1>1 DEF Grace
<1>5. in.nowTs \in Int
  BY DEF TypedInputs
<1> HIDE DEF r, w, p, d
<1>6. r1 = {} /\ r2 = {} /\ r3 = {}
  <2> DEFINE n == w.samples
             i == w.interval
             x == n * i
  <2>1. n \in Nat \ {0} /\ Sampled(n) /\ i \in Nat /\ i >= 300
    BY <1>3, GridStepIs, SMT
  <2> HIDE DEF n, i
  <2>2. x \in Nat /\ x > 0 /\ x \div i = n /\ x % i = 0
    BY <2>1, ProductNat, WholeSamples
  <2> HIDE DEF x
  <2>3. w.expiry = w.start + x /\ w.start \in Int
    BY <1>3 DEF x, n, i
  <2>4. p.expiry - p.start = x /\ p.sampleInterval = i
    BY <1>1, <2>2, <2>3 DEF i
  <2>5. ~(p.expiry <= p.start)
    BY <1>1, <2>2, <2>3
  <2>6. samples = n
    BY <2>2, <2>4
  <2> HIDE DEF samples
  <2> QED
    BY <2>1, <2>2, <2>4, <2>5, <2>6, SMT DEF Sampled
<1>7. "BadSaleEnd" \in r4 => in.ov["start"] # Absent \/ at > in.nowTs + Grace(in)
  <2> DEFINE more == IF in.ov["saleMode"] = "start" THEN 0 ELSE w.interval
  <2>1. more \in Nat /\ Grace(in) = 300 + more
    BY <1>3, <1>4, GridStepIs
  <2>2. in.ov["start"] = Absent => /\ w.start >= in.nowTs + 300 /\ w.start \in Int
                                   /\ w.saleEnd \in Int /\ w.saleEnd <= w.expiry
                                   /\ w.saleEnd >= w.start + more
    BY <1>3
  <2> HIDE DEF more
  <2>3. in.ov["start"] = Absent /\ ~(at > in.nowTs + Grace(in)) =>
          ~(p.saleEnd < at \/ p.start > p.saleEnd \/ p.saleEnd > p.expiry)
    <3> SUFFICES ASSUME in.ov["start"] = Absent, at <= in.nowTs + Grace(in)
                 PROVE  ~(p.saleEnd < at \/ p.start > p.saleEnd \/ p.saleEnd > p.expiry)
      BY <1>5, <2>1
    <3>1. w.expiry \in Int
      <4> DEFINE x == w.samples * w.interval
      <4>1. x \in Nat
        BY <1>3, GridStepIs, ProductNat
      <4>2. w.expiry = w.start + x
        BY <1>3
      <4> HIDE DEF x
      <4> QED
        BY <1>3, <4>1, <4>2
    <3> QED
      BY <1>1, <1>5, <2>1, <2>2, <3>1
  <2> QED
    BY <2>3
<1>8. r5 = {} /\ r6 = {} /\ r7 = {} /\ r9 = {}
  <2>1. /\ Notional(in) # 0
        /\ CapOf(in).cap \in 1 .. MAX_CAP_VARIANCE
        /\ Anchor(in) \in 1 .. CapOf(in).cap
        /\ Spread(in) \in MIN_HALF_SPREAD_BPS .. MAX_HALF_SPREAD_BPS
    BY <1>1, PartsFit
  <2> QED
    BY <1>1, <2>1
<1>9. r8 = {}
  <2>1. /\ Anchor(in) \in Nat /\ Spread(in) \in Nat /\ CapOf(in).cap \in Nat \ {0}
        /\ Size(in).maxUnits \in Nat /\ Size(in).maxUnits >= WAD
        /\ mulDivUp(Anchor(in), BPS + Spread(in), BPS) <= CapOf(in).cap
    BY <1>1, PartsFit, Scales
  <2>2. Impact(in).impact \in 0 .. CapOf(in).cap
    BY <1>1, <2>1, ImpactFits DEF Impact
  <2> QED
    BY <1>1, <2>1, <2>2
<1>10. "BadHalfLife" \in r10 => in.ov["halfLifeHours"] # Absent
  <2>1. in.ov["halfLifeHours"] = Absent => HalfLife(in).halfLife \in MIN_HALF_LIFE .. MAX_HALF_LIFE
    BY <1>3, HalfLifeDerived DEF HalfLife, w
  <2> QED
    BY <1>1, <2>1
<1>11. r11 = {} /\ r12 = {}
  <2>1. /\ Size(in).maxUnits \in Nat \ {0} /\ Notional(in) \in Nat \ {0}
        /\ CapOf(in).cap \in Nat \ {0}
    BY <1>1, PartsFit, Scales
  <2>2. maxSeriesLiability(Size(in).maxUnits, Notional(in), CapOf(in).cap) # 0
    BY <2>1, PositiveLiability
  <2> QED
    BY <1>1, <2>1, <2>2
<1>12. r = r4 \cup r10
  <2> HIDE DEF r1, r2, r3, r4, r5, r6, r7, r8, r9, r10, r11, r12
  <2> QED
    BY <1>2, <1>6, <1>8, <1>9, <1>11
<1>13. r4 \subseteq {"BadSaleEnd"} /\ r10 \subseteq {"BadHalfLife"}
  OBVIOUS
<1> HIDE DEF r4, r10
<1> QED
  BY <1>7, <1>10, <1>12, <1>13 DEF r, p, d

-----------------------------------------------------------------------------
(* What the page promises of a form *)

LEMMA TicketTopUp ==
    ASSUME NEW in, NEW d, NEW w
    PROVE  WriteTicket(in, d, w, FALSE).topUp = Floored(d.committed, w.free)
<1> DEFINE t == WriteTicket(in, d, w, FALSE)
<1>1. t.topUp = Floored(d.committed, w.free)
  BY DEF WriteTicket
<1> QED
  BY <1>1

LEMMA ValidPromises ==
    ASSUME NEW in, TypedInputs(in), deriveSeries(in).valid
    PROVE  LET d == deriveSeries(in) IN
           /\ d.committed \in Nat
           /\ in.ov["maxUnits"] = Absent => d.committed <= in.collateral
           /\ in.ov["impactPerUnit"] = Absent => d.askAtSellOut <= d.draft.capVariance
           /\ in.wallet # Absent => d.committed <= in.wallet
<1> DEFINE d == deriveSeries(in)
<1>1. /\ d.draft.capVariance = CapOf(in).cap
      /\ d.committed = Size(in).committed /\ d.askAtSellOut = Impact(in).askAtSellOut
      /\ CapOf(in).errors = {} /\ Size(in).errors = {} /\ Impact(in).errors = {}
      /\ Size(in).maxUnits >= MIN_UNITS /\ Anchor(in) > 0
  BY Derives
<1>2. /\ Anchor(in) \in Nat /\ Spread(in) \in Nat /\ CapOf(in).cap \in Nat \ {0}
      /\ Notional(in) \in Nat \ {0}
      /\ Size(in).maxUnits \in Nat /\ Size(in).maxUnits >= WAD
      /\ mulDivUp(Anchor(in), BPS + Spread(in), BPS) <= CapOf(in).cap
  BY <1>1, PartsFit, Scales
<1> HIDE DEF d
<1>3. LET z == Size(in) IN
      /\ z.committed \in Nat
      /\ z.committed = IF z.maxUnits > 0
                       THEN maxSeriesLiability(z.maxUnits, Notional(in), CapOf(in).cap) ELSE 0
      /\ "short-balance" \in z.errors <=> in.wallet # Absent /\ z.committed > in.wallet
      /\ in.ov["maxUnits"] = Absent => z.committed <= Budget(in)
  BY <1>2, SizeFits DEF Size
<1>4. Size(in).committed > 0
  <2>1. Size(in).maxUnits > 0
    BY <1>2, Scales
  <2>2. maxSeriesLiability(Size(in).maxUnits, Notional(in), CapOf(in).cap) > 0
    BY <1>2, <2>1, PositiveLiability
  <2> QED
    BY <1>3, <2>1, <2>2
<1>5. in.ov["maxUnits"] = Absent => Size(in).committed <= in.collateral
  <2>1. Budget(in) = IF Positive(in.collateral) THEN in.collateral ELSE 0
    BY DEF Budget
  <2> QED
    BY <1>3, <1>4, <2>1
<1>6. in.ov["impactPerUnit"] = Absent => Impact(in).askAtSellOut <= CapOf(in).cap
  BY <1>2, ImpactFits DEF Impact
<1>7. in.wallet # Absent => Size(in).committed <= in.wallet
  BY <1>1, <1>3 DEF TypedInputs
<1> QED
  BY <1>1, <1>3, <1>5, <1>6, <1>7 DEF d

\* MAX, typed into a form with the same overrides and the same wallet.
LEMMA MaxPromises ==
    ASSUME NEW in, TypedInputs(in), NEW other, TypedInputs(other),
           other.ov = in.ov, other.wallet = in.wallet, in.wallet # Absent,
           in.ov["maxUnits"] = Absent, StepsShow(deriveSeries(in).draft),
           other.collateral = ticketUsdc(maxCollateralFor(in.wallet,
                                                          deriveSeries(in).draft.unitNotional,
                                                          deriveSeries(in).draft.capVariance))
    PROVE  "short-balance" \notin SizePart(other, deriveSeries(in).draft.unitNotional,
                                           deriveSeries(in).draft.capVariance).errors
<1> DEFINE notional == Notional(in)
           cap == CapOf(in).cap
           b == in.wallet
           shown == ticketUsdc(maxCollateralFor(b, notional, cap))
           z == SizePart(other, notional, cap)
<1>1. deriveSeries(in).draft.unitNotional = notional /\ deriveSeries(in).draft.capVariance = cap
  BY Derives
<1>2. notional \in Nat \ {0} /\ cap \in Nat \ {0} /\ b \in Nat
  BY PartsFit DEF TypedInputs
<1>3. (1 + TicketCut \div 2) * WAD * WAD <= UNITS_STEP * notional * cap
  BY <1>1 DEF StepsShow
<1>4. other.collateral = shown
  BY <1>1
<1> HIDE DEF notional, cap
<1>5. /\ shown \in Nat
      /\ maxSeriesLiability(Stock(shown, notional, cap), notional, cap) <= b
  BY <1>2, <1>3, MaxFits
<1> HIDE DEF shown
<1>6. Budget(other) = shown
  BY <1>4, <1>5, FormsAssumption, TypingAssumption DEF Budget, Positive, IsNumber
<1>7. /\ z.committed \in Nat
      /\ z.committed = IF z.maxUnits > 0 THEN maxSeriesLiability(z.maxUnits, notional, cap) ELSE 0
      /\ "short-balance" \in z.errors <=> other.wallet # Absent /\ z.committed > other.wallet
      /\ z.maxUnits = Stock(Budget(other), notional, cap)
  BY <1>2, SizeFits
<1> HIDE DEF z
<1>8. z.committed <= b
  BY <1>2, <1>5, <1>6, <1>7
<1>9. "short-balance" \notin z.errors
  BY <1>2, <1>7, <1>8
<1> QED
  BY <1>1, <1>9 DEF z

-----------------------------------------------------------------------------
(* The form of a paired market *)

GroupFields == {"window", "sale", "capVol", "capPayout", "maxUnits", "ask", "bid"}
Quotes == {"ask", "bid"}
GroupForms ==
    {f \in [GroupFields -> Typed \cup [Side -> Typed]] :
        /\ \A k \in GroupFields \ Quotes : f[k] \in Typed
        /\ \A k \in Quotes : f[k] \in [Side -> Typed]}

LEMMA GroupFormFields ==
    ASSUME NEW f \in GroupForms
    PROVE  /\ f.window \in Typed /\ f.sale \in Typed /\ f.capVol \in Typed
           /\ f.capPayout \in Typed /\ f.maxUnits \in Typed
           /\ f.ask \in [Side -> Typed] /\ f.bid \in [Side -> Typed]
  BY DEF GroupForms, GroupFields, Quotes

LEMMA GroupAccepted ==
    ASSUME NEW f \in GroupForms, NEW c \in Int, NEW at \in Int,
           GroupTerms(f, c) # Unknown,
           Rounded(f.window) % HOUR = 0, Rounded(f.window) \div HOUR \in 2 .. 256,
           varianceFromVol(f.capVol) <= MAX_CAP_VARIANCE,
           \A s \in Side : f.ask[s] \in 1 .. f.capPayout,
           Rounded(f.sale) >= HOUR + (at - c), Rounded(f.window) >= HOUR + (at - c)
    PROVE  GroupRefusals(GroupTerms(f, c), at) = {}
<1> DEFINE start == (c \div HOUR) * HOUR
           span == Rounded(f.window)
           sale == Rounded(f.sale)
           expiry == start + span
           cap == varianceFromVol(f.capVol)
           p == [start |-> start, expiry |-> expiry,
                 saleEnd |-> Lesser(start + sale, expiry), sampleInterval |-> HOUR,
                 capVariance |-> cap, capPayout |-> f.capPayout,
                 maxUnits |-> f.maxUnits, ask |-> f.ask, bid |-> f.bid]
           width == p.expiry - p.start
           r1 == IF width <= 0 THEN {"BadWindow"} ELSE {}
           r2 == IF width % p.sampleInterval # 0 THEN {"BadInterval"} ELSE {}
           r3 == IF width \div p.sampleInterval \notin MIN_SAMPLES .. CONTRACT_MAX_SAMPLES
                 THEN {"BadSampleCount"} ELSE {}
           r4 == IF p.saleEnd < at \/ p.start > p.saleEnd \/ p.saleEnd > p.expiry
                 THEN {"BadSaleEnd"} ELSE {}
           r5 == IF p.capVariance \notin 1 .. MAX_CAP_VARIANCE THEN {"BadCap"} ELSE {}
           r6 == IF p.capPayout = 0 \/ maxGroupLiability(p.maxUnits, p.capPayout) = 0
                 THEN {"BadScale"} ELSE {}
           r7 == IF p.maxUnits = 0 THEN {"BadMaxUnits"} ELSE {}
           r8 == IF \E s \in Side : p.ask[s] = 0 \/ p.bid[s] > p.ask[s] \/ p.ask[s] > p.capPayout
                 THEN {"BadPrices"} ELSE {}
<1>1. /\ GroupTerms(f, c) = p
      /\ c > 0 /\ Positive(f.window) /\ Positive(f.sale) /\ Positive(f.capPayout)
      /\ Positive(f.maxUnits) /\ Positive(f.capVol) /\ cap > 0 /\ QuotesFit(f)
  BY DEF GroupTerms
<1>2. GroupRefusals(p, at) = ((((((r1 \cup r2) \cup r3) \cup r4) \cup r5) \cup r6) \cup r7) \cup r8
  BY DEF GroupRefusals
<1>3. /\ f.window \in Nat \ {0} /\ f.sale \in Nat \ {0} /\ f.capPayout \in Nat \ {0}
      /\ f.maxUnits \in Nat \ {0} /\ f.capVol \in Nat \ {0}
  BY <1>1, GroupFormFields, PositiveTyped
<1>4. span \in Nat /\ sale \in Nat
  BY <1>3 DEF Rounded
<1>5. cap \in Nat \ {0}
  BY <1>1, <1>3, VarianceOfVol
<1>6. /\ p.start = start /\ p.expiry = expiry /\ p.saleEnd = Lesser(start + sale, expiry)
      /\ p.sampleInterval = HOUR /\ p.capVariance = cap /\ p.capPayout = f.capPayout
      /\ p.maxUnits = f.maxUnits /\ p.ask = f.ask /\ p.bid = f.bid
  OBVIOUS
<1>7. start \in Int /\ start + HOUR > c
  BY DEF HOUR
<1>8. span \div HOUR \in 2 .. 256 /\ span % HOUR = 0
      /\ sale >= HOUR + (at - c) /\ span >= HOUR + (at - c) /\ cap <= MAX_CAP_VARIANCE
  OBVIOUS
<1> HIDE DEF p, start, span, sale, cap
<1>9. width = span /\ span >= 2 * HOUR
  BY <1>4, <1>6, <1>7, <1>8 DEF HOUR
<1>10. r1 = {} /\ r2 = {} /\ r3 = {}
  <2> HIDE DEF width
  <2> QED
    BY <1>4, <1>6, <1>8, <1>9 DEF HOUR, MIN_SAMPLES, CONTRACT_MAX_SAMPLES
<1>11. r4 = {}
  BY <1>4, <1>6, <1>7, <1>8 DEF HOUR, Lesser
<1>12. r5 = {}
  BY <1>5, <1>6, <1>8, Scales
<1>13. r6 = {} /\ r7 = {}
  <2> DEFINE x == f.maxUnits * f.capPayout
  <2>1. x \in Nat /\ x > 0
    BY <1>3, ProductNat
  <2>2. maxGroupLiability(f.maxUnits, f.capPayout) = CeilDiv(x, UNIT)
    BY DEF maxGroupLiability, Up, CeilDiv
  <2> HIDE DEF x
  <2>3. CeilDiv(x, UNIT) > 0
    BY <2>1, Scales, FormsAssumption, CeilBounds
  <2> QED
    BY <1>3, <1>6, <2>2, <2>3
<1>14. r8 = {}
  <2>1. \A s \in Side : f.ask[s] \in Int /\ f.bid[s] \in Int /\ f.bid[s] <= f.ask[s]
    BY <1>1, GroupFormFields, NumberTyped DEF QuotesFit
  <2>2. \A s \in Side : ~(f.ask[s] = 0 \/ f.bid[s] > f.ask[s] \/ f.ask[s] > f.capPayout)
    BY <1>3, <2>1
  <2> QED
    BY <1>6, <2>2
<1> HIDE DEF r1, r2, r3, r4, r5, r6, r7, r8
<1> QED
  BY <1>1, <1>2, <1>10, <1>11, <1>12, <1>13, <1>14

-----------------------------------------------------------------------------
(* The inductive invariant *)

SeriesForms ==
    [tenorDays : Int, stance : Stances, customVol : Typed, collateral : Typed, ov : Overrides]
Wallets == [deployed : BOOLEAN, connected : BOOLEAN, usdc : Nat \cup {Absent}, free : Nat]
Reads == [{"1d", "7d", "30d"} -> Nat \cup {Unknown, Bad}]

\* What is typed and read, and the clock that trails.
FormTypes ==
    /\ page \in {"write", "pairs"}
    /\ now \in Nat /\ \E lag \in Lags : clock = now - lag
    /\ page = "write" => form \in SeriesForms
    /\ page = "pairs" => form \in GroupForms
    /\ reads \in Reads /\ wallet \in Wallets

\* The inputs of the derivation with the clock at c.
InputsAt(c) == [Inputs EXCEPT !.nowTs = c]

\* The terms submitted are those of the form as it still is, with a clock
\* that trailed when they were fixed.
SeriesSubmitted ==
    \E lag \in Lags : LET d == deriveSeries(InputsAt(submitted.at - lag)) IN
        d.valid /\ submitted.terms = d.draft
GroupSubmitted ==
    \E lag \in Lags : LET terms == GroupTerms(form, submitted.at - lag) IN
        terms # Unknown /\ submitted.terms = terms

TermsStand ==
    submitted # Unknown =>
        /\ submitted.at \in Nat /\ submitted.at <= now
        /\ page = "write" => SeriesSubmitted
        /\ page = "pairs" => GroupSubmitted

\* What was refused was refused just now.
RefusalStands ==
    refused # Unknown =>
        /\ submitted # Unknown
        /\ refused = IF page = "write" THEN Refusals(submitted.terms, now)
                     ELSE GroupRefusals(submitted.terms, now)

FormsInv == FormTypes /\ TermsStand /\ RefusalStands

LEMMA LagsAre ==
    /\ Lags \subseteq Nat
    /\ MaxLag \in Lags /\ MaxLag \in Nat
    /\ \A lag \in Lags : lag <= MaxLag
  BY FormsAssumption DEF MaxLag

LEMMA InputsTyped ==
    ASSUME FormTypes, page = "write", NEW c \in Int
    PROVE  /\ TypedInputs(InputsAt(c)) /\ InputsAt(c).nowTs = c
           /\ InputsAt(c).ov = form.ov /\ InputsAt(c).collateral = form.collateral
           /\ InputsAt(c).wallet = IF wallet.usdc = Absent THEN Absent
                                   ELSE wallet.usdc + wallet.free
<1> DEFINE read == reads[anchorWindow(form.tenorDays)]
           trailing == IF read \in {Unknown, Bad} THEN Absent ELSE read
           sum == IF wallet.usdc = Absent THEN Absent ELSE wallet.usdc + wallet.free
           pending == read = Unknown
           in == InputsAt(c)
<1>1. /\ form.tenorDays \in Int /\ form.stance \in Stances /\ form.customVol \in Typed
      /\ form.collateral \in Typed /\ form.ov \in Overrides
  BY DEF FormTypes, SeriesForms
<1>2. read \in Nat \cup {Unknown, Bad}
  <2>1. anchorWindow(form.tenorDays) \in {"1d", "7d", "30d"}
    BY DEF anchorWindow
  <2> QED
    BY <2>1 DEF FormTypes, Reads
<1>3. trailing \in Nat \cup {Absent}
  <2> HIDE DEF read
  <2> QED
    BY <1>2
<1>4. sum \in Nat \cup {Absent}
  <2>1. wallet.usdc \in Nat \cup {Absent} /\ wallet.free \in Nat
    BY DEF FormTypes, Wallets
  <2> QED
    BY <2>1
<1>5. in = [tenorDays |-> form.tenorDays, stance |-> form.stance, customVol |-> form.customVol,
            collateral |-> form.collateral, ov |-> form.ov, nowTs |-> c,
            trailing |-> trailing, pending |-> pending, wallet |-> sum]
  BY DEF InputsAt, Inputs
<1> HIDE DEF in, trailing, sum, pending, read
<1>6. /\ in.tenorDays = form.tenorDays /\ in.stance = form.stance /\ in.nowTs = c
      /\ in.customVol = form.customVol /\ in.collateral = form.collateral
      /\ in.ov = form.ov /\ in.trailing = trailing /\ in.wallet = sum
  BY <1>5
<1>7. TypedInputs(in)
  BY <1>1, <1>3, <1>4, <1>6 DEF TypedInputs
<1> QED
  BY <1>6, <1>7 DEF in, sum

LEMMA InputsNow ==
    ASSUME FormTypes
    PROVE  Inputs = InputsAt(clock) /\ clock \in Int
<1>1. Inputs.nowTs = clock
  BY DEF Inputs
<1>2. [Inputs EXCEPT !.nowTs = clock] = Inputs
  BY DEF Inputs
<1>3. clock \in Int
  BY LagsAre DEF FormTypes
<1> QED
  BY <1>2, <1>3 DEF InputsAt

\* The inventory, cap and price of the form as it is.
LEMMA DraftTyped ==
    ASSUME FormTypes, page = "write"
    PROVE  LET p == Derived.draft IN
           /\ p.unitNotional \in Nat \ {0} /\ p.capVariance \in Nat \ {0}
           /\ p.anchorVariance \in Nat
<1>1. TypedInputs(Inputs)
  BY InputsNow, InputsTyped
<1>2. /\ deriveSeries(Inputs).draft.unitNotional = Notional(Inputs)
      /\ deriveSeries(Inputs).draft.capVariance = CapOf(Inputs).cap
      /\ deriveSeries(Inputs).draft.anchorVariance = Anchor(Inputs)
  BY Derives
<1>3. /\ Notional(Inputs) \in Nat \ {0} /\ CapOf(Inputs).cap \in Nat \ {0}
      /\ Anchor(Inputs) \in Nat
  BY <1>1, PartsFit
<1> QED
  BY <1>2, <1>3 DEF Derived

LEMMA MaxTyped ==
    ASSUME FormTypes, page = "write", wallet.usdc # Absent
    PROVE  /\ MaxCollateral(Derived, wallet) \in Nat
           /\ DefaultCollateral(Derived, wallet, Wanted) \in Nat
<1> DEFINE b == wallet.usdc + wallet.free
           n == Derived.draft.unitNotional
           cap == Derived.draft.capVariance
           of(v) == maxCollateralFor(v, n, cap)
           pick == IF of(b) < Wanted THEN of(b) ELSE of(Wanted)
<1>1. b \in Nat /\ Wanted \in Nat
  BY FormsAssumption DEF FormTypes, Wallets
<1>2. n \in Nat \ {0} /\ cap \in Nat \ {0}
  BY DraftTyped
<1>3. MaxCollateral(Derived, wallet) = ticketUsdc(of(b))
      /\ DefaultCollateral(Derived, wallet, Wanted) = ticketUsdc(pick)
  BY DEF MaxCollateral, DefaultCollateral
<1> HIDE DEF b, n, cap
<1>4. of(b) \in Nat /\ of(Wanted) \in Nat
  BY <1>1, <1>2, MaxIsNat
<1>5. pick \in Nat
  <2> HIDE DEF of
  <2> QED
    BY <1>4
<1> HIDE DEF of, pick
<1> QED
  BY <1>3, <1>4, <1>5, TicketRounds

-----------------------------------------------------------------------------
(* Steps *)

\* A form with a reason against it is blocked.
Worded(reasons, n) == DOMAIN reasons = 1 .. n /\ \A i \in 1 .. n : reasons[i][2] # Unknown

LEMMA Blocked ==
    ASSUME NEW n \in Nat, NEW reasons, Worded(reasons, n),
           NEW j \in 1 .. n, reasons[j][1] = TRUE
    PROVE  FirstReason(reasons) # Unknown
<1> DEFINE hits == {i \in DOMAIN reasons : reasons[i][1]}
           first == CHOOSE i \in hits : \A k \in hits : i <= k
<1>1. FirstReason(reasons) = IF hits = {} THEN Unknown ELSE reasons[first][2]
  BY DEF FirstReason
<1>2. DOMAIN reasons = 1 .. n /\ \A i \in 1 .. n : reasons[i][2] # Unknown
  BY DEF Worded
<1>3. hits \subseteq 1 .. n /\ j \in hits
  BY <1>2
<1> HIDE DEF hits
<1>4. hits \subseteq Nat /\ hits # {}
  BY <1>3
<1>5. first \in hits
  BY <1>4, LeastOf
<1> HIDE DEF first
<1>6. reasons[first][2] # Unknown
  BY <1>2, <1>3, <1>5
<1> QED
  BY <1>1, <1>4, <1>6

LEMMA SubmitsValid ==
    ASSUME NEW in, NEW d, NEW w, WriteTicket(in, d, w, FALSE).submits,
           d.valid \in BOOLEAN
    PROVE  d.valid
<1> DEFINE a == ~w.deployed
           b == ~w.connected
           c == w.usdc = 0 /\ w.free = 0
           e == "short-balance" \in d.errors
           f == in.trailing = Absent /\ in.pending
           fix == IF d.errors \cap (Primary \ {"short-balance", "anchor-pending"}) # {}
                  THEN "Fix the highlighted fields" ELSE "Fix Advanced"
           list == <<
            <<a, "Contracts not deployed">>,
            <<b, "Connect a wallet">>,
            <<c, "Add USDC to write">>,
            <<e, "Not enough USDC">>,
            <<f, "Reading realized vol">>,
            <<~d.valid, fix>> >>
           t == WriteTicket(in, d, w, FALSE)
<1>1. t.submits <=> FirstReason(list) = Unknown
  BY DEF WriteTicket
<1>2. fix # Unknown
  BY BlockersAssumption
<1> HIDE DEF a, b, c, e, f, fix
<1>3. DOMAIN list = 1 .. 6 /\ list[6][1] = ~d.valid
  OBVIOUS
<1>4. \A i \in 1 .. 6 : list[i][2] # Unknown
  <2>1. /\ list[1][2] # Unknown /\ list[2][2] # Unknown /\ list[3][2] # Unknown
        /\ list[4][2] # Unknown /\ list[5][2] # Unknown /\ list[6][2] # Unknown
    BY <1>2, BlockersAssumption
  <2> HIDE DEF list
  <2>2. \A i \in 1 .. 6 : i = 1 \/ i = 2 \/ i = 3 \/ i = 4 \/ i = 5 \/ i = 6
    OBVIOUS
  <2> QED
    BY <2>1, <2>2
<1> HIDE DEF list
<1>5. ASSUME ~d.valid PROVE FALSE
  <2>1. list[6][1] = TRUE
    BY <1>3, <1>5
  <2>2. FirstReason(list) # Unknown
    <3>1. Worded(list, 6)
      BY <1>3, <1>4 DEF Worded
    <3>2. 6 \in Nat /\ 6 \in 1 .. 6
      OBVIOUS
    <3> QED
      BY <2>1, <3>1, <3>2, Blocked
  <2> QED
    BY <1>1, <2>2
<1> QED
  BY <1>5

LEMMA SubmitsTerms ==
    ASSUME NEW f, NEW c, NEW w, CreateGroupForm(f, c, w, FALSE).submits
    PROVE  GroupTerms(f, c) # Unknown
<1> DEFINE a == ~w.connected
           b == GroupTerms(f, c) = Unknown
           list == << <<a, "Connect a wallet">>, <<b, "Check the inputs">> >>
           t == CreateGroupForm(f, c, w, FALSE)
<1>1. t.submits => FirstReason(list) = Unknown
  BY DEF CreateGroupForm
<1> SUFFICES ASSUME b PROVE FALSE
  OBVIOUS
<1>2. b = TRUE
  OBVIOUS
<1> HIDE DEF a, b, t
<1>3. DOMAIN list = 1 .. 2 /\ list[2][1] = b
  OBVIOUS
<1>4. \A i \in 1 .. 2 : list[i][2] # Unknown
  <2>1. list[1][2] # Unknown /\ list[2][2] # Unknown
    BY BlockersAssumption
  <2> HIDE DEF list
  <2>2. \A i \in 1 .. 2 : i = 1 \/ i = 2
    OBVIOUS
  <2> QED
    BY <2>1, <2>2
<1> HIDE DEF list
<1>5. FirstReason(list) # Unknown
  <2>1. Worded(list, 2)
    BY <1>3, <1>4 DEF Worded
  <2>2. 2 \in Nat /\ 2 \in 1 .. 2
    OBVIOUS
  <2>3. list[2][1] = TRUE
    BY <1>2, <1>3
  <2> QED
    BY <2>1, <2>2, <2>3, Blocked
<1> QED
  BY <1>1, <1>5 DEF t

\* A change of the form that keeps its types.
LEMMA EditKeeps ==
    ASSUME FormsInv, NEW f,
           submitted = Unknown, form' = f,
           UNCHANGED <<page, now, clock, reads, wallet, submitted, refused>>,
           page = "write" => f \in SeriesForms,
           page = "pairs" => f \in GroupForms
    PROVE  FormsInv'
  BY DEF FormsInv, FormTypes, TermsStand, RefusalStands

LEMMA Retyped ==
    ASSUME NEW f \in SeriesForms
    PROVE  /\ \A v \in Int : [f EXCEPT !.tenorDays = v] \in SeriesForms
           /\ \A v \in Typed : [f EXCEPT !.collateral = v] \in SeriesForms
           /\ \A v \in Overrides : [f EXCEPT !.ov = v] \in SeriesForms
           /\ \A s \in Stances, v \in Typed :
                [f EXCEPT !.stance = s, !.customVol = v] \in SeriesForms
  BY DEF SeriesForms

LEMMA TypedHas == Nat \subseteq Typed /\ Absent \in Typed
  BY DEF Typed

LEMMA SetTenorKeeps ==
    ASSUME FormsInv, page = "write", NEW days \in Tenors, SetTenor(days)
    PROVE  FormsInv'
<1>1. form \in SeriesForms /\ days \in Int
  BY TypingAssumption DEF FormsInv, FormTypes
<1> DEFINE f == [form EXCEPT !.tenorDays = days]
<1>2. f \in SeriesForms
  BY <1>1, Retyped
<1> HIDE DEF f
<1> QED
  BY <1>2, EditKeeps DEF SetTenor, Edit, f

LEMMA OnStanceKeeps ==
    ASSUME FormsInv, page = "write", NEW s \in {"cheap", "fair", "rich", "custom"}, onStance(s)
    PROVE  FormsInv'
<1> DEFINE root == sqrtWad(Derived.draft.anchorVariance)
           v == IF s = "custom" /\ form.customVol = Absent THEN root ELSE form.customVol
           f == [form EXCEPT !.stance = s, !.customVol = v]
<1>1. form \in SeriesForms /\ form.customVol \in Typed /\ s \in Stances
  BY DEF FormsInv, FormTypes, SeriesForms, Stances
<1>2. root \in Nat
  BY DraftTyped, RootExists DEF FormsInv
<1>3. v \in Typed
  <2> HIDE DEF root
  <2> QED
    BY <1>1, <1>2, TypedHas
<1>4. submitted = Unknown /\ form' = f
      /\ UNCHANGED <<page, now, clock, reads, wallet, submitted, refused>>
  BY DEF onStance, Edit
<1> HIDE DEF v
<1>5. f \in SeriesForms
  BY <1>1, <1>3, Retyped
<1> HIDE DEF f
<1> QED
  BY <1>4, <1>5, EditKeeps

LEMMA OnCustomVolKeeps ==
    ASSUME FormsInv, page = "write", NEW v \in Volatilities, onCustomVol(v)
    PROVE  FormsInv'
<1> DEFINE s == IF v # Absent THEN "custom"
                ELSE IF Inputs.trailing # Absent THEN "fair" ELSE form.stance
           f == [form EXCEPT !.stance = s, !.customVol = v]
           g == [form EXCEPT !.customVol = v, !.stance = s]
<1>1. form \in SeriesForms /\ form.stance \in Stances /\ v \in Typed
  BY TypingAssumption DEF FormsInv, FormTypes, SeriesForms
<1>2. s \in Stances
  BY <1>1 DEF Stances
<1>3. submitted = Unknown /\ form' = g
      /\ UNCHANGED <<page, now, clock, reads, wallet, submitted, refused>>
  BY DEF onCustomVol, Edit
<1> HIDE DEF s
<1>4. g = f /\ f \in SeriesForms
  <2>1. f \in SeriesForms
    BY <1>1, <1>2, Retyped
  <2>2. g = f
    BY <1>1 DEF SeriesForms
  <2> QED
    BY <2>1, <2>2
<1> HIDE DEF f, g
<1> QED
  BY <1>3, <1>4, EditKeeps

LEMMA CollateralKeeps ==
    ASSUME FormsInv, page = "write", NEW v \in Typed,
           submitted = Unknown, form' = [form EXCEPT !.collateral = v],
           UNCHANGED <<page, now, clock, reads, wallet, submitted, refused>>
    PROVE  FormsInv'
<1> DEFINE f == [form EXCEPT !.collateral = v]
<1>1. f \in SeriesForms
  BY Retyped DEF FormsInv, FormTypes
<1> HIDE DEF f
<1> QED
  BY <1>1, EditKeeps DEF f

LEMMA OnCollateralKeeps ==
    ASSUME FormsInv, page = "write", NEW v \in Collaterals, onCollateral(v)
    PROVE  FormsInv'
<1>1. v \in Typed
  BY TypingAssumption
<1> QED
  BY <1>1, CollateralKeeps DEF onCollateral, Edit

LEMMA OnMaxKeeps ==
    ASSUME FormsInv, page = "write", onMax
    PROVE  FormsInv'
<1> DEFINE v == MaxCollateral(Derived, wallet)
           t == WriteTicket(Inputs, Derived, wallet, FALSE)
<1>1. t.offersMax
  BY DEF onMax
<1>2. t.offersMax => wallet.usdc # Absent
  BY DEF WriteTicket
<1>3. v \in Typed
  BY <1>1, <1>2, MaxTyped, TypedHas DEF FormsInv
<1>4. submitted = Unknown /\ form' = [form EXCEPT !.collateral = v]
      /\ UNCHANGED <<page, now, clock, reads, wallet, submitted, refused>>
  BY DEF onMax, Edit
<1> HIDE DEF v
<1> QED
  BY <1>3, <1>4, CollateralKeeps

LEMMA ProposeKeeps ==
    ASSUME FormsInv, page = "write", ProposeCollateral
    PROVE  FormsInv'
<1> DEFINE v == DefaultCollateral(Derived, wallet, Wanted)
<1>1. v \in Typed
  BY MaxTyped, TypedHas DEF FormsInv, ProposeCollateral
<1>2. submitted = Unknown /\ form' = [form EXCEPT !.collateral = v]
      /\ UNCHANGED <<page, now, clock, reads, wallet, submitted, refused>>
  BY DEF ProposeCollateral
<1> HIDE DEF v
<1> QED
  BY <1>1, <1>2, CollateralKeeps

LEMMA OverridesKeep ==
    ASSUME FormsInv, page = "write", NEW ov \in Overrides,
           submitted = Unknown, form' = [form EXCEPT !.ov = ov],
           UNCHANGED <<page, now, clock, reads, wallet, submitted, refused>>
    PROVE  FormsInv'
<1> DEFINE f == [form EXCEPT !.ov = ov]
<1>1. f \in SeriesForms
  BY Retyped DEF FormsInv, FormTypes
<1> HIDE DEF f
<1> QED
  BY <1>1, EditKeeps DEF f

LEMMA SetOverrideKeeps ==
    ASSUME FormsInv, page = "write", NEW k \in OverrideKeys, NEW v \in Typing[k],
           setOverride(k, v)
    PROVE  FormsInv'
<1> DEFINE one == [form.ov EXCEPT ![k] = v]
           two == [one EXCEPT !["impactPerUnit"] = Absent]
           ov == IF k = "selloutLiftBps" THEN two ELSE one
<1>1. form.ov \in Overrides
  BY DEF FormsInv, FormTypes, SeriesForms
<1>2. /\ k # "saleMode" => v \in Typed
      /\ k = "saleMode" => v \in SaleModes
  BY TypingAssumption
<1>3. one \in Overrides
  BY <1>1, <1>2 DEF Overrides
<1>4. two \in Overrides
  <2> HIDE DEF one
  <2> QED
    BY <1>3, TypedHas DEF Overrides
<1>5. ov \in Overrides
  <2> HIDE DEF one, two
  <2> QED
    BY <1>3, <1>4
<1>6. submitted = Unknown
      /\ UNCHANGED <<page, now, clock, reads, wallet, submitted, refused>>
  BY DEF setOverride, Edit
<1>7. form' = [form EXCEPT !.ov = ov]
  <2>1. form \in SeriesForms
    BY DEF FormsInv, FormTypes
  <2>2. form' = [form EXCEPT !.ov = IF k = "selloutLiftBps"
                                    THEN [form.ov EXCEPT ![k] = v, !["impactPerUnit"] = Absent]
                                    ELSE one]
    BY DEF setOverride, Edit
  <2>3. [form.ov EXCEPT ![k] = v, !["impactPerUnit"] = Absent] = two
    BY <1>1 DEF Overrides
  <2> QED
    BY <2>2, <2>3
<1> HIDE DEF ov
<1> QED
  BY <1>5, <1>6, <1>7, OverridesKeep

LEMMA ResetKeeps ==
    ASSUME FormsInv, page = "write", resetAll
    PROVE  FormsInv'
<1>1. NoOverrides \in Overrides
  BY TypedHas DEF NoOverrides, Overrides
<1> QED
  BY <1>1, OverridesKeep DEF resetAll, Edit

LEMMA SwitchKeeps ==
    ASSUME FormsInv, page = "write", SwitchToCustom
    PROVE  FormsInv'
<1> DEFINE v == IF form.customVol = Absent THEN Assumed ELSE form.customVol
           f == [form EXCEPT !.stance = "custom", !.customVol = v]
<1>1. form \in SeriesForms /\ form.customVol \in Typed /\ Assumed \in Typed
      /\ "custom" \in Stances
  BY FormsAssumption DEF FormsInv, FormTypes, SeriesForms, Typed, Stances
<1>2. submitted = Unknown /\ form' = f
      /\ UNCHANGED <<page, now, clock, reads, wallet, submitted, refused>>
  BY DEF SwitchToCustom
<1>3. v \in Typed
  BY <1>1
<1> HIDE DEF v
<1>4. f \in SeriesForms
  BY <1>1, <1>3, Retyped
<1> HIDE DEF f
<1> QED
  BY <1>2, <1>4, EditKeeps

LEMMA ReadTrailingKeeps ==
    ASSUME FormsInv, NEW v \in Trailings, ReadTrailing(v)
    PROVE  FormsInv'
<1>1. reads \in Reads /\ v \in Nat \cup {Bad}
  BY TypingAssumption DEF FormsInv, FormTypes
<1> DEFINE win == anchorWindow(form.tenorDays)
           r == [reads EXCEPT ![win] = v]
<1>2. r \in Reads
  <2> HIDE DEF win
  <2> QED
    BY <1>1 DEF Reads
<1>3. submitted = Unknown /\ reads' = r
      /\ UNCHANGED <<page, now, clock, form, wallet, submitted, refused>>
  BY DEF ReadTrailing
<1> HIDE DEF r
<1> QED
  BY <1>2, <1>3 DEF FormsInv, FormTypes, TermsStand, RefusalStands

LEMMA ReadWalletKeeps ==
    ASSUME FormsInv, NEW b \in Balances, ReadWallet(b)
    PROVE  FormsInv'
<1>1. wallet \in Wallets /\ b[1] \in Nat /\ b[2] \in Nat
  BY TypingAssumption DEF FormsInv, FormTypes
<1> DEFINE w == [wallet EXCEPT !.usdc = b[1], !.free = b[2]]
<1>2. w \in Wallets
  BY <1>1 DEF Wallets
<1>3. submitted = Unknown /\ wallet' = w
      /\ UNCHANGED <<page, now, clock, form, reads, submitted, refused>>
  BY DEF ReadWallet
<1> HIDE DEF w
<1> QED
  BY <1>2, <1>3 DEF FormsInv, FormTypes, TermsStand, RefusalStands

LEMMA ValidBoolean ==
    ASSUME NEW in
    PROVE  deriveSeries(in).valid \in BOOLEAN
  BY DEF deriveSeries

LEMMA SubmitSeriesKeeps ==
    ASSUME FormsInv, page = "write", WriteSeries
    PROVE  FormsInv'
<1> DEFINE d == deriveSeries(Inputs)
<1>1. submitted = Unknown /\ refused = Unknown
  BY DEF WriteSeries, FormsInv, RefusalStands
<1>2. d.valid
  <2>1. WriteTicket(Inputs, d, wallet, FALSE).submits /\ d.valid \in BOOLEAN
    BY ValidBoolean DEF WriteSeries, Derived
  <2> HIDE DEF d
  <2> QED
    BY <2>1, SubmitsValid
<1>3. PICK lag \in Lags : clock = now - lag
  BY DEF FormsInv, FormTypes
<1>4. /\ submitted' = [terms |-> d.draft, at |-> now]
      /\ UNCHANGED <<page, now, clock, form, reads, wallet, refused>>
  BY DEF WriteSeries, Derived
<1>5. submitted'.at = now /\ submitted'.terms = d.draft /\ now \in Nat
  BY <1>4 DEF FormsInv, FormTypes
<1>6. FormTypes'
  BY <1>4 DEF FormsInv, FormTypes
<1>7. SeriesSubmitted'
  <2>1. InputsAt(clock) = Inputs
    BY InputsNow DEF FormsInv
  <2>2. (InputsAt(submitted.at - lag))' = InputsAt(clock)
    BY <1>3, <1>4, <1>5 DEF InputsAt, Inputs
  <2>3. (deriveSeries(InputsAt(submitted.at - lag)))' = d
    BY <2>1, <2>2
  <2> HIDE DEF d
  <2> QED
    BY <1>2, <1>5, <2>3 DEF SeriesSubmitted
<1>8. TermsStand'
  BY <1>4, <1>5, <1>7 DEF TermsStand
<1>9. RefusalStands'
  BY <1>1, <1>4 DEF RefusalStands
<1> QED
  BY <1>6, <1>8, <1>9 DEF FormsInv

LEMMA WithField ==
    ASSUME NEW F, NEW T, NEW g \in [F -> T], NEW k, NEW v \in T
    PROVE  /\ [g EXCEPT ![k] = v] \in [F -> T]
           /\ \A j \in F : [g EXCEPT ![k] = v][j] = IF j = k THEN v ELSE g[j]
  OBVIOUS

LEMMA SetFieldKeeps ==
    ASSUME FormsInv, page = "pairs",
           NEW k \in DOMAIN GroupTyping \ {"ask", "bid"}, NEW v \in GroupTyping[k],
           SetField(k, v)
    PROVE  FormsInv'
<1> DEFINE f == [form EXCEPT ![k] = v]
<1>1. form \in GroupForms /\ v \in Typed /\ k \notin Quotes
  BY TypingAssumption DEF FormsInv, FormTypes, Quotes
<1>2. f \in GroupForms
  <2> DEFINE T == Typed \cup [Side -> Typed]
  <2>1. /\ form \in [GroupFields -> T] /\ v \in T
        /\ \A j \in GroupFields \ Quotes : form[j] \in Typed
        /\ \A j \in Quotes : form[j] \in [Side -> Typed]
        /\ Quotes \subseteq GroupFields
    BY <1>1 DEF GroupForms, Quotes, GroupFields
  <2> HIDE DEF T
  <2>2. f \in [GroupFields -> T] /\ \A j \in GroupFields : f[j] = IF j = k THEN v ELSE form[j]
    BY <2>1, WithField
  <2> HIDE DEF f
  <2>3. \A j \in GroupFields \ Quotes : f[j] \in Typed
    BY <1>1, <2>1, <2>2
  <2>4. \A j \in Quotes : f[j] \in [Side -> Typed]
    BY <1>1, <2>1, <2>2
  <2> QED
    BY <2>2, <2>3, <2>4 DEF GroupForms, T
<1>3. submitted = Unknown /\ form' = f
      /\ UNCHANGED <<page, now, clock, reads, wallet, submitted, refused>>
  BY DEF SetField, Edit
<1> HIDE DEF f
<1> QED
  BY <1>2, <1>3, EditKeeps

LEMMA SetQuoteKeeps ==
    ASSUME FormsInv, page = "pairs",
           NEW k \in {"ask", "bid"}, NEW side \in Side, NEW v \in GroupTyping[k],
           SetQuote(k, side, v)
    PROVE  FormsInv'
<1> DEFINE q == [form[k] EXCEPT ![side] = v]
           f == [form EXCEPT ![k] = q]
<1>1. form \in GroupForms /\ v \in Typed /\ k \in Quotes /\ k \in GroupFields
  BY TypingAssumption DEF FormsInv, FormTypes, Quotes, GroupFields
<1>2. form[k] \in [Side -> Typed]
  BY <1>1 DEF GroupForms
<1>3. q \in [Side -> Typed]
  <2> DEFINE g == form[k]
  <2>1. g \in [Side -> Typed]
    BY <1>2
  <2> HIDE DEF g
  <2>2. [g EXCEPT ![side] = v] \in [Side -> Typed]
    BY <1>1, <2>1
  <2> QED
    BY <2>2 DEF g
<1>4. submitted = Unknown /\ form' = f
      /\ UNCHANGED <<page, now, clock, reads, wallet, submitted, refused>>
  BY DEF SetQuote, Edit
<1> HIDE DEF q
<1>5. f \in GroupForms
  <2> DEFINE T == Typed \cup [Side -> Typed]
  <2>1. /\ form \in [GroupFields -> T] /\ q \in T
        /\ \A j \in GroupFields \ Quotes : form[j] \in Typed
        /\ \A j \in Quotes : form[j] \in [Side -> Typed]
        /\ Quotes \subseteq GroupFields
    BY <1>1, <1>3 DEF GroupForms, Quotes, GroupFields
  <2> HIDE DEF T
  <2>2. f \in [GroupFields -> T] /\ \A j \in GroupFields : f[j] = IF j = k THEN q ELSE form[j]
    BY <2>1, WithField
  <2> HIDE DEF f
  <2>3. \A j \in GroupFields \ Quotes : f[j] \in Typed
    BY <1>1, <2>1, <2>2
  <2>4. \A j \in Quotes : f[j] \in [Side -> Typed]
    BY <1>3, <2>1, <2>2
  <2> QED
    BY <2>2, <2>3, <2>4 DEF GroupForms, T
<1> HIDE DEF f
<1> QED
  BY <1>4, <1>5, EditKeeps

LEMMA SubmitGroupKeeps ==
    ASSUME FormsInv, page = "pairs", WriteGroup
    PROVE  FormsInv'
<1> DEFINE terms == GroupTerms(form, clock)
<1>1. submitted = Unknown /\ refused = Unknown
  BY DEF WriteGroup, FormsInv, RefusalStands
<1>2. terms # Unknown
  BY SubmitsTerms DEF WriteGroup
<1>3. PICK lag \in Lags : clock = now - lag
  BY DEF FormsInv, FormTypes
<1>4. /\ submitted' = [terms |-> terms, at |-> now]
      /\ UNCHANGED <<page, now, clock, form, reads, wallet, refused>>
  BY DEF WriteGroup
<1>5. submitted'.at = now /\ submitted'.terms = terms /\ now \in Nat
  BY <1>4 DEF FormsInv, FormTypes
<1>6. FormTypes'
  BY <1>4 DEF FormsInv, FormTypes
<1>7. GroupSubmitted'
  <2>1. (GroupTerms(form, submitted.at - lag))' = terms
    BY <1>3, <1>4, <1>5
  <2> HIDE DEF terms
  <2> QED
    BY <1>2, <1>5, <2>1 DEF GroupSubmitted
<1>8. TermsStand'
  BY <1>4, <1>5, <1>7 DEF TermsStand
<1>9. RefusalStands'
  BY <1>1, <1>4 DEF RefusalStands
<1> QED
  BY <1>6, <1>8, <1>9 DEF FormsInv

\* After the submission the form, and what was read, stay as they are.
LEMMA TermsFrozen ==
    ASSUME TermsStand, UNCHANGED <<page, form, reads, wallet, submitted>>,
           now \in Nat, now' \in Nat, now <= now'
    PROVE  TermsStand'
<1>1. SeriesSubmitted => SeriesSubmitted'
  BY DEF SeriesSubmitted, InputsAt, Inputs
<1>2. GroupSubmitted => GroupSubmitted'
  BY DEF GroupSubmitted
<1>3. submitted.at \in Nat /\ submitted.at <= now => submitted.at <= now'
  OBVIOUS
<1> QED
  BY <1>1, <1>2, <1>3 DEF TermsStand

LEMMA CreateKeeps ==
    ASSUME FormsInv, Create
    PROVE  FormsInv'
<1>1. /\ FormTypes' /\ now \in Nat
      /\ UNCHANGED <<page, now, form, reads, wallet, submitted>>
      /\ submitted # Unknown
      /\ refused' = IF page = "write" THEN Refusals(submitted.terms, now)
                    ELSE GroupRefusals(submitted.terms, now)
  BY DEF FormsInv, FormTypes, Create
<1>2. TermsStand'
  BY <1>1, TermsFrozen DEF FormsInv
<1>3. RefusalStands'
  BY <1>1 DEF RefusalStands
<1> QED
  BY <1>1, <1>2, <1>3 DEF FormsInv

LEMMA TickKeeps ==
    ASSUME FormsInv, Tick
    PROVE  FormsInv'
<1>1. /\ now \in Nat /\ now' = now + Step /\ Step \in Nat
      /\ UNCHANGED <<page, form, reads, wallet, submitted, refused>>
      /\ refused = Unknown /\ \E lag \in Lags : clock' = now' - lag
  BY FormsAssumption DEF FormsInv, FormTypes, Tick
<1>2. FormTypes'
  BY <1>1 DEF FormsInv, FormTypes
<1>3. TermsStand'
  BY <1>1, TermsFrozen DEF FormsInv
<1>4. RefusalStands'
  BY <1>1 DEF RefusalStands
<1> QED
  BY <1>2, <1>3, <1>4 DEF FormsInv

LEMMA StartsTyped ==
    ASSUME Init
    PROVE  FormsInv
<1>1. page \in {"write", "pairs"} /\ now = Start /\ Start \in Nat /\ Wanted \in Nat
      /\ submitted = Unknown /\ refused = Unknown
      /\ \E lag \in Lags : clock = now - lag
  BY FormsAssumption DEF Init
<1>2. FirstSeries \in SeriesForms
  <2>1. NoOverrides \in Overrides
    BY TypedHas DEF NoOverrides, Overrides
  <2> QED
    BY <1>1, <2>1, TypedHas DEF FirstSeries, SeriesForms, Stances
<1>3. FirstGroup \in GroupForms
  <2>1. /\ 70 * DAY \in Typed /\ 420 * HOUR \in Typed /\ WAD \in Typed /\ 10 \in Typed
        /\ \A n \in {3, 4, 6, 7} : n \in Typed
    BY TypedHas, Scales DEF DAY, HOUR
  <2>2. /\ [high |-> 4, calm |-> 7] \in [Side -> Typed]
        /\ [high |-> 3, calm |-> 6] \in [Side -> Typed]
    BY <2>1 DEF Side
  <2> QED
    BY <2>1, <2>2 DEF FirstGroup, GroupForms, GroupFields, Quotes
<1>4. reads \in Reads /\ wallet \in Wallets
  BY DEF Init, Reads, Wallets
<1>5. form = IF page = "write" THEN FirstSeries ELSE FirstGroup
  BY DEF Init
<1> QED
  BY <1>1, <1>2, <1>3, <1>4, <1>5 DEF FormsInv, FormTypes, TermsStand, RefusalStands

LEMMA FormsStep ==
    ASSUME FormsInv, [Next]_vars
    PROVE  FormsInv'
<1>1. CASE page = "write" /\ WizardEdit
  <2>1. ASSUME NEW days \in Tenors, SetTenor(days) PROVE FormsInv'
    BY <1>1, <2>1, SetTenorKeeps
  <2>2. ASSUME NEW s \in {"cheap", "fair", "rich", "custom"}, onStance(s) PROVE FormsInv'
    BY <1>1, <2>2, OnStanceKeeps
  <2>3. ASSUME NEW v \in Volatilities, onCustomVol(v) PROVE FormsInv'
    BY <1>1, <2>3, OnCustomVolKeeps
  <2>4. ASSUME NEW v \in Collaterals, onCollateral(v) PROVE FormsInv'
    BY <1>1, <2>4, OnCollateralKeeps
  <2>5. ASSUME onMax PROVE FormsInv'
    BY <1>1, <2>5, OnMaxKeeps
  <2>6. ASSUME NEW k \in OverrideKeys, NEW v \in Typing[k], setOverride(k, v) PROVE FormsInv'
    BY <1>1, <2>6, SetOverrideKeeps
  <2>7. ASSUME resetAll PROVE FormsInv'
    BY <1>1, <2>7, ResetKeeps
  <2> QED
    BY <1>1, <2>1, <2>2, <2>3, <2>4, <2>5, <2>6, <2>7 DEF WizardEdit
<1>2. CASE page = "write" /\ WizardStep
  <2>1. ASSUME NEW v \in Trailings, ReadTrailing(v) PROVE FormsInv'
    BY <2>1, ReadTrailingKeeps
  <2>2. ASSUME NEW b \in Balances, ReadWallet(b) PROVE FormsInv'
    BY <2>2, ReadWalletKeeps
  <2> QED
    BY <1>2, <2>1, <2>2, SwitchKeeps, ProposeKeeps, SubmitSeriesKeeps DEF WizardStep
<1>3. CASE page = "pairs" /\ GroupStep
  <2>1. ASSUME NEW k \in DOMAIN GroupTyping \ {"ask", "bid"}, NEW v \in GroupTyping[k],
               SetField(k, v)
        PROVE  FormsInv'
    BY <1>3, <2>1, SetFieldKeeps
  <2>2. ASSUME NEW k \in {"ask", "bid"}, NEW side \in Side, NEW v \in GroupTyping[k],
               SetQuote(k, side, v)
        PROVE  FormsInv'
    BY <1>3, <2>2, SetQuoteKeeps
  <2> QED
    BY <1>3, <2>1, <2>2, SubmitGroupKeeps DEF GroupStep
<1>4. CASE Create
  BY <1>4, CreateKeeps
<1>5. CASE Tick
  BY <1>5, TickKeeps
<1>6. CASE UNCHANGED vars
  <2>1. now \in Nat /\ now' = now
    BY <1>6 DEF FormsInv, FormTypes, vars
  <2>2. TermsStand'
    BY <1>6, <2>1, TermsFrozen DEF FormsInv, vars
  <2>3. FormTypes' /\ RefusalStands'
    BY <1>6 DEF FormsInv, FormTypes, RefusalStands, vars
  <2> QED
    BY <2>2, <2>3 DEF FormsInv
<1> QED
  BY <1>1, <1>2, <1>3, <1>4, <1>5, <1>6 DEF Next

LEMMA FormsInvariant == Spec => []FormsInv
<1>1. Init => FormsInv
  BY StartsTyped
<1>2. FormsInv /\ [Next]_vars => FormsInv'
  BY FormsStep
<1> QED
  BY <1>1, <1>2, PTL DEF Spec

-----------------------------------------------------------------------------
(* Theorems *)

\* A series whose form the wizard let through is refused for no more than
\* the three cases derive.ts leaves open.
LEMMA SeriesAcceptedState ==
    ASSUME FormsInv
    PROVE  SeriesFormAccepted
<1> SUFFICES ASSUME page = "write", refused # Unknown
             PROVE  /\ refused \subseteq {"BadHalfLife", "BadSaleEnd"}
                    /\ "BadHalfLife" \in refused => form.ov["halfLifeHours"] # Absent
                    /\ "BadSaleEnd" \in refused =>
                        \/ form.ov["start"] # Absent
                        \/ Delay + MaxLag > 300 + (IF form.ov["saleMode"] = "start" THEN 0
                                                   ELSE submitted.terms.sampleInterval)
  BY DEF SeriesFormAccepted
<1>1. /\ submitted # Unknown /\ refused = Refusals(submitted.terms, now)
      /\ submitted.at \in Nat /\ now \in Nat /\ SeriesSubmitted
  BY DEF FormsInv, FormTypes, RefusalStands, TermsStand
<1>2. PICK lag \in Lags : LET d == deriveSeries(InputsAt(submitted.at - lag)) IN
                            d.valid /\ submitted.terms = d.draft
  BY <1>1 DEF SeriesSubmitted
<1> DEFINE c == submitted.at - lag
           in == InputsAt(c)
           d == deriveSeries(in)
<1>3. lag \in Nat /\ MaxLag \in Nat /\ lag <= MaxLag /\ c \in Int
  BY <1>1, LagsAre
<1>4. TypedInputs(in) /\ in.nowTs = c /\ in.ov = form.ov
  <2> HIDE DEF c
  <2> QED
    BY <1>3, InputsTyped DEF FormsInv
<1>5. d.valid /\ submitted.terms = d.draft
  BY <1>2
<1> HIDE DEF in
<1>6. LET r == Refusals(d.draft, now) IN
      /\ r \subseteq {"BadHalfLife", "BadSaleEnd"}
      /\ "BadHalfLife" \in r => in.ov["halfLifeHours"] # Absent
      /\ "BadSaleEnd" \in r => in.ov["start"] # Absent \/ now > in.nowTs + Grace(in)
  <2>1. now \in Int /\ d.valid /\ TypedInputs(in)
    BY <1>1, <1>4, <1>5
  <2> QED
    BY <2>1, ValidAccepted
<1>7. Grace(in) = 300 + (IF form.ov["saleMode"] = "start" THEN 0
                         ELSE submitted.terms.sampleInterval)
  BY <1>4, <1>5 DEF Grace
<1>8. Grace(in) \in Nat
  <2>1. d.draft.sampleInterval = WindowPart(in).interval
    BY Derives
  <2>2. GridStep(WindowPart(in).interval)
    BY <1>4, WindowLies
  <2>3. WindowPart(in).interval \in Nat
    BY <2>2, GridStepIs
  <2>4. d.draft.sampleInterval \in Nat
    BY <2>1, <2>3
  <2> QED
    BY <2>4 DEF Grace
<1>9. now > in.nowTs + Grace(in) => Delay + MaxLag > Grace(in)
  BY <1>1, <1>3, <1>4, <1>8 DEF Delay
<1> HIDE DEF d
<1> QED
  BY <1>1, <1>4, <1>5, <1>6, <1>7, <1>9

\* Whatever is typed, read and waited for, the controller takes the series of a
\* form the wizard let through, but for the refusals derive.ts leaves open.
THEOREM SeriesFormTheorem == Spec => []SeriesFormAccepted
<1>1. FormsInv => SeriesFormAccepted
  BY SeriesAcceptedState
<1> QED
  BY <1>1, FormsInvariant, PTL

\* The terms of a paired market that the form let through are accepted as
\* long as window, sale, cap and asks are within the market's bounds.
LEMMA GroupAcceptedState ==
    ASSUME FormsInv
    PROVE  GroupFormAccepted
<1> DEFINE whole == /\ Rounded(form.window) % HOUR = 0
                    /\ Rounded(form.window) \div HOUR \in 2 .. 256
                    /\ varianceFromVol(form.capVol) <= MAX_CAP_VARIANCE
                    /\ \A s \in Side : form.ask[s] \in 1 .. form.capPayout
                    /\ \A t \in {form.sale, form.window} : Rounded(t) >= HOUR + Delay + MaxLag
<1> SUFFICES ASSUME page = "pairs", refused # Unknown, whole
             PROVE  refused = {}
  BY DEF GroupFormAccepted
<1>1. /\ submitted # Unknown /\ refused = GroupRefusals(submitted.terms, now)
      /\ submitted.at \in Nat /\ now \in Nat /\ GroupSubmitted /\ form \in GroupForms
  BY DEF FormsInv, FormTypes, RefusalStands, TermsStand
<1>2. PICK lag \in Lags : /\ GroupTerms(form, submitted.at - lag) # Unknown
                          /\ submitted.terms = GroupTerms(form, submitted.at - lag)
  BY <1>1 DEF GroupSubmitted
<1> DEFINE c == submitted.at - lag
<1>3. lag \in Nat /\ MaxLag \in Nat /\ lag <= MaxLag /\ c \in Int
  BY <1>1, LagsAre
<1>4. GroupTerms(form, c) # Unknown /\ submitted.terms = GroupTerms(form, c)
  BY <1>2
<1>5. \A n \in Int : n >= HOUR + Delay + MaxLag => n >= HOUR + (now - c)
  BY <1>1, <1>3 DEF Delay, HOUR
<1>6. Rounded(form.sale) \in Int /\ Rounded(form.window) \in Int
  <2>1. Positive(form.sale) /\ Positive(form.window)
    BY <1>4 DEF GroupTerms
  <2>2. form.sale \in Nat /\ form.window \in Nat
    BY <1>1, <2>1, GroupFormFields, PositiveTyped
  <2> QED
    BY <2>2 DEF Rounded
<1> HIDE DEF c
<1>7. Rounded(form.sale) >= HOUR + (now - c) /\ Rounded(form.window) >= HOUR + (now - c)
  BY <1>5, <1>6
<1>8. GroupRefusals(GroupTerms(form, c), now) = {}
  BY <1>1, <1>3, <1>4, <1>7, GroupAccepted
<1> QED
  BY <1>1, <1>4, <1>8

\* What the form of a paired market lets through within the market's own
\* bounds, which the form does not check, TremorPortfolioMarket._validate takes.
THEOREM GroupFormTheorem == Spec => []GroupFormAccepted
<1>1. FormsInv => GroupFormAccepted
  BY GroupAcceptedState
<1> QED
  BY <1>1, FormsInvariant, PTL

\* Whatever is typed and read, a valid form keeps to the collateral, the
\* balance and the cap, and MAX to the balance.
LEMMA PromisesState ==
    ASSUME FormsInv
    PROVE  FormKeepsPromises
<1> SUFFICES ASSUME page = "write" PROVE Promises(Inputs, Derived)
  BY DEF FormKeepsPromises
<1> DEFINE in == Inputs
           d == deriveSeries(in)
           sum == wallet.usdc + wallet.free
           top == MaxCollateral(d, wallet)
           other == [in EXCEPT !.collateral = top]
<1>1. /\ TypedInputs(in) /\ in.ov = form.ov /\ in.collateral = form.collateral
      /\ in.wallet = IF wallet.usdc = Absent THEN Absent ELSE sum
  BY InputsNow, InputsTyped DEF FormsInv
<1>2. wallet.usdc \in Nat \cup {Absent} /\ wallet.free \in Nat
  BY DEF FormsInv, FormTypes, Wallets
<1>3. wallet.usdc # Absent => sum \in Nat /\ sum # Absent
  BY <1>2, TypingAssumption
<1>4. ASSUME d.valid
      PROVE  /\ form.ov["maxUnits"] = Absent => d.committed <= form.collateral
             /\ form.ov["impactPerUnit"] = Absent => d.askAtSellOut <= d.draft.capVariance
             /\ wallet.usdc # Absent => WriteTicket(in, d, wallet, FALSE).topUp <= wallet.usdc
  <2>1. /\ d.committed \in Nat
        /\ in.ov["maxUnits"] = Absent => d.committed <= in.collateral
        /\ in.ov["impactPerUnit"] = Absent => d.askAtSellOut <= d.draft.capVariance
        /\ in.wallet # Absent => d.committed <= in.wallet
    <3> HIDE DEF in
    <3> QED
      BY <1>1, <1>4, ValidPromises
  <2>2. WriteTicket(in, d, wallet, FALSE).topUp = Floored(d.committed, wallet.free)
    BY TicketTopUp
  <2> HIDE DEF d, in
  <2>3. wallet.usdc # Absent => Floored(d.committed, wallet.free) <= wallet.usdc
    BY <1>1, <1>2, <1>3, <2>1 DEF Floored
  <2> QED
    BY <1>1, <2>1, <2>2, <2>3
<1>5. ASSUME wallet.usdc # Absent, form.ov["maxUnits"] = Absent, StepsShow(d.draft)
      PROVE  "short-balance" \notin SizePart(other, d.draft.unitNotional,
                                             d.draft.capVariance).errors
  <2>1. /\ other.tenorDays = in.tenorDays /\ other.stance = in.stance
        /\ other.customVol = in.customVol /\ other.ov = in.ov /\ other.nowTs = in.nowTs
        /\ other.trailing = in.trailing /\ other.wallet = in.wallet
        /\ other.collateral = top
    <3> HIDE DEF top
    <3> QED
      BY DEF Inputs
  <2>2. top \in Nat
    BY <1>5, MaxTyped DEF FormsInv, Derived
  <2>3. top = ticketUsdc(maxCollateralFor(in.wallet, d.draft.unitNotional, d.draft.capVariance))
    BY <1>1, <1>5 DEF MaxCollateral
  <2> HIDE DEF top, other, in
  <2>4. TypedInputs(other)
    BY <1>1, <2>1, <2>2, TypedHas DEF TypedInputs
  <2>5. /\ other.ov = in.ov /\ other.wallet = in.wallet /\ in.wallet # Absent
        /\ in.ov["maxUnits"] = Absent /\ StepsShow(deriveSeries(in).draft)
        /\ other.collateral = ticketUsdc(maxCollateralFor(in.wallet,
                                                          deriveSeries(in).draft.unitNotional,
                                                          deriveSeries(in).draft.capVariance))
    BY <1>1, <1>3, <1>5, <2>1, <2>3
  <2> QED
    BY <1>1, <2>4, <2>5, MaxPromises
<1>6. Derived = d
  BY DEF Derived
<1> HIDE DEF d, in
<1> QED
  BY <1>4, <1>5, <1>6 DEF Promises, in

\* The wizard holds what it says of a form: the collateral typed is never
\* exceeded, the balance pays for it, selling it all stays under the cap, and
\* MAX names nothing the balance does not back while half a cent is worth less
\* than a step of inventory.
THEOREM FormPromisesTheorem == Spec => []FormKeepsPromises
<1>1. FormsInv => FormKeepsPromises
  BY PromisesState
<1> QED
  BY <1>1, FormsInvariant, PTL
=============================================================================

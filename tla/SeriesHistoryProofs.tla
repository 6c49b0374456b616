------------------------ MODULE SeriesHistoryProofs -------------------------
(***************************************************************************)
(* The history of the v2 index, for every set of series, all terms and any *)
(* depth of nested swaps.  The index adds up over time what the contracts  *)
(* report once: units and quote of every leg, the fills, the transfers of  *)
(* receipts, the orders shipped and docked, the vault's cash.  While swaps *)
(* are in flight the sums are not even: an issue is booked when it begins, *)
(* its premium arrives in the course of it and its fill is recorded when   *)
(* it ends.                                                                *)
(*                                                                         *)
(* Each sum is a book, and what a swap leaves open in it is a function of  *)
(* its frame.  The invariant says that the books were off by nothing when  *)
(* the first swap began, and from the beginning of each swap to the next   *)
(* by what that swap leaves open; a revert goes back to the beginning of   *)
(* its swap, so this is what it needs.                                     *)
(***************************************************************************)
EXTENDS SeriesControllerProofs

\* The books that must balance: of every order the units and the quote its
\* fills add up to, and the vault's cash.
Cash == <<"vault", "cash", "quote">>
Measures == {"units", "quote"}
Books == (AllSeries \X Kinds \X Measures) \union {Cash}

\* What an entity has booked on one leg.
Booked(x, leg, what) ==
    IF what = "units"
    THEN IF leg = "ISSUE" THEN x.unitsIssued
         ELSE IF leg = "EXIT" THEN x.unitsExited ELSE x.unitsSettled
    ELSE IF leg = "ISSUE" THEN x.premiumCollected
         ELSE IF leg = "EXIT" THEN x.exitPaid ELSE x.settlementPaid

Net(x) == x.premiumCollected - x.exitPaid - x.settlementPaid

Nets(d) == [s \in AllSeries |-> IF s \in DOMAIN d.series THEN Net(d.series[s]) ELSE 0]

\* What a store says the vault should have.
Flow(d) == d.vault.totalDeposited - d.vault.totalWithdrawn + SumFunction(Nets(d))

\* What a store has booked on a leg that no fill was recorded for.
Unfilled(d, s, leg, what) ==
    IF s \in DOMAIN d.series THEN Booked(d.series[s], leg, what) - d.fills[<<s, leg>>][what]
    ELSE 0

Opened(d) == [b \in Books |-> IF b = Cash THEN Flow(d) ELSE Unfilled(d, b[1], b[2], b[3])]

\* What of the ledger the history is about: the series that were created and
\* their outstanding units, the receipts, the strategies that are live, those
\* never shipped, and what is open in the books.
Past(created, out, rec, live, fresh, open) ==
    [created |-> created, out |-> out, receipts |-> rec, live |-> live, fresh |-> fresh,
     open |-> open]

Orders == AllSeries \X Kinds

Created(ser) == {s \in AllSeries : ser[s].created}
Outs(ser) == [s \in AllSeries |-> ser[s].outstandingUnits]
Live(aq) == {o \in Orders : aq[o[1]][o[2]] # Docked}
Fresh(ser) == {o \in Orders : ~ser[o[1]].created}

PastOf(ser, rec, aq, open) ==
    Past(Created(ser), Outs(ser), rec, Live(aq), Fresh(ser), open)

\* Entity x has counted every unit: issued units are burned or outstanding.
EntryOf(x, out) ==
    /\ DOMAIN x = DOMAIN NewSeries(0)
    /\ \A leg \in Kinds, what \in Measures : Booked(x, leg, what) \in Int
    /\ x.unitsBurned \in Int
    /\ x.unitsIssued = x.unitsExited + x.unitsSettled + x.unitsBurned + out

OrderOf(d, s, leg) ==
    /\ <<s, leg>> \in DOMAIN d.order /\ d.order[<<s, leg>>].leg = leg
    /\ <<s, leg>> \in DOMAIN d.fills
    /\ d.fills[<<s, leg>>] \in [units : Int, quote : Int]

Acted(d, kind, o) == <<kind, o>> \in d.vault.actions

VaultPast(d, w) ==
    /\ DOMAIN d.vault = DOMAIN NoVault /\ d.vault.created
    /\ d.vault.totalDeposited \in Int /\ d.vault.totalWithdrawn \in Int
    /\ \A o \in Orders :
        /\ o \in w.live <=> Acted(d, "StrategyShipped", o) /\ ~Acted(d, "StrategyDocked", o)
        /\ o \in w.fresh => ~Acted(d, "StrategyShipped", o) /\ ~Acted(d, "StrategyDocked", o)

SeriesPast(d, w) ==
    /\ DOMAIN d.series = w.created
    /\ \A s \in w.created : EntryOf(d.series[s], w.out[s])
    /\ \A s \in w.created, leg \in Kinds : OrderOf(d, s, leg)

BalancePast(d, w) ==
    \A s \in AllSeries, a \in Accounts :
        /\ BalanceFor(d, s, a) = w.receipts[s][a]
        /\ s \notin w.created => w.receipts[s][a] = 0

\* The store d remembers the past w.
Remembers(d, w) ==
    /\ DOMAIN d = Tables
    /\ VaultPast(d, w) /\ SeriesPast(d, w) /\ BalancePast(d, w)
    /\ Opened(d) = w.open

\* Whatever is open.
Whole(d, ser, rec, aq) == Remembers(d, PastOf(ser, rec, aq, Opened(d)))

OpenIn(d, bal, b) == Opened(d)[b] - (IF b = Cash THEN bal ELSE 0)

\* What a swap in flight leaves open: a fill is recorded at its end, an issue
\* is booked and its premium counted at the beginning, a payout once it burns.
PaidIn(f) == f.inFirst /\ f.stage = "second"

Due(f, b) ==
    IF b = Cash
    THEN IF f.kind # "ISSUE" THEN Ahead(f) ELSE IF PaidIn(f) THEN 0 ELSE f.amountIn
    ELSE IF b[1] = f.group /\ b[2] = f.kind /\ (f.kind = "ISSUE" \/ PaidIn(f))
         THEN FillOf(f.kind, f.amountIn, f.amountOut)[b[3]] ELSE 0

\* off[i] was open when the i-th of n swaps in flight began, and half[i] is
\* what that swap itself leaves open.
InStep(n, off, half, open) ==
    /\ n = 0 => open = 0
    /\ \A i \in 1..n : /\ i = 1 => off[i] = 0
                       /\ off[i] + half[i] = IF i = n THEN open ELSE off[i + 1]

Index == Folded(entities, log)

WholeSaved(ent, v) == Whole(Folded(ent, v.log), v.series, v.receipts, v.aqua)

Offs(ent, stk, b) ==
    [i \in 1..Len(stk) |-> OpenIn(Folded(ent, stk[i].saved.log), stk[i].saved.balance, b)]

Dues(stk, b) == [i \in 1..Len(stk) |-> Due(stk[i], b)]

\* The books balance but for the swaps in flight, now and at the beginning of
\* each of them.
Balanced(ent, lg, stk, bal) ==
    \A b \in Books :
        InStep(Len(stk), Offs(ent, stk, b), Dues(stk, b),
               OpenIn(Folded(ent, lg), bal, b))

Remembered ==
    /\ Whole(Folded(entities, log), series, receipts, aqua)
    /\ \A i \in 1..Len(stack) : WholeSaved(entities, stack[i].saved)
    /\ Balanced(entities, log, stack, balance)

HistoryKept == isVault => Remembered

LEMMA RememberedNext ==
    ASSUME Whole(Folded(entities', log'), series', receipts', aqua'),
           \A i \in 1..Len(stack') : WholeSaved(entities', stack'[i].saved),
           Balanced(entities', log', stack', balance')
    PROVE  Remembered'
  BY DEF Remembered
-----------------------------------------------------------------------------
(* Books in step *)

LEMMA InStepPush ==
    ASSUME NEW n \in Nat, NEW off, NEW half, NEW open \in Int, InStep(n, off, half, open),
           NEW off2, NEW half2, \A i \in 1..n : off2[i] = off[i] /\ half2[i] = half[i],
           off2[n + 1] = open, NEW open2, open2 = open + half2[n + 1]
    PROVE  InStep(n + 1, off2, half2, open2)
<1>1. n + 1 # 0
  OBVIOUS
<1>2. ASSUME NEW i \in 1..(n + 1)
      PROVE  /\ i = 1 => off2[i] = 0
             /\ off2[i] + half2[i] = IF i = n + 1 THEN open2 ELSE off2[i + 1]
  <2>1. CASE i = n + 1
    BY <2>1 DEF InStep
  <2>2. CASE i \in 1..n
    <3>1. /\ off2[i] = off[i] /\ half2[i] = half[i] /\ i # n + 1
          /\ (i = 1 => off[i] = 0)
          /\ off[i] + half[i] = IF i = n THEN open ELSE off[i + 1]
      BY <2>2 DEF InStep
    <3>2. i # n => i + 1 \in 1..n
      BY <2>2
    <3> QED
      BY <3>1, <3>2
  <2> QED
    BY <2>1, <2>2
<1> QED
  BY <1>1, <1>2 DEF InStep

LEMMA InStepTop ==
    ASSUME NEW n \in Nat \ {0}, NEW off, NEW half, NEW open, InStep(n, off, half, open),
           NEW off2, NEW half2, \A i \in 1..n : off2[i] = off[i],
           \A i \in 1..(n - 1) : half2[i] = half[i],
           NEW open2, open2 = off[n] + half2[n]
    PROVE  InStep(n, off2, half2, open2)
<1>1. ASSUME NEW i \in 1..n
      PROVE  /\ i = 1 => off2[i] = 0
             /\ off2[i] + half2[i] = IF i = n THEN open2 ELSE off2[i + 1]
  <2>1. off2[i] = off[i] /\ (i = 1 => off[i] = 0)
        /\ off[i] + half[i] = IF i = n THEN open ELSE off[i + 1]
    BY DEF InStep
  <2>2. i # n => i \in 1..(n - 1) /\ i + 1 \in 1..n
    OBVIOUS
  <2> QED
    BY <2>1, <2>2
<1> QED
  BY <1>1 DEF InStep

LEMMA InStepPop ==
    ASSUME NEW n \in Nat \ {0}, NEW off, NEW half, NEW open, InStep(n, off, half, open),
           NEW off2, NEW half2, NEW open2, open2 = off[n],
           \A i \in 1..(n - 1) : off2[i] = off[i] /\ half2[i] = half[i]
    PROVE  InStep(n - 1, off2, half2, open2)
<1>1. n - 1 = 0 => open2 = 0
  BY DEF InStep
<1>2. ASSUME NEW i \in 1..(n - 1)
      PROVE  /\ i = 1 => off2[i] = 0
             /\ off2[i] + half2[i] = IF i = n - 1 THEN open2 ELSE off2[i + 1]
  <2>1. /\ i \in 1..n /\ i # n
        /\ i # n - 1 => i + 1 \in 1..(n - 1)
        /\ i = n - 1 => i + 1 = n
    OBVIOUS
  <2>2. (i = 1 => off[i] = 0) /\ off[i] + half[i] = off[i + 1]
    BY <2>1 DEF InStep
  <2> QED
    BY <2>1, <2>2
<1> QED
  BY <1>1, <1>2 DEF InStep

-----------------------------------------------------------------------------
(* Logs and the past *)

\* These logs take what remembers v to what remembers w.
Recalls(logs, v, w) ==
    /\ IsLogs(logs)
    /\ \A d, l : IsLogs(l) /\ Remembers(Folded(d, l), v)
                    => IsLogs(l \o logs) /\ Remembers(Folded(d, l \o logs), w)

\* No log, no change of the past.
LEMMA RecallsNothing ==
    ASSUME NEW v
    PROVE  Recalls(<< >>, v, v)
<1>1. IsLogs(<< >>)
  BY EmptySeq DEF IsLogs
<1>2. ASSUME NEW l, IsLogs(l) PROVE l \o << >> = l
  BY <1>2, ConcatEmptySeq DEF IsLogs
<1> QED
  BY <1>1, <1>2 DEF Recalls

LEMMA RecallsOne ==
    ASSUME NEW e, NEW v, NEW w,
           \A d : Remembers(d, v) => Remembers(Handle(d, e), w)
    PROVE  Recalls(<<e>>, v, w)
<1>1. IsLogs(<<e>>)
  <2>1. <<e>> \in Seq({e})
    OBVIOUS
  <2> QED
    BY <2>1 DEF IsLogs
<1>2. ASSUME NEW d, NEW l, IsLogs(l), Remembers(Folded(d, l), v)
      PROVE  IsLogs(l \o <<e>>) /\ Remembers(Folded(d, l \o <<e>>), w)
  <2>1. PICK S : l \in Seq(S)
    BY <1>2 DEF IsLogs
  <2> DEFINE T == S \cup {e}
  <2>2. l \in Seq(T) /\ e \in T
    BY <2>1, SeqMonotonic
  <2> HIDE DEF T
  <2>3. l \o <<e>> = Append(l, e) /\ Append(l, e) \in Seq(T)
    BY <2>2, AppendIsConcat, AppendProperties
  <2>4. Folded(d, Append(l, e)) = Handle(Folded(d, l), e)
    BY <2>2, FoldAppend
  <2>5. Remembers(Handle(Folded(d, l), e), w)
    BY <1>2
  <2> QED
    BY <2>3, <2>4, <2>5 DEF IsLogs
<1> QED
  BY <1>1, <1>2 DEF Recalls

LEMMA RecallsThen ==
    ASSUME NEW k, NEW l, NEW u, NEW v, NEW w, Recalls(k, u, v), Recalls(l, v, w)
    PROVE  Recalls(k \o l, u, w)
<1>1. IsLogs(k) /\ IsLogs(l) /\ IsLogs(k \o l)
  BY LogsJoin DEF Recalls
<1>2. ASSUME NEW d, NEW m, IsLogs(m), Remembers(Folded(d, m), u)
      PROVE  IsLogs(m \o (k \o l)) /\ Remembers(Folded(d, m \o (k \o l)), w)
  <2>1. IsLogs(m \o k) /\ Remembers(Folded(d, m \o k), v)
    BY <1>2 DEF Recalls
  <2>2. IsLogs((m \o k) \o l) /\ Remembers(Folded(d, (m \o k) \o l), w)
    BY <2>1 DEF Recalls
  <2>3. (m \o k) \o l = m \o (k \o l)
    BY SMTT(30), <1>1, <1>2, LogsJoin
  <2> QED
    BY <2>2, <2>3
<1> QED
  BY <1>1, <1>2 DEF Recalls

-----------------------------------------------------------------------------
(* The books of a store *)

LEMMA BooksSplit ==
    ASSUME NEW b \in Books
    PROVE  b = Cash \/ (b # Cash /\ b[1] \in AllSeries /\ b[2] \in Kinds /\ b[3] \in Measures
                        /\ b = <<b[1], b[2], b[3]>>)
  BY DEF Books

LEMMA BookedInt ==
    ASSUME NEW x, NEW out, EntryOf(x, out)
    PROVE  Net(x) \in Int
<1>1. "quote" \in Measures /\ "ISSUE" \in Kinds /\ "EXIT" \in Kinds /\ "SETTLE" \in Kinds
  BY DEF Measures, Kinds
<1>2. /\ Booked(x, "ISSUE", "quote") = x.premiumCollected
      /\ Booked(x, "EXIT", "quote") = x.exitPaid
      /\ Booked(x, "SETTLE", "quote") = x.settlementPaid
  BY DEF Booked
<1>3. x.premiumCollected \in Int /\ x.exitPaid \in Int /\ x.settlementPaid \in Int
  BY <1>1, <1>2 DEF EntryOf
<1> QED
  BY <1>3 DEF Net

LEMMA UnfilledInt ==
    ASSUME NEW d, NEW w, SeriesPast(d, w), NEW s \in AllSeries, NEW leg \in Kinds,
           NEW what \in Measures
    PROVE  Unfilled(d, s, leg, what) \in Int
<1>1. CASE s \in w.created
  <2>1. EntryOf(d.series[s], w.out[s]) /\ OrderOf(d, s, leg) /\ s \in DOMAIN d.series
    BY <1>1 DEF SeriesPast
  <2>2. Booked(d.series[s], leg, what) \in Int
    BY <2>1 DEF EntryOf
  <2>3. d.fills[<<s, leg>>][what] \in Int
    BY <2>1 DEF OrderOf, Measures
  <2> HIDE DEF Booked
  <2> QED
    BY <2>1, <2>2, <2>3 DEF Unfilled
<1>2. CASE s \notin w.created
  BY <1>2 DEF SeriesPast, Unfilled
<1> QED
  BY <1>1, <1>2

LEMMA NetsInt ==
    ASSUME NEW d, NEW w, SeriesPast(d, w)
    PROVE  Nets(d) \in [AllSeries -> Int] /\ SumFunction(Nets(d)) \in Int
<1>1. ASSUME NEW s \in AllSeries
      PROVE  (IF s \in DOMAIN d.series THEN Net(d.series[s]) ELSE 0) \in Int
  BY BookedInt DEF SeriesPast
<1>2. Nets(d) \in [AllSeries -> Int]
  BY <1>1 DEF Nets
<1>3. IsFiniteSet(AllSeries)
  BY SeriesAssumption
<1> QED
  BY <1>2, <1>3, SumType

LEMMA OpenInts ==
    ASSUME NEW d, NEW w, Remembers(d, w)
    PROVE  w.open \in [Books -> Int]
<1>1. SumFunction(Nets(d)) \in Int /\ SeriesPast(d, w)
  BY NetsInt DEF Remembers
<1>2. Flow(d) \in Int
  BY <1>1 DEF Flow, Remembers, VaultPast
<1>3. ASSUME NEW b \in Books
      PROVE  (IF b = Cash THEN Flow(d) ELSE Unfilled(d, b[1], b[2], b[3])) \in Int
  BY <1>1, <1>2, BooksSplit, UnfilledInt
<1>4. Opened(d) \in [Books -> Int]
  BY <1>3 DEF Opened
<1> QED
  BY <1>4 DEF Remembers

\* What is booked is all that is open to change.
LEMMA OpenedSame ==
    ASSUME NEW d, NEW d2, d2.series = d.series, d2.fills = d.fills,
           d2.vault.totalDeposited = d.vault.totalDeposited,
           d2.vault.totalWithdrawn = d.vault.totalWithdrawn
    PROVE  Opened(d2) = Opened(d)
<1>1. Nets(d2) = Nets(d)
  BY DEF Nets
<1>2. Flow(d2) = Flow(d)
  BY <1>1 DEF Flow
<1>3. \A s, leg, what : Unfilled(d2, s, leg, what) = Unfilled(d, s, leg, what)
  BY DEF Unfilled
<1> QED
  BY <1>2, <1>3 DEF Opened

-----------------------------------------------------------------------------
(* The handlers of the vault *)

\* What a past is made of.
LEMMA PastFields ==
    ASSUME NEW created, NEW out, NEW rec, NEW live, NEW fresh, NEW open
    PROVE  LET w == Past(created, out, rec, live, fresh, open) IN
           /\ w.created = created /\ w.out = out /\ w.receipts = rec
           /\ w.live = live /\ w.fresh = fresh /\ w.open = open
  BY DEF Past

LEMMA VaultKept ==
    ASSUME NEW d, NEW w, Remembers(d, w), NEW x, NEW w2,
           w2.created = w.created, w2.out = w.out, w2.receipts = w.receipts,
           VaultPast([d EXCEPT !.vault = x], w2), Opened([d EXCEPT !.vault = x]) = w2.open
    PROVE  Remembers([d EXCEPT !.vault = x], w2)
<1> DEFINE d2 == [d EXCEPT !.vault = x]
<1>1. DOMAIN d = Tables
  BY DEF Remembers
<1>2. /\ DOMAIN d2 = Tables /\ d2.series = d.series /\ d2.order = d.order
      /\ d2.fills = d.fills /\ d2.balance = d.balance
  BY <1>1, StoreFields
<1>3. VaultPast(d2, w2) /\ Opened(d2) = w2.open
  OBVIOUS
<1> HIDE DEF d2
<1>4. SeriesPast(d2, w2)
  BY <1>2 DEF Remembers, SeriesPast, OrderOf
<1>5. BalancePast(d2, w2)
  <2>1. \A s, a : BalanceFor(d2, s, a) = BalanceFor(d, s, a)
    BY <1>2 DEF BalanceFor
  <2> QED
    BY <2>1 DEF Remembers, BalancePast
<1> QED
  BY <1>2, <1>3, <1>4, <1>5 DEF Remembers, d2

LEMMA VaultOpened ==
    ASSUME NEW d, DOMAIN d = Tables, NEW x
    PROVE  /\ [d EXCEPT !.vault = x].vault = x
           /\ [d EXCEPT !.vault = x].series = d.series
           /\ [d EXCEPT !.vault = x].fills = d.fills
  BY StoreFields

\* Vault entity x: one more action than in d, if e has a reference.
RecordedAs(d, e, x) ==
    /\ Record(d, e) = [d EXCEPT !.vault = x]
    /\ DOMAIN x = DOMAIN NoVault /\ x.created
    /\ x.totalDeposited = d.vault.totalDeposited
    /\ x.totalWithdrawn = d.vault.totalWithdrawn
    /\ x.actions = IF "reference" \in DOMAIN e
                   THEN d.vault.actions \union {<<e.event, e.reference>>}
                   ELSE d.vault.actions

\* What Record makes of a vault.
LEMMA RecordMakes ==
    ASSUME NEW d, DOMAIN d.vault = DOMAIN NoVault, d.vault.created, NEW e
    PROVE  \E x : RecordedAs(d, e, x)
<1> DEFINE y == d.vault
           bal == IF "balance" \in DOMAIN e THEN e.balance ELSE y.lastReportedBalance
           lck == IF "locked" \in DOMAIN e THEN e.locked ELSE y.lastReportedLocked
           act == IF "reference" \in DOMAIN e THEN y.actions \union {<<e.event, e.reference>>}
                  ELSE y.actions
           x == [y EXCEPT !.lastReportedBalance = bal, !.lastReportedLocked = lck,
                          !.actions = act]
<1>1. Record(d, e) = [d EXCEPT !.vault = x]
  BY DEF Record
<1>2. DOMAIN y = DOMAIN NoVault /\ y.created
  OBVIOUS
<1> HIDE DEF bal, lck, act, y
<1>3. DOMAIN x = DOMAIN NoVault /\ x.created /\ x.totalDeposited = y.totalDeposited
      /\ x.totalWithdrawn = y.totalWithdrawn /\ x.actions = act
  BY <1>2, StoreFields
<1> HIDE DEF x
<1>4. RecordedAs(d, e, x)
  BY <1>1, <1>3 DEF RecordedAs, y, act
<1> QED
  BY <1>4

\* Order o was shipped, or docked, by now: by an action before e or by e.
ActedBy(d, e, kind, o) ==
    \/ Acted(d, kind, o)
    \/ "reference" \in DOMAIN e /\ e.event = kind /\ e.reference = o

\* The orders live and fresh once e is among the actions of d.
ActsRight(d, e, live, fresh) ==
    \A o \in Orders :
        /\ o \in live <=> ActedBy(d, e, "StrategyShipped", o) /\ ~ActedBy(d, e, "StrategyDocked", o)
        /\ o \in fresh => ~ActedBy(d, e, "StrategyShipped", o) /\ ~ActedBy(d, e, "StrategyDocked", o)

\* An event without a reference leaves them as they were.
LEMMA ActsSame ==
    ASSUME NEW d, NEW w, VaultPast(d, w), NEW e, "reference" \notin DOMAIN e
    PROVE  ActsRight(d, e, w.live, w.fresh)
<1>1. \A kind, o : ActedBy(d, e, kind, o) <=> Acted(d, kind, o)
  BY DEF ActedBy
<1> QED
  BY <1>1 DEF ActsRight, VaultPast

\* A vault event of no amount: at most an action is added.
LEMMA ActionKept ==
    ASSUME NEW d, NEW w, Remembers(d, w), NEW e, NEW live, NEW fresh,
           NEW w2, w2 = Past(w.created, w.out, w.receipts, live, fresh, w.open),
           ActsRight(d, e, live, fresh)
    PROVE  Remembers(Record(d, e), w2)
<1>1. DOMAIN d = Tables /\ VaultPast(d, w) /\ Opened(d) = w.open
  BY DEF Remembers
<1>2. PICK x : RecordedAs(d, e, x)
  <2>1. DOMAIN d.vault = DOMAIN NoVault /\ d.vault.created
    BY <1>1 DEF VaultPast
  <2> QED
    BY <2>1, RecordMakes
<1> DEFINE d2 == [d EXCEPT !.vault = x]
<1>3. d2.vault = x /\ d2.series = d.series /\ d2.fills = d.fills
  BY <1>1, VaultOpened
<1>4. /\ w2.created = w.created /\ w2.out = w.out /\ w2.receipts = w.receipts
      /\ w2.live = live /\ w2.fresh = fresh /\ w2.open = w.open
  BY PastFields
<1> HIDE DEF d2
<1>5. Opened(d2) = w2.open
  BY <1>1, <1>2, <1>3, <1>4, OpenedSame DEF RecordedAs
<1>6. ASSUME NEW kind, NEW o
      PROVE  Acted(d2, kind, o) <=> ActedBy(d, e, kind, o)
  BY <1>2, <1>3 DEF Acted, ActedBy, RecordedAs
<1>7. VaultPast(d2, w2)
  <2>1. d2.vault.totalDeposited \in Int /\ d2.vault.totalWithdrawn \in Int
    BY <1>1, <1>2, <1>3 DEF VaultPast, RecordedAs
  <2>2. \A o \in Orders :
        /\ o \in live <=> Acted(d2, "StrategyShipped", o) /\ ~Acted(d2, "StrategyDocked", o)
        /\ o \in fresh => ~Acted(d2, "StrategyShipped", o) /\ ~Acted(d2, "StrategyDocked", o)
    BY <1>6 DEF ActsRight
  <2> QED
    BY <1>2, <1>3, <1>4, <2>1, <2>2 DEF VaultPast, RecordedAs
<1>8. Record(d, e) = [d EXCEPT !.vault = x]
  BY <1>2 DEF RecordedAs
<1> QED
  BY <1>4, <1>5, <1>7, <1>8, VaultKept DEF d2

LEMMA PastSame ==
    ASSUME NEW d, NEW w, Remembers(d, w), NEW d2,
           Remembers(d2, Past(w.created, w.out, w.receipts, w.live, w.fresh, w.open))
    PROVE  Remembers(d2, w)
  BY PastFields DEF Remembers, VaultPast, SeriesPast, BalancePast

\* A moved lock tells nothing of the history.
LEMMA LockRecalled ==
    ASSUME NEW w, NEW lock, NEW kind \in {"LockedIncreased", "LockedDecreased"}
    PROVE  Recalls(<<[source |-> "vault", event |-> kind, locked |-> lock]>>, w, w)
<1> DEFINE e == [source |-> "vault", event |-> kind, locked |-> lock]
<1>1. "reference" \notin DOMAIN e /\ e.source = "vault" /\ e.event = kind
  OBVIOUS
<1> HIDE DEF e
<1>2. ASSUME NEW d, Remembers(d, w) PROVE Remembers(Handle(d, e), w)
  <2>1. Handle(d, e) = Record(d, e)
    BY <1>1, VaultHandled
  <2>2. Remembers(Record(d, e), Past(w.created, w.out, w.receipts, w.live, w.fresh, w.open))
    <3>1. VaultPast(d, w)
      BY <1>2 DEF Remembers
    <3>2. ActsRight(d, e, w.live, w.fresh)
      BY <1>1, <3>1, ActsSame
    <3> QED
      BY <1>2, <3>2, ActionKept
  <2> QED
    BY <1>2, <2>1, <2>2, PastSame
<1>3. Recalls(<<e>>, w, w)
  BY <1>2, RecallsOne
<1> QED
  BY <1>3 DEF e

\* The orders live and fresh once the vault with a past w logs kind of ref.
LogsRight(w, kind, ref, live, fresh) ==
    \A d : VaultPast(d, w) => \A o \in Orders :
        LET Did(k) == Acted(d, k, o) \/ (kind = k /\ ref = o)
        IN  /\ o \in live <=> Did("StrategyShipped") /\ ~Did("StrategyDocked")
            /\ o \in fresh => ~Did("StrategyShipped") /\ ~Did("StrategyDocked")

\* What the vault logs of a receipt or a strategy.
LEMMA ReferenceRecalled ==
    ASSUME NEW w, NEW ref, NEW kind \in {"ReceiptRegistered", "StrategyShipped", "StrategyDocked"},
           NEW live, NEW fresh,
           NEW w2, w2 = Past(w.created, w.out, w.receipts, live, fresh, w.open),
           LogsRight(w, kind, ref, live, fresh)
    PROVE  Recalls(Referenced(kind, ref), w, w2)
<1> DEFINE e == [source |-> "vault", event |-> kind, reference |-> ref]
<1>1. "reference" \in DOMAIN e /\ e.source = "vault" /\ e.event = kind /\ e.reference = ref
  OBVIOUS
<1> HIDE DEF e
<1>2. ASSUME NEW d, Remembers(d, w) PROVE Remembers(Handle(d, e), w2)
  <2>1. Handle(d, e) = Record(d, e)
    BY <1>1, VaultHandled
  <2>2. VaultPast(d, w)
    BY <1>2 DEF Remembers
  <2>3. ActsRight(d, e, live, fresh)
    <3>1. ASSUME NEW k, NEW o
          PROVE  ActedBy(d, e, k, o) <=> Acted(d, k, o) \/ (kind = k /\ ref = o)
      BY <1>1 DEF ActedBy
    <3>2. \A o \in Orders :
            LET Did(k) == Acted(d, k, o) \/ (kind = k /\ ref = o)
            IN  /\ o \in live <=> Did("StrategyShipped") /\ ~Did("StrategyDocked")
                /\ o \in fresh => ~Did("StrategyShipped") /\ ~Did("StrategyDocked")
      BY <2>2 DEF LogsRight
    <3> QED
      BY <3>1, <3>2 DEF ActsRight
  <2>4. Remembers(Record(d, e), w2)
    BY <1>2, <2>3, ActionKept
  <2> QED
    BY <2>1, <2>4
<1>3. Recalls(<<e>>, w, w2)
  BY <1>2, RecallsOne
<1> QED
  BY <1>3 DEF e, Referenced

\* Nor does a registered receipt.
LEMMA RegisterRecalled ==
    ASSUME NEW created, NEW out, NEW rec, NEW live, NEW fresh, NEW open, NEW ref
    PROVE  LET w == Past(created, out, rec, live, fresh, open) IN
           Recalls(Referenced("ReceiptRegistered", ref), w, w)
<1> DEFINE w == Past(created, out, rec, live, fresh, open)
<1>1. w.live = live /\ w.fresh = fresh /\ w.open = open /\ w.created = created
      /\ w.out = out /\ w.receipts = rec
  BY PastFields
<1>2. w = Past(w.created, w.out, w.receipts, w.live, w.fresh, w.open)
  BY <1>1
<1> HIDE DEF w
<1>3. LogsRight(w, "ReceiptRegistered", ref, w.live, w.fresh)
  BY DEF LogsRight, VaultPast
<1>4. Recalls(Referenced("ReceiptRegistered", ref), w, w)
  BY <1>2, <1>3, ReferenceRecalled
<1> QED
  BY <1>4 DEF w

\* A strategy is shipped for the first time.
LEMMA ShipRecalled ==
    ASSUME NEW created, NEW out, NEW rec, NEW live, NEW fresh, NEW open,
           NEW o \in Orders, o \in fresh
    PROVE  Recalls(Referenced("StrategyShipped", o), Past(created, out, rec, live, fresh, open),
                   Past(created, out, rec, live \union {o}, fresh \ {o}, open))
<1> DEFINE w == Past(created, out, rec, live, fresh, open)
           w2 == Past(created, out, rec, live \union {o}, fresh \ {o}, open)
<1>1. w.live = live /\ w.fresh = fresh /\ w.open = open /\ w.created = created
      /\ w.out = out /\ w.receipts = rec
  BY PastFields
<1>2. w2 = Past(w.created, w.out, w.receipts, live \union {o}, fresh \ {o}, w.open)
  BY <1>1
<1> HIDE DEF w, w2
<1>3. ASSUME NEW d, VaultPast(d, w), NEW p \in Orders
      PROVE  LET Did(k) == Acted(d, k, p) \/ ("StrategyShipped" = k /\ o = p)
             IN  /\ p \in live \union {o} <=> Did("StrategyShipped") /\ ~Did("StrategyDocked")
                 /\ p \in fresh \ {o} => ~Did("StrategyShipped") /\ ~Did("StrategyDocked")
  <2>1. /\ p \in live <=> Acted(d, "StrategyShipped", p) /\ ~Acted(d, "StrategyDocked", p)
        /\ p \in fresh => ~Acted(d, "StrategyShipped", p) /\ ~Acted(d, "StrategyDocked", p)
        /\ ~Acted(d, "StrategyDocked", o)
    BY <1>1, <1>3 DEF VaultPast
  <2> QED
    BY <2>1
<1>4. LogsRight(w, "StrategyShipped", o, live \union {o}, fresh \ {o})
  BY <1>3 DEF LogsRight
<1>5. Recalls(Referenced("StrategyShipped", o), w, w2)
  BY <1>2, <1>4, ReferenceRecalled
<1> QED
  BY <1>5 DEF w, w2

\* A live strategy is docked, for good.
LEMMA DockRecalled ==
    ASSUME NEW created, NEW out, NEW rec, NEW live, NEW fresh, NEW open,
           NEW o \in Orders, o \in live
    PROVE  Recalls(Referenced("StrategyDocked", o), Past(created, out, rec, live, fresh, open),
                   Past(created, out, rec, live \ {o}, fresh, open))
<1> DEFINE w == Past(created, out, rec, live, fresh, open)
           w2 == Past(created, out, rec, live \ {o}, fresh, open)
<1>1. w.live = live /\ w.fresh = fresh /\ w.open = open /\ w.created = created
      /\ w.out = out /\ w.receipts = rec
  BY PastFields
<1>2. w2 = Past(w.created, w.out, w.receipts, live \ {o}, fresh, w.open)
  BY <1>1
<1> HIDE DEF w, w2
<1>3. ASSUME NEW d, VaultPast(d, w), NEW p \in Orders
      PROVE  LET Did(k) == Acted(d, k, p) \/ ("StrategyDocked" = k /\ o = p)
             IN  /\ p \in live \ {o} <=> Did("StrategyShipped") /\ ~Did("StrategyDocked")
                 /\ p \in fresh => ~Did("StrategyShipped") /\ ~Did("StrategyDocked")
  <2>1. /\ p \in live <=> Acted(d, "StrategyShipped", p) /\ ~Acted(d, "StrategyDocked", p)
        /\ p \in fresh => ~Acted(d, "StrategyShipped", p) /\ ~Acted(d, "StrategyDocked", p)
        /\ Acted(d, "StrategyShipped", o)
    BY <1>1, <1>3 DEF VaultPast
  <2> QED
    BY <2>1
<1>4. LogsRight(w, "StrategyDocked", o, live \ {o}, fresh)
  BY <1>3 DEF LogsRight
<1>5. Recalls(Referenced("StrategyDocked", o), w, w2)
  BY <1>2, <1>4, ReferenceRecalled
<1> QED
  BY <1>5 DEF w, w2

\* Collateral moves in or out: the vault's cash is counted.
LEMMA CollateralRecalled ==
    ASSUME NEW created, NEW out, NEW rec, NEW live, NEW fresh, NEW open,
           NEW amount \in Int, NEW bal, NEW lock, NEW kind \in {"Deposited", "FreeWithdrawn"},
           NEW more \in Int, more = IF kind = "Deposited" THEN amount ELSE -amount
    PROVE  Recalls(<<[source |-> "vault", event |-> kind, amount |-> amount,
                      balance |-> bal, locked |-> lock]>>,
                   Past(created, out, rec, live, fresh, open),
                   Past(created, out, rec, live, fresh, [open EXCEPT ![Cash] = @ + more]))
<1> DEFINE e == [source |-> "vault", event |-> kind, amount |-> amount,
                 balance |-> bal, locked |-> lock]
           w == Past(created, out, rec, live, fresh, open)
           open2 == [open EXCEPT ![Cash] = @ + more]
           w2 == Past(created, out, rec, live, fresh, open2)
<1>1. "reference" \notin DOMAIN e /\ e.source = "vault" /\ e.event = kind /\ e.amount = amount
  OBVIOUS
<1>2. /\ w.live = live /\ w.fresh = fresh /\ w.open = open /\ w.created = created
      /\ w.out = out /\ w.receipts = rec
      /\ w2.live = live /\ w2.fresh = fresh /\ w2.open = open2 /\ w2.created = created
      /\ w2.out = out /\ w2.receipts = rec
      /\ w2 = Past(w2.created, w2.out, w2.receipts, w2.live, w2.fresh, w2.open)
  BY PastFields
<1>3. Cash \in Books
  BY DEF Books
<1> HIDE DEF e, w, w2
<1>4. ASSUME NEW d, Remembers(d, w) PROVE Remembers(Handle(d, e), w2)
  <2>1. /\ DOMAIN d = Tables /\ VaultPast(d, w) /\ Opened(d) = open
        /\ open \in [Books -> Int] /\ SeriesPast(d, w)
    BY <1>2, <1>4, OpenInts DEF Remembers
  <2> DEFINE v == d.vault
  <2>2. DOMAIN v = DOMAIN NoVault /\ v.created /\ v.totalDeposited \in Int
        /\ v.totalWithdrawn \in Int
    BY <2>1 DEF VaultPast
  <2>3. PICK y : /\ Handle(d, e) = Record([d EXCEPT !.vault = y], e)
                 /\ DOMAIN y = DOMAIN NoVault /\ y.created /\ y.actions = v.actions
                 /\ y.totalDeposited \in Int /\ y.totalWithdrawn \in Int
                 /\ y.totalDeposited - y.totalWithdrawn
                      = v.totalDeposited - v.totalWithdrawn + more
    <3>1. CASE kind = "Deposited"
      <4> DEFINE y == [v EXCEPT !.totalDeposited = v.totalDeposited + e.amount]
      <4>1. Handle(d, e) = Record([d EXCEPT !.vault = y], e)
        BY <1>1, <2>2, <3>1, VaultHandled DEF HandleDeposited
      <4>2. DOMAIN y = DOMAIN NoVault /\ y.created /\ y.actions = v.actions
            /\ y.totalDeposited = v.totalDeposited + amount
            /\ y.totalWithdrawn = v.totalWithdrawn
        BY <1>1, <2>2, StoreFields
      <4> HIDE DEF y, v
      <4>3. more \in Int /\ more = amount
        BY <3>1
      <4>4. /\ y.totalDeposited \in Int /\ y.totalWithdrawn \in Int
            /\ y.totalDeposited - y.totalWithdrawn
                 = v.totalDeposited - v.totalWithdrawn + more
        BY <2>2, <4>2, <4>3
      <4> QED
        BY ZenonT(30), <4>1, <4>2, <4>4
    <3>2. CASE kind = "FreeWithdrawn"
      <4> DEFINE y == [v EXCEPT !.totalWithdrawn = v.totalWithdrawn + e.amount]
      <4>1. Handle(d, e) = Record([d EXCEPT !.vault = y], e)
        BY <1>1, <2>2, <3>2, VaultHandled DEF HandleFreeWithdrawn
      <4>2. DOMAIN y = DOMAIN NoVault /\ y.created /\ y.actions = v.actions
            /\ y.totalDeposited = v.totalDeposited
            /\ y.totalWithdrawn = v.totalWithdrawn + amount
        BY <1>1, <2>2, StoreFields
      <4> HIDE DEF y, v
      <4>3. more \in Int /\ more = -amount
        BY <3>2
      <4>4. /\ y.totalDeposited \in Int /\ y.totalWithdrawn \in Int
            /\ y.totalDeposited - y.totalWithdrawn
                 = v.totalDeposited - v.totalWithdrawn + more
        BY <2>2, <4>2, <4>3
      <4> QED
        BY ZenonT(30), <4>1, <4>2, <4>4
    <3> QED
      BY <3>1, <3>2
  <2> DEFINE d1 == [d EXCEPT !.vault = y]
  <2>4. d1.vault = y /\ d1.series = d.series /\ d1.fills = d.fills
    BY <2>1, VaultOpened
  <2>5. Opened(d1) = open2
    <3> HIDE DEF d1
    <3>1. Flow(d1) = Flow(d) + more
      <4>1. Nets(d1) = Nets(d)
        BY <2>4 DEF Nets
      <4>2. SumFunction(Nets(d)) \in Int
        BY <2>1, NetsInt
      <4> HIDE DEF v
      <4>3. /\ Flow(d1) = y.totalDeposited - y.totalWithdrawn + SumFunction(Nets(d))
            /\ Flow(d) = v.totalDeposited - v.totalWithdrawn + SumFunction(Nets(d))
        BY <2>4, <4>1 DEF Flow, v
      <4> DEFINE sum == SumFunction(Nets(d))
      <4> HIDE DEF sum
      <4> QED
        BY <2>2, <2>3, <4>2, <4>3 DEF sum
    <3>2. \A s, leg, what : Unfilled(d1, s, leg, what) = Unfilled(d, s, leg, what)
      BY <2>4 DEF Unfilled
    <3>3. Opened(d1) = [Opened(d) EXCEPT ![Cash] = Flow(d) + more]
      BY ZenonT(60), <1>3, <3>1, <3>2 DEF Opened
    <3>4. Opened(d)[Cash] = Flow(d)
      BY <1>3 DEF Opened
    <3> QED
      BY <2>1, <3>3, <3>4
  <2>6. VaultPast(d1, w2)
    <3>1. \A kind2, o : Acted(d1, kind2, o) <=> Acted(d, kind2, o)
      BY <2>3, <2>4 DEF Acted
    <3> HIDE DEF d1
    <3> QED
      BY <1>2, <2>1, <2>3, <2>4, <3>1 DEF VaultPast
  <2>7. Remembers(d1, w2)
    BY <1>2, <1>4, <2>5, <2>6, VaultKept
  <2> HIDE DEF d1
  <2>8. Remembers(Record(d1, e), w2)
    <3>1. ActsRight(d1, e, w2.live, w2.fresh)
      BY <1>1, <2>6, ActsSame
    <3> QED
      BY <1>2, <2>7, <3>1, ActionKept
  <2> QED
    BY <2>3, <2>8 DEF d1
<1>5. Recalls(<<e>>, w, w2)
  BY <1>4, RecallsOne
<1> QED
  BY <1>5 DEF e, w, w2

-----------------------------------------------------------------------------
(* The handlers of the series *)

\* The entity of s is saved as x, and nothing else that is remembered.
EntrySaved(d, d2, s, x) ==
    /\ DOMAIN d2 = Tables /\ d2.vault = d.vault /\ d2.order = d.order
    /\ d2.fills = d.fills /\ d2.balance = d.balance
    /\ d2.series = [d.series EXCEPT ![s] = x]

Mores == [Kinds \X Measures -> Int]

\* Entity x has booked so much more than y.
BookedMore(x, y, more) ==
    \A leg \in Kinds, what \in Measures :
        Booked(x, leg, what) = Booked(y, leg, what) + more[<<leg, what>>]

InFlow(more) ==
    more[<<"ISSUE", "quote">>] - more[<<"EXIT", "quote">>] - more[<<"SETTLE", "quote">>]

\* What is open once so much more is booked for s.
Added(open, s, more) ==
    [b \in Books |-> open[b] + (IF b = Cash THEN InFlow(more)
                                ELSE IF b[1] = s THEN more[<<b[2], b[3]>>] ELSE 0)]

LEMMA MoreTypes ==
    ASSUME NEW more \in Mores
    PROVE  /\ InFlow(more) \in Int
           /\ \A leg \in Kinds, what \in Measures : more[<<leg, what>>] \in Int
<1>1. \A leg \in Kinds, what \in Measures : more[<<leg, what>>] \in Int
  BY DEF Mores
<1>2. "ISSUE" \in Kinds /\ "EXIT" \in Kinds /\ "SETTLE" \in Kinds /\ "quote" \in Measures
  BY DEF Kinds, Measures
<1> QED
  BY <1>1, <1>2 DEF InFlow

LEMMA NetMore ==
    ASSUME NEW x, NEW y, NEW out, EntryOf(y, out), NEW more \in Mores, BookedMore(x, y, more)
    PROVE  /\ Net(y) \in Int /\ Net(x) = Net(y) + InFlow(more)
           /\ \A leg \in Kinds, what \in Measures :
                Booked(y, leg, what) \in Int /\ Booked(x, leg, what) \in Int
<1>1. "ISSUE" \in Kinds /\ "EXIT" \in Kinds /\ "SETTLE" \in Kinds /\ "quote" \in Measures
  BY DEF Kinds, Measures
<1>2. ASSUME NEW leg \in Kinds, NEW what \in Measures
      PROVE  /\ Booked(y, leg, what) \in Int /\ Booked(x, leg, what) \in Int
             /\ more[<<leg, what>>] \in Int
             /\ Booked(x, leg, what) = Booked(y, leg, what) + more[<<leg, what>>]
  <2>1. more[<<leg, what>>] \in Int
    BY MoreTypes
  <2>2. Booked(y, leg, what) \in Int
    BY DEF EntryOf
  <2>3. Booked(x, leg, what) = Booked(y, leg, what) + more[<<leg, what>>]
    BY DEF BookedMore
  <2> QED
    BY <2>1, <2>2, <2>3
<1>3. \A z : /\ Booked(z, "ISSUE", "quote") = z.premiumCollected
             /\ Booked(z, "EXIT", "quote") = z.exitPaid
             /\ Booked(z, "SETTLE", "quote") = z.settlementPaid
  BY DEF Booked
<1>4. Net(y) \in Int
  BY BookedInt
<1>5. /\ x.premiumCollected = y.premiumCollected + more[<<"ISSUE", "quote">>]
      /\ x.exitPaid = y.exitPaid + more[<<"EXIT", "quote">>]
      /\ x.settlementPaid = y.settlementPaid + more[<<"SETTLE", "quote">>]
      /\ y.premiumCollected \in Int /\ y.exitPaid \in Int /\ y.settlementPaid \in Int
      /\ more[<<"ISSUE", "quote">>] \in Int /\ more[<<"EXIT", "quote">>] \in Int
      /\ more[<<"SETTLE", "quote">>] \in Int
  BY <1>1, <1>2, <1>3
<1>6. Net(x) = Net(y) + InFlow(more)
  BY <1>5 DEF Net, InFlow
<1> QED
  BY <1>2, <1>4, <1>6

LEMMA EntryOpened ==
    ASSUME NEW d, NEW w, Remembers(d, w), NEW s \in AllSeries, s \in w.created,
           NEW x, NEW out, EntryOf(x, out), NEW d2, EntrySaved(d, d2, s, x),
           NEW more \in Mores, BookedMore(x, d.series[s], more)
    PROVE  Opened(d2) = Added(w.open, s, more)
<1> DEFINE y == d.series[s]
<1>1. /\ SeriesPast(d, w) /\ VaultPast(d, w) /\ w.open = Opened(d)
      /\ Nets(d) \in [AllSeries -> Int] /\ SumFunction(Nets(d)) \in Int
  BY NetsInt DEF Remembers
<1>2. /\ EntryOf(y, w.out[s]) /\ s \in DOMAIN d.series
      /\ \A leg \in Kinds : OrderOf(d, s, leg)
  BY <1>1 DEF SeriesPast
<1>3. /\ Net(y) \in Int /\ Net(x) = Net(y) + InFlow(more)
      /\ \A leg \in Kinds, what \in Measures :
            Booked(y, leg, what) \in Int /\ Booked(x, leg, what) \in Int
  BY <1>2, NetMore
<1>4. InFlow(more) \in Int /\ \A leg \in Kinds, what \in Measures : more[<<leg, what>>] \in Int
  BY MoreTypes
<1>5. /\ DOMAIN d2.series = DOMAIN d.series /\ d2.series[s] = x
      /\ \A t \in AllSeries \ {s} : d2.series[t] = d.series[t] \/ t \notin DOMAIN d.series
      /\ d2.vault = d.vault /\ d2.fills = d.fills
  BY <1>2 DEF EntrySaved
<1> HIDE DEF y
<1>6. Nets(d2) \in [AllSeries -> Int] /\ Nets(d2)[s] = Net(x) /\ Nets(d)[s] = Net(y)
      /\ \A t \in AllSeries \ {s} : Nets(d2)[t] = Nets(d)[t]
  <2>1. Nets(d2)[s] = Net(x) /\ Nets(d)[s] = Net(y)
    BY <1>2, <1>5 DEF Nets, y
  <2>2. \A t \in AllSeries \ {s} : Nets(d2)[t] = Nets(d)[t]
    BY <1>5 DEF Nets
  <2>3. DOMAIN Nets(d2) = AllSeries /\ Nets(d2) = [t \in AllSeries |-> Nets(d2)[t]]
    BY DEF Nets
  <2>4. ASSUME NEW t \in AllSeries PROVE Nets(d2)[t] \in Int
    <3>1. CASE t = s
      BY <1>3, <1>4, <2>1, <3>1
    <3>2. CASE t # s
      BY <1>1, <2>2, <3>2
    <3> QED
      BY <3>1, <3>2
  <2> QED
    BY <2>1, <2>2, <2>3, <2>4
<1>7. SumFunction(Nets(d2)) = SumFunction(Nets(d)) + (Nets(d2)[s] - Nets(d)[s])
  BY <1>1, <1>6, SumExcept, SeriesAssumption
<1>8. Flow(d2) = Flow(d) + InFlow(more)
  <2> DEFINE a == SumFunction(Nets(d))
             b == SumFunction(Nets(d2))
             p == d.vault.totalDeposited
             q == d.vault.totalWithdrawn
  <2>1. b = a + (Net(x) - Net(y)) /\ a \in Int
    BY <1>1, <1>6, <1>7
  <2>2. Flow(d2) = p - q + b /\ Flow(d) = p - q + a /\ p \in Int /\ q \in Int
    BY <1>1, <1>5 DEF Flow, VaultPast
  <2> HIDE DEF a, b, p, q
  <2> QED
    BY <1>3, <1>4, <2>1, <2>2
<1>9. ASSUME NEW t \in AllSeries, NEW leg \in Kinds, NEW what \in Measures
      PROVE  Unfilled(d2, t, leg, what)
                = Unfilled(d, t, leg, what) + IF t = s THEN more[<<leg, what>>] ELSE 0
  <2>1. CASE t = s
    <3>1. Unfilled(d2, t, leg, what) = Booked(x, leg, what) - d.fills[<<s, leg>>][what]
          /\ Unfilled(d, t, leg, what) = Booked(y, leg, what) - d.fills[<<s, leg>>][what]
      BY <1>2, <1>5, <2>1 DEF Unfilled, y
    <3>2. Booked(x, leg, what) = Booked(y, leg, what) + more[<<leg, what>>]
      BY DEF BookedMore, y
    <3>3. d.fills[<<s, leg>>][what] \in Int
      BY <1>2 DEF OrderOf, Measures
    <3>4. Booked(x, leg, what) \in Int /\ Booked(y, leg, what) \in Int
          /\ more[<<leg, what>>] \in Int
      BY <1>3, <1>4
    <3> HIDE DEF Booked
    <3> QED
      BY <2>1, <3>1, <3>2, <3>3, <3>4
  <2>2. CASE t # s
    <3>1. Unfilled(d2, t, leg, what) = Unfilled(d, t, leg, what)
      BY <1>5, <2>2 DEF Unfilled
    <3>2. Unfilled(d, t, leg, what) \in Int
      BY <1>1, UnfilledInt
    <3> QED
      BY <2>2, <3>1, <3>2
  <2> QED
    BY <2>1, <2>2
<1>10. ASSUME NEW b \in Books
       PROVE  Opened(d2)[b] = Added(w.open, s, more)[b]
  <2>1. CASE b = Cash
    BY <1>1, <1>8, <2>1 DEF Opened, Added
  <2>2. CASE b # Cash
    <3>1. b[1] \in AllSeries /\ b[2] \in Kinds /\ b[3] \in Measures
      BY <2>2, BooksSplit
    <3>2. Opened(d2)[b] = Unfilled(d2, b[1], b[2], b[3])
          /\ w.open[b] = Unfilled(d, b[1], b[2], b[3])
      BY <1>1, <2>2 DEF Opened
    <3>3. Added(w.open, s, more)[b]
            = w.open[b] + IF b[1] = s THEN more[<<b[2], b[3]>>] ELSE 0
      BY <2>2 DEF Added
    <3> QED
      BY <1>9, <3>1, <3>2, <3>3
  <2> QED
    BY <2>1, <2>2
<1> QED
  BY <1>10 DEF Opened, Added

LEMMA EntryKept ==
    ASSUME NEW d, NEW w, Remembers(d, w), NEW s \in AllSeries, s \in w.created,
           NEW out, \A t \in w.created \ {s} : out[t] = w.out[t],
           NEW x, EntryOf(x, out[s]), NEW d2, EntrySaved(d, d2, s, x),
           NEW more \in Mores, BookedMore(x, d.series[s], more)
    PROVE  Remembers(d2, Past(w.created, out, w.receipts, w.live, w.fresh,
                              Added(w.open, s, more)))
<1> DEFINE w2 == Past(w.created, out, w.receipts, w.live, w.fresh, Added(w.open, s, more))
<1>1. /\ w2.created = w.created /\ w2.out = out /\ w2.receipts = w.receipts
      /\ w2.live = w.live /\ w2.fresh = w.fresh /\ w2.open = Added(w.open, s, more)
  BY PastFields
<1> HIDE DEF w2
<1>2. /\ DOMAIN d2 = Tables /\ d2.vault = d.vault /\ d2.order = d.order
      /\ d2.fills = d.fills /\ d2.balance = d.balance
  BY DEF EntrySaved
<1>3. Opened(d2) = w2.open
  BY <1>1, EntryOpened
<1>4. VaultPast(d2, w2)
  <2>1. VaultPast(d, w) /\ \A kind, o : Acted(d2, kind, o) <=> Acted(d, kind, o)
    BY <1>2 DEF Remembers, Acted
  <2> QED
    BY <1>1, <1>2, <2>1 DEF VaultPast
<1>5. SeriesPast(d2, w2)
  <2>1. SeriesPast(d, w)
    BY DEF Remembers
  <2>2. \A t \in w.created, leg \in Kinds : OrderOf(d2, t, leg)
    BY ZenonT(60), <1>2, <2>1 DEF SeriesPast, OrderOf
  <2>3. /\ DOMAIN d2.series = w.created /\ d2.series[s] = x
        /\ \A t \in w.created \ {s} : d2.series[t] = d.series[t]
    BY <2>1 DEF SeriesPast, EntrySaved
  <2>4. \A t \in w.created : EntryOf(d2.series[t], out[t])
    BY <2>1, <2>3 DEF SeriesPast
  <2> QED
    BY <1>1, <2>2, <2>3, <2>4 DEF SeriesPast
<1>6. BalancePast(d2, w2)
  <2>1. \A t, a : BalanceFor(d2, t, a) = BalanceFor(d, t, a)
    BY <1>2 DEF BalanceFor
  <2> QED
    BY <1>1, <2>1 DEF Remembers, BalancePast
<1> QED
  BY <1>2, <1>3, <1>4, <1>5, <1>6 DEF Remembers, w2

\* A fill of a leg.
Fill(leg, units, quote) ==
    [m \in Kinds \X Measures |-> IF m[1] # leg THEN 0
                                 ELSE IF m[2] = "units" THEN units ELSE quote]

\* Entity x is y with one fill booked and so many units burned.
EntryFilled(x, y, leg, units, quote, burned) ==
    /\ DOMAIN x = DOMAIN y
    /\ x.unitsIssued = y.unitsIssued + (IF leg = "ISSUE" THEN units ELSE 0)
    /\ x.unitsExited = y.unitsExited + (IF leg = "EXIT" THEN units ELSE 0)
    /\ x.unitsSettled = y.unitsSettled + (IF leg = "SETTLE" THEN units ELSE 0)
    /\ x.premiumCollected = y.premiumCollected + (IF leg = "ISSUE" THEN quote ELSE 0)
    /\ x.exitPaid = y.exitPaid + (IF leg = "EXIT" THEN quote ELSE 0)
    /\ x.settlementPaid = y.settlementPaid + (IF leg = "SETTLE" THEN quote ELSE 0)
    /\ x.unitsBurned = y.unitsBurned + burned

LEMMA FillTypes ==
    ASSUME NEW leg \in Kinds, NEW units \in Int, NEW quote \in Int
    PROVE  /\ Fill(leg, units, quote) \in Mores
           /\ \A k \in Kinds, m \in Measures :
                Fill(leg, units, quote)[<<k, m>>]
                    = IF k # leg THEN 0 ELSE IF m = "units" THEN units ELSE quote
<1>1. ASSUME NEW k \in Kinds, NEW m \in Measures
      PROVE  Fill(leg, units, quote)[<<k, m>>]
                = IF k # leg THEN 0 ELSE IF m = "units" THEN units ELSE quote
  BY DEF Fill
<1>2. Fill(leg, units, quote) \in Mores
  <2> DEFINE value(m) == IF m[1] # leg THEN 0 ELSE IF m[2] = "units" THEN units ELSE quote
  <2>1. \A m : value(m) \in Int
    OBVIOUS
  <2>2. Fill(leg, units, quote) = [m \in Kinds \X Measures |-> value(m)]
    BY DEF Fill
  <2> HIDE DEF value
  <2> QED
    BY <2>1, <2>2 DEF Mores
<1> QED
  BY <1>1, <1>2

LEMMA FilledBooks ==
    ASSUME NEW x, NEW y, NEW leg \in Kinds, NEW units \in Int, NEW quote \in Int, NEW burned,
           EntryFilled(x, y, leg, units, quote, burned)
    PROVE  BookedMore(x, y, Fill(leg, units, quote))
<1>1. ASSUME NEW k \in Kinds, NEW m \in Measures
      PROVE  Booked(x, k, m) = Booked(y, k, m)
                + (IF k # leg THEN 0 ELSE IF m = "units" THEN units ELSE quote)
  BY DEF Booked, EntryFilled, Kinds, Measures
<1>2. ASSUME NEW k \in Kinds, NEW m \in Measures
      PROVE  Booked(x, k, m) = Booked(y, k, m) + Fill(leg, units, quote)[<<k, m>>]
  <2>1. Fill(leg, units, quote)[<<k, m>>]
            = IF k # leg THEN 0 ELSE IF m = "units" THEN units ELSE quote
    BY FillTypes
  <2> QED
    BY <1>1, <2>1
<1> QED
  BY <1>2 DEF BookedMore

LEMMA FilledEntry ==
    ASSUME NEW x, NEW y, NEW leg \in Kinds, NEW units \in Int, NEW quote \in Int,
           NEW burned \in Int, EntryFilled(x, y, leg, units, quote, burned),
           NEW out \in Int, EntryOf(y, out), NEW out2,
           out2 = out + (IF leg = "ISSUE" THEN units ELSE -units) - burned
    PROVE  EntryOf(x, out2)
<1>1. BookedMore(x, y, Fill(leg, units, quote)) /\ Fill(leg, units, quote) \in Mores
  BY FilledBooks, FillTypes
<1>2. \A k \in Kinds, m \in Measures : Booked(x, k, m) \in Int
  BY <1>1, NetMore
<1>3. /\ "ISSUE" \in Kinds /\ "EXIT" \in Kinds /\ "SETTLE" \in Kinds /\ "units" \in Measures
      /\ leg = "ISSUE" \/ leg = "EXIT" \/ leg = "SETTLE"
  BY DEF Kinds, Measures
<1>4. \A z : /\ Booked(z, "ISSUE", "units") = z.unitsIssued
             /\ Booked(z, "EXIT", "units") = z.unitsExited
             /\ Booked(z, "SETTLE", "units") = z.unitsSettled
  BY DEF Booked
<1>5. /\ y.unitsIssued \in Int /\ y.unitsExited \in Int /\ y.unitsSettled \in Int
      /\ y.unitsBurned \in Int
      /\ y.unitsIssued = y.unitsExited + y.unitsSettled + y.unitsBurned + out
  BY <1>3, <1>4 DEF EntryOf
<1>6. x.unitsBurned \in Int
      /\ x.unitsIssued = x.unitsExited + x.unitsSettled + x.unitsBurned + out2
  BY <1>3, <1>5 DEF EntryFilled
<1>7. DOMAIN x = DOMAIN NewSeries(0)
  BY DEF EntryFilled, EntryOf
<1> QED
  BY <1>2, <1>6, <1>7 DEF EntryOf

\* Event e books this fill on the entity of s, with out outstanding.
EntryHandled(e, s, out, leg, units, quote, burned) ==
    \A d : DOMAIN d = Tables /\ s \in DOMAIN d.series /\ EntryOf(d.series[s], out)
              => \E x : /\ EntrySaved(d, Handle(d, e), s, x)
                        /\ EntryFilled(x, d.series[s], leg, units, quote, burned)

\* An event that books a fill, or none, on the entity of its series.
LEMMA EntryRecalled ==
    ASSUME NEW w, NEW s \in AllSeries, s \in w.created, w.out[s] \in Int,
           NEW leg \in Kinds, NEW units \in Int, NEW quote \in Int, NEW burned \in Int,
           NEW out, \A t \in w.created \ {s} : out[t] = w.out[t],
           out[s] = w.out[s] + (IF leg = "ISSUE" THEN units ELSE -units) - burned,
           NEW e, EntryHandled(e, s, w.out[s], leg, units, quote, burned)
    PROVE  Recalls(<<e>>, w, Past(w.created, out, w.receipts, w.live, w.fresh,
                                  Added(w.open, s, Fill(leg, units, quote))))
<1> DEFINE w2 == Past(w.created, out, w.receipts, w.live, w.fresh,
                      Added(w.open, s, Fill(leg, units, quote)))
<1>1. ASSUME NEW d, Remembers(d, w) PROVE Remembers(Handle(d, e), w2)
  <2>1. DOMAIN d = Tables /\ s \in DOMAIN d.series /\ EntryOf(d.series[s], w.out[s])
    BY <1>1 DEF Remembers, SeriesPast
  <2>2. PICK x : /\ EntrySaved(d, Handle(d, e), s, x)
                 /\ EntryFilled(x, d.series[s], leg, units, quote, burned)
    BY <2>1 DEF EntryHandled
  <2>3. EntryOf(x, out[s])
    BY <2>1, <2>2, FilledEntry
  <2>4. /\ BookedMore(x, d.series[s], Fill(leg, units, quote))
        /\ Fill(leg, units, quote) \in Mores
    BY <2>2, FilledBooks, FillTypes
  <2> QED
    BY <1>1, <2>2, <2>3, <2>4, EntryKept
<1> HIDE DEF w2
<1>2. Recalls(<<e>>, w, w2)
  BY <1>1, RecallsOne
<1> QED
  BY <1>2 DEF w2

LEMMA EntryFields ==
    ASSUME NEW d, DOMAIN d = Tables, NEW s, s \in DOMAIN d.series, NEW x
    PROVE  EntrySaved(d, [d EXCEPT !.series[s] = x], s, x)
<1> DEFINE table == [d.series EXCEPT ![s] = x]
<1>1. [d EXCEPT !.series[s] = x] = [d EXCEPT !.series = table]
  OBVIOUS
<1>2. table = [d.series EXCEPT ![s] = x]
  OBVIOUS
<1> HIDE DEF table
<1> QED
  BY <1>1, <1>2, StoreFields DEF EntrySaved

\* The numbers of an entity.
LEMMA EntryInts ==
    ASSUME NEW y, NEW out, EntryOf(y, out)
    PROVE  /\ DOMAIN y = DOMAIN NewSeries(0)
           /\ y.unitsIssued \in Int /\ y.unitsExited \in Int /\ y.unitsSettled \in Int
           /\ y.premiumCollected \in Int /\ y.exitPaid \in Int /\ y.settlementPaid \in Int
           /\ y.unitsBurned \in Int
<1>1. /\ "ISSUE" \in Kinds /\ "EXIT" \in Kinds /\ "SETTLE" \in Kinds
      /\ "units" \in Measures /\ "quote" \in Measures
  BY DEF Kinds, Measures
<1>2. /\ Booked(y, "ISSUE", "units") = y.unitsIssued
      /\ Booked(y, "EXIT", "units") = y.unitsExited
      /\ Booked(y, "SETTLE", "units") = y.unitsSettled
      /\ Booked(y, "ISSUE", "quote") = y.premiumCollected
      /\ Booked(y, "EXIT", "quote") = y.exitPaid
      /\ Booked(y, "SETTLE", "quote") = y.settlementPaid
  BY DEF Booked
<1> QED
  BY <1>1, <1>2 DEF EntryOf

\* Issued, Exited and Settled.
FillEvent(leg) ==
    IF leg = "ISSUE" THEN "Issued" ELSE IF leg = "EXIT" THEN "Exited" ELSE "Settled"

\* An issue, an exit or a settlement adds its fill to what the entity has booked.
LEMMA ReportRecalled ==
    ASSUME NEW w, NEW s \in AllSeries, s \in w.created, w.out[s] \in Int,
           NEW leg \in Kinds, NEW units \in Int, NEW quote \in Int,
           NEW out, \A t \in w.created \ {s} : out[t] = w.out[t],
           out[s] = w.out[s] + (IF leg = "ISSUE" THEN units ELSE -units),
           NEW e, e.source = "market", e.event = FillEvent(leg), e.series = s,
           e.units = units, e.quote = quote
    PROVE  Recalls(<<e>>, w, Past(w.created, out, w.receipts, w.live, w.fresh,
                                  Added(w.open, s, Fill(leg, units, quote))))
<1>1. ASSUME NEW d, DOMAIN d = Tables, s \in DOMAIN d.series, EntryOf(d.series[s], w.out[s])
      PROVE  \E x : /\ EntrySaved(d, Handle(d, e), s, x)
                    /\ EntryFilled(x, d.series[s], leg, units, quote, 0)
  <2> DEFINE y == d.series[s]
  <2>1. Handle(d, e) = HandleSeriesEvent(d, e)
    BY <1>1, SeriesHandled DEF FillEvent
  <2>2. /\ DOMAIN y = DOMAIN NewSeries(0)
        /\ y.unitsIssued \in Int /\ y.unitsExited \in Int /\ y.unitsSettled \in Int
        /\ y.premiumCollected \in Int /\ y.exitPaid \in Int /\ y.settlementPaid \in Int
        /\ y.unitsBurned \in Int
    BY <1>1, EntryInts
  <2> HIDE DEF y
  <2>3. CASE leg = "ISSUE"
    <3> DEFINE x == [y EXCEPT !.unitsIssued = y.unitsIssued + e.units,
                              !.premiumCollected = y.premiumCollected + e.quote,
                              !.outstanding = e.newOutstanding, !.locked = e.newLocked]
    <3>1. Handle(d, e) = [d EXCEPT !.series[s] = x]
      BY <2>1, <2>3 DEF HandleSeriesEvent, HandleIssued, y, FillEvent
    <3>2. EntryFilled(x, y, leg, units, quote, 0)
      BY <2>2, <2>3, StoreFields DEF EntryFilled
    <3> HIDE DEF x
    <3> QED
      BY <1>1, <3>1, <3>2, EntryFields DEF y
  <2>4. CASE leg = "EXIT"
    <3> DEFINE x == [y EXCEPT !.unitsExited = y.unitsExited + e.units,
                              !.exitPaid = y.exitPaid + e.quote,
                              !.outstanding = e.newOutstanding, !.locked = e.newLocked]
    <3>1. Handle(d, e) = [d EXCEPT !.series[s] = x]
      BY <2>1, <2>4 DEF HandleSeriesEvent, HandleExited, y, FillEvent
    <3>2. EntryFilled(x, y, leg, units, quote, 0)
      BY <2>2, <2>4, StoreFields DEF EntryFilled
    <3> HIDE DEF x
    <3> QED
      BY <1>1, <3>1, <3>2, EntryFields DEF y
  <2>5. CASE leg = "SETTLE"
    <3> DEFINE x == [y EXCEPT !.unitsSettled = y.unitsSettled + e.units,
                              !.settlementPaid = y.settlementPaid + e.quote,
                              !.outstanding = e.newOutstanding, !.locked = e.newLocked]
    <3>1. Handle(d, e) = [d EXCEPT !.series[s] = x]
      BY <2>1, <2>5 DEF HandleSeriesEvent, HandleSettled, y, FillEvent
    <3>2. EntryFilled(x, y, leg, units, quote, 0)
      BY <2>2, <2>5, StoreFields DEF EntryFilled
    <3> HIDE DEF x
    <3> QED
      BY <1>1, <3>1, <3>2, EntryFields DEF y
  <2> QED
    BY <2>3, <2>4, <2>5 DEF Kinds
<1>2. out[s] = w.out[s] + (IF leg = "ISSUE" THEN units ELSE -units) - 0
  <2> DEFINE o == w.out[s]
             change == IF leg = "ISSUE" THEN units ELSE -units
  <2>1. out[s] = o + change /\ o \in Int /\ change \in Int
    OBVIOUS
  <2> HIDE DEF o, change
  <2>2. out[s] = o + change - 0
    BY <2>1
  <2> QED
    BY <2>2 DEF o, change
<1>3. EntryHandled(e, s, w.out[s], leg, units, quote, 0)
  BY <1>1 DEF EntryHandled
<1> QED
  BY <1>2, <1>3, EntryRecalled

LEMMA NothingAdded ==
    ASSUME NEW open \in [Books -> Int], NEW s
    PROVE  Added(open, s, Fill("ISSUE", 0, 0)) = open
<1> DEFINE more == Fill("ISSUE", 0, 0)
<1>1. /\ "ISSUE" \in Kinds /\ "EXIT" \in Kinds /\ "SETTLE" \in Kinds /\ "quote" \in Measures
  BY DEF Kinds, Measures
<1>2. \A k \in Kinds, m \in Measures : more[<<k, m>>] = 0
  BY DEF Fill
<1> HIDE DEF more
<1>3. InFlow(more) = 0
  BY <1>1, <1>2 DEF InFlow
<1>4. ASSUME NEW b \in Books
      PROVE  open[b] + (IF b = Cash THEN InFlow(more)
                        ELSE IF b[1] = s THEN more[<<b[2], b[3]>>] ELSE 0) = open[b]
  <2>1. open[b] \in Int
    OBVIOUS
  <2> QED
    BY <1>2, <1>3, <2>1, BooksSplit
<1> QED
  BY <1>4 DEF Added, more

\* An event that books nothing.
LEMMA QuietRecalled ==
    ASSUME NEW w, NEW s \in AllSeries, s \in w.created, w.out[s] \in Int,
           NEW e, EntryHandled(e, s, w.out[s], "ISSUE", 0, 0, 0)
    PROVE  Recalls(<<e>>, w, w)
<1>1. ASSUME NEW d, Remembers(d, w) PROVE Remembers(Handle(d, e), w)
  <2>1. DOMAIN d = Tables /\ s \in DOMAIN d.series /\ EntryOf(d.series[s], w.out[s])
    BY <1>1 DEF Remembers, SeriesPast
  <2>2. PICK x : /\ EntrySaved(d, Handle(d, e), s, x)
                 /\ EntryFilled(x, d.series[s], "ISSUE", 0, 0, 0)
    BY <2>1 DEF EntryHandled
  <2>3. "ISSUE" \in Kinds
    BY DEF Kinds
  <2>4. EntryOf(x, w.out[s])
    <3>1. w.out[s] = w.out[s] + (IF "ISSUE" = "ISSUE" THEN 0 ELSE -0) - 0
      OBVIOUS
    <3> QED
      BY <2>1, <2>2, <2>3, <3>1, FilledEntry
  <2>5. /\ BookedMore(x, d.series[s], Fill("ISSUE", 0, 0))
        /\ Fill("ISSUE", 0, 0) \in Mores
    BY <2>2, <2>3, FilledBooks, FillTypes
  <2>6. Remembers(Handle(d, e), Past(w.created, w.out, w.receipts, w.live, w.fresh,
                                     Added(w.open, s, Fill("ISSUE", 0, 0))))
    BY <1>1, <2>2, <2>4, <2>5, EntryKept
  <2>7. Added(w.open, s, Fill("ISSUE", 0, 0)) = w.open
    BY <1>1, OpenInts, NothingAdded
  <2> QED
    BY <1>1, <2>6, <2>7, PastSame
<1> QED
  BY <1>1, RecallsOne

LEMMA QuietFields ==
    ASSUME NEW y, NEW out, EntryOf(y, out), NEW x, DOMAIN x = DOMAIN y,
           x.unitsIssued = y.unitsIssued, x.unitsExited = y.unitsExited,
           x.unitsSettled = y.unitsSettled, x.premiumCollected = y.premiumCollected,
           x.exitPaid = y.exitPaid, x.settlementPaid = y.settlementPaid,
           x.unitsBurned = y.unitsBurned
    PROVE  EntryFilled(x, y, "ISSUE", 0, 0, 0)
  BY EntryInts DEF EntryFilled

\* Finalized, IssuanceStopped, SeriesClosed, Checkpointed.
LEMMA StateRecalled ==
    ASSUME NEW w, NEW s \in AllSeries, s \in w.created, w.out[s] \in Int,
           NEW e, e.source = "market", e.series = s,
           e.event \in {"Finalized", "IssuanceStopped", "SeriesClosed", "Checkpointed"}
    PROVE  Recalls(<<e>>, w, w)
<1>1. ASSUME NEW d, DOMAIN d = Tables, s \in DOMAIN d.series, EntryOf(d.series[s], w.out[s])
      PROVE  \E x : /\ EntrySaved(d, Handle(d, e), s, x)
                    /\ EntryFilled(x, d.series[s], "ISSUE", 0, 0, 0)
  <2> DEFINE y == d.series[s]
  <2>1. Handle(d, e) = HandleSeriesEvent(d, e)
    BY <1>1, SeriesHandled
  <2>2. EntryOf(y, w.out[s]) /\ DOMAIN y = DOMAIN NewSeries(0)
    BY <1>1 DEF EntryOf
  <2> HIDE DEF y
  <2>3. CASE e.event = "Finalized"
    <3> DEFINE x == [y EXCEPT !.locked = y.locked - e.released]
               final == With(d.finalization, s, [ppu |-> e.ppu, outstanding |-> e.outstanding])
               table == [d.series EXCEPT ![s] = x]
               d2 == [d EXCEPT !.finalization = final, !.series = table]
    <3>1. Handle(d, e) = d2
      BY <2>1, <2>3 DEF HandleSeriesEvent, HandleFinalized, y
    <3>2. EntryFilled(x, y, "ISSUE", 0, 0, 0)
      <4>1. /\ DOMAIN x = DOMAIN y
            /\ x.unitsIssued = y.unitsIssued /\ x.unitsExited = y.unitsExited
            /\ x.unitsSettled = y.unitsSettled /\ x.premiumCollected = y.premiumCollected
            /\ x.exitPaid = y.exitPaid /\ x.settlementPaid = y.settlementPaid
            /\ x.unitsBurned = y.unitsBurned
        BY <2>2, StoreFields
      <4> HIDE DEF x
      <4> QED
        BY <2>2, <4>1, QuietFields
    <3>3. table = [d.series EXCEPT ![s] = x]
      OBVIOUS
    <3> HIDE DEF x, final, table
    <3>4. EntrySaved(d, d2, s, x)
      BY <1>1, <3>3, StoreFields DEF EntrySaved
    <3> QED
      BY <3>1, <3>2, <3>4 DEF y
  <2>4. CASE e.event = "IssuanceStopped"
    <3> DEFINE x == [y EXCEPT !.stopped = TRUE]
    <3>1. Handle(d, e) = [d EXCEPT !.series[s] = x]
      BY <2>1, <2>4 DEF HandleSeriesEvent, HandleIssuanceStopped, y
    <3>2. /\ DOMAIN x = DOMAIN y
          /\ x.unitsIssued = y.unitsIssued /\ x.unitsExited = y.unitsExited
          /\ x.unitsSettled = y.unitsSettled /\ x.premiumCollected = y.premiumCollected
          /\ x.exitPaid = y.exitPaid /\ x.settlementPaid = y.settlementPaid
          /\ x.unitsBurned = y.unitsBurned
      BY <2>2, StoreFields
    <3> HIDE DEF x
    <3> QED
      BY <1>1, <2>2, <3>1, <3>2, QuietFields, EntryFields DEF y
  <2>5. CASE e.event = "SeriesClosed"
    <3> DEFINE x == [y EXCEPT !.closed = TRUE, !.locked = 0]
    <3>1. Handle(d, e) = [d EXCEPT !.series[s] = x]
      BY <2>1, <2>5 DEF HandleSeriesEvent, HandleSeriesClosed, y
    <3>2. /\ DOMAIN x = DOMAIN y
          /\ x.unitsIssued = y.unitsIssued /\ x.unitsExited = y.unitsExited
          /\ x.unitsSettled = y.unitsSettled /\ x.premiumCollected = y.premiumCollected
          /\ x.exitPaid = y.exitPaid /\ x.settlementPaid = y.settlementPaid
          /\ x.unitsBurned = y.unitsBurned
      BY <2>2, StoreFields
    <3> HIDE DEF x
    <3> QED
      BY <1>1, <2>2, <3>1, <3>2, QuietFields, EntryFields DEF y
  <2>6. CASE e.event = "Checkpointed"
    <3> DEFINE x == [y EXCEPT !.processedThrough = e.processedThrough]
    <3>1. Handle(d, e) = [d EXCEPT !.series[s] = x]
      BY <2>1, <2>6 DEF HandleSeriesEvent, HandleCheckpointed, y
    <3>2. /\ DOMAIN x = DOMAIN y
          /\ x.unitsIssued = y.unitsIssued /\ x.unitsExited = y.unitsExited
          /\ x.unitsSettled = y.unitsSettled /\ x.premiumCollected = y.premiumCollected
          /\ x.exitPaid = y.exitPaid /\ x.settlementPaid = y.settlementPaid
          /\ x.unitsBurned = y.unitsBurned
      BY <2>2, StoreFields
    <3> HIDE DEF x
    <3> QED
      BY <1>1, <2>2, <3>1, <3>2, QuietFields, EntryFields DEF y
  <2> QED
    BY <2>3, <2>4, <2>5, <2>6
<1>2. EntryHandled(e, s, w.out[s], "ISSUE", 0, 0, 0)
  BY <1>1 DEF EntryHandled
<1> QED
  BY <1>2, QuietRecalled

\* A worthless burn only moves units from outstanding to burned.
LEMMA WorthlessRecalled ==
    ASSUME NEW w, NEW s \in AllSeries, s \in w.created, w.out[s] \in Int, NEW units \in Int,
           NEW out, \A t \in w.created \ {s} : out[t] = w.out[t], out[s] = w.out[s] - units,
           NEW e, e.source = "market", e.event = "WorthlessBurned", e.series = s,
           e.units = units
    PROVE  Recalls(<<e>>, w, Past(w.created, out, w.receipts, w.live, w.fresh,
                                  Added(w.open, s, Fill("ISSUE", 0, 0))))
<1>1. ASSUME NEW d, DOMAIN d = Tables, s \in DOMAIN d.series, EntryOf(d.series[s], w.out[s])
      PROVE  \E x : /\ EntrySaved(d, Handle(d, e), s, x)
                    /\ EntryFilled(x, d.series[s], "ISSUE", 0, 0, units)
  <2> DEFINE y == d.series[s]
             x == [y EXCEPT !.unitsBurned = y.unitsBurned + e.units,
                            !.outstanding = y.outstanding - e.units]
  <2>1. Handle(d, e) = HandleSeriesEvent(d, e)
    BY <1>1, SeriesHandled
  <2>2. Handle(d, e) = [d EXCEPT !.series[s] = x]
    BY <2>1 DEF HandleSeriesEvent, HandleWorthlessBurned
  <2>3. EntryOf(y, w.out[s]) /\ DOMAIN y = DOMAIN NewSeries(0)
    BY <1>1 DEF EntryOf
  <2> HIDE DEF y
  <2>4. EntryFilled(x, y, "ISSUE", 0, 0, units)
    BY <2>3, EntryInts, StoreFields DEF EntryFilled
  <2> HIDE DEF x
  <2> QED
    BY <1>1, <2>2, <2>4, EntryFields DEF y
<1>2. EntryHandled(e, s, w.out[s], "ISSUE", 0, 0, units)
  BY <1>1 DEF EntryHandled
<1>3. out[s] = w.out[s] + (IF "ISSUE" = "ISSUE" THEN 0 ELSE -0) - units
  OBVIOUS
<1>4. "ISSUE" \in Kinds
  BY DEF Kinds
<1> QED
  BY <1>2, <1>3, <1>4, EntryRecalled

\* A fill that is recorded is no longer open.
FillAt(f, b) ==
    IF b # Cash /\ b[1] = f.group /\ b[2] = f.kind
    THEN FillOf(f.kind, f.amountIn, f.amountOut)[b[3]] ELSE 0

Unfill(open, f) == [b \in Books |-> open[b] - FillAt(f, b)]

LEMMA VaultPastSame ==
    ASSUME NEW d, NEW w, VaultPast(d, w), NEW d2, d2.vault = d.vault,
           NEW w2, w2.live = w.live, w2.fresh = w.fresh
    PROVE  VaultPast(d2, w2)
<1>1. \A kind, o : Acted(d2, kind, o) <=> Acted(d, kind, o)
  BY DEF Acted
<1> QED
  BY <1>1 DEF VaultPast

LEMMA FillInts ==
    ASSUME NEW leg, NEW in \in Int, NEW out \in Int
    PROVE  /\ FillOf(leg, in, out).units \in Int /\ FillOf(leg, in, out).quote \in Int
           /\ \A what \in Measures : FillOf(leg, in, out)[what] \in Int
  BY DEF FillOf, Measures

\* The log of a finished swap records its fill.
LEMMA SwappedRecalled ==
    ASSUME NEW w, NEW f, f.group \in AllSeries, f.group \in w.created, f.kind \in Kinds,
           f.amountIn \in Int, f.amountOut \in Int, f.stage # "first"
    PROVE  Recalls(Swapped(f), w, Past(w.created, w.out, w.receipts, w.live, w.fresh,
                                       Unfill(w.open, f)))
<1> DEFINE s == f.group
           leg == f.kind
           e == [source |-> "market", event |-> "Swapped", series |-> s, leg |-> leg,
                 amountIn |-> f.amountIn, amountOut |-> f.amountOut]
           fill == FillOf(leg, f.amountIn, f.amountOut)
           open == Unfill(w.open, f)
           w2 == Past(w.created, w.out, w.receipts, w.live, w.fresh, open)
<1>1. /\ w2.created = w.created /\ w2.out = w.out /\ w2.receipts = w.receipts
      /\ w2.live = w.live /\ w2.fresh = w.fresh /\ w2.open = open
  BY PastFields
<1>2. fill.units \in Int /\ fill.quote \in Int /\ \A what \in Measures : fill[what] \in Int
  BY FillInts
<1>3. e.series = s /\ e.leg = leg /\ e.amountIn = f.amountIn /\ e.amountOut = f.amountOut
      /\ \A d : Handle(d, e) = HandleSwapped(d, e)
  BY DEF Handle
<1>4. s \in AllSeries /\ leg \in Kinds /\ s \in w.created
  OBVIOUS
<1>5. Swapped(f) = <<e>>
  BY DEF Swapped
<1>6. \A b \in Books : open[b] = w.open[b] - (IF b # Cash /\ b[1] = s /\ b[2] = leg
                                              THEN fill[b[3]] ELSE 0)
  BY DEF Unfill, FillAt
<1> HIDE DEF e, w2, open, s, leg
<1>7. ASSUME NEW d, Remembers(d, w) PROVE Remembers(Handle(d, e), w2)
  <2> DEFINE o == <<s, leg>>
             sum == d.fills[o]
             new == [units |-> sum.units + fill.units, quote |-> sum.quote + fill.quote]
             table == [d.fills EXCEPT ![o] = new]
             d2 == [d EXCEPT !.fills = table]
  <2>1. SeriesPast(d, w) /\ VaultPast(d, w) /\ BalancePast(d, w) /\ DOMAIN d = Tables
        /\ w.open = Opened(d) /\ w.open \in [Books -> Int]
    BY <1>7, OpenInts DEF Remembers
  <2>2. OrderOf(d, s, leg)
    BY <1>4, <2>1 DEF SeriesPast
  <2>3. /\ o \in DOMAIN d.order /\ d.order[o].leg = leg /\ o \in DOMAIN d.fills
        /\ sum.units \in Int /\ sum.quote \in Int /\ \A what \in Measures : sum[what] \in Int
    BY <2>2 DEF OrderOf, Measures
  <2>4. Handle(d, e) = d2
    BY <1>3, <2>3 DEF HandleSwapped
  <2>5. /\ DOMAIN table = DOMAIN d.fills /\ table[o] = new
        /\ \A p \in DOMAIN d.fills : p # o => table[p] = d.fills[p]
    BY <2>3
  <2> HIDE DEF table, fill, sum
  <2>6. new \in [units : Int, quote : Int]
        /\ \A what \in Measures : new[what] = sum[what] + fill[what]
    BY <1>2, <2>3 DEF Measures
  <2>7. /\ DOMAIN d2 = Tables /\ d2.vault = d.vault /\ d2.series = d.series
        /\ d2.order = d.order /\ d2.balance = d.balance /\ d2.fills = table
    BY <2>1, StoreFields
  <2> HIDE DEF d2, new
  <2>8. ASSUME NEW t \in AllSeries, NEW k \in Kinds, NEW what \in Measures
        PROVE  Unfilled(d2, t, k, what) = Unfilled(d, t, k, what)
                    - (IF t = s /\ k = leg THEN fill[what] ELSE 0)
    <3>1. CASE t = s /\ k = leg
      <4> DEFINE x == Booked(d.series[s], leg, what)
      <4>1. s \in DOMAIN d.series /\ EntryOf(d.series[s], w.out[s])
        BY <1>4, <2>1 DEF SeriesPast
      <4>2. x \in Int
        BY <1>4, <4>1 DEF EntryOf
      <4>3. Unfilled(d2, t, k, what) = x - new[what] /\ Unfilled(d, t, k, what) = x - sum[what]
        BY <2>5, <2>7, <3>1, <4>1 DEF Unfilled, sum
      <4> HIDE DEF x
      <4>4. new[what] = sum[what] + fill[what] /\ sum[what] \in Int /\ fill[what] \in Int
        BY <1>2, <2>3, <2>6
      <4> QED
        BY <3>1, <4>2, <4>3, <4>4
    <3>2. CASE ~(t = s /\ k = leg)
      <4>1. Unfilled(d, t, k, what) \in Int
        BY <2>1, UnfilledInt
      <4>2. Unfilled(d2, t, k, what) = Unfilled(d, t, k, what)
        <5>1. t \in DOMAIN d.series => <<t, k>> \in DOMAIN d.fills /\ <<t, k>> # o
          BY <2>1, <3>2 DEF SeriesPast, OrderOf
        <5> QED
          BY <2>5, <2>7, <5>1 DEF Unfilled
      <4> QED
        BY <3>2, <4>1, <4>2
    <3> QED
      BY <3>1, <3>2
  <2>9. Flow(d2) = Flow(d) /\ w.open[Cash] \in Int /\ Cash \in Books
    BY <2>1, <2>7 DEF Flow, Nets, Books
  <2>10. ASSUME NEW b \in Books PROVE Opened(d2)[b] = open[b]
    <3>1. CASE b = Cash
      <4>1. Opened(d2)[b] = Flow(d2) /\ w.open[b] = Flow(d)
        BY <2>1, <3>1 DEF Opened
      <4>2. open[b] = w.open[b] - 0
        BY <1>6, <3>1
      <4> QED
        BY <2>9, <3>1, <4>1, <4>2
    <3>2. CASE b # Cash
      <4>1. b[1] \in AllSeries /\ b[2] \in Kinds /\ b[3] \in Measures
        BY <3>2, BooksSplit
      <4>2. Opened(d2)[b] = Unfilled(d2, b[1], b[2], b[3])
            /\ w.open[b] = Unfilled(d, b[1], b[2], b[3])
        BY <2>1, <3>2 DEF Opened
      <4> QED
        BY <1>6, <2>8, <3>2, <4>1, <4>2
    <3> QED
      BY <3>1, <3>2
  <2>11. Opened(d2) = w2.open
    <3>1. Opened(d2) = open
      BY <2>10 DEF Opened, open, Unfill
    <3> QED
      BY <1>1, <3>1
  <2>12. VaultPast(d2, w2)
    BY <1>1, <2>1, <2>7, VaultPastSame
  <2>13. SeriesPast(d2, w2)
    <3>1. ASSUME NEW t \in w.created, NEW k \in Kinds PROVE OrderOf(d2, t, k)
      <4>1. OrderOf(d, t, k)
        BY <2>1 DEF SeriesPast
      <4> QED
        BY <2>5, <2>6, <2>7, <4>1 DEF OrderOf
    <3> QED
      BY <1>1, <2>1, <2>7, <3>1 DEF SeriesPast
  <2>14. BalancePast(d2, w2)
    <3>1. \A t, a : BalanceFor(d2, t, a) = BalanceFor(d, t, a)
      BY <2>7 DEF BalanceFor
    <3> QED
      BY <1>1, <2>1, <3>1 DEF BalancePast
  <2> QED
    BY <2>4, <2>7, <2>11, <2>12, <2>13, <2>14 DEF Remembers
<1>8. Recalls(<<e>>, w, w2)
  BY <1>7, RecallsOne
<1> QED
  BY <1>5, <1>8 DEF w2, open

LEMMA BalanceMoved ==
    ASSUME NEW d, DOMAIN d = Tables, NEW s, NEW account, NEW units
    PROVE  LET d2 == Moved(d, s, account, units) IN
           /\ DOMAIN d2 = Tables /\ d2.vault = d.vault /\ d2.series = d.series
           /\ d2.order = d.order /\ d2.fills = d.fills
           /\ \A t, a : BalanceFor(d2, t, a) =
                IF account # "zero" /\ t = s /\ a = account THEN BalanceFor(d, t, a) + units
                ELSE BalanceFor(d, t, a)
<1>1. CASE account = "zero"
  BY <1>1 DEF Moved
<1>2. CASE account # "zero"
  <2> DEFINE o == <<s, account>>
             v == BalanceFor(d, s, account) + units
             table == With(d.balance, o, v)
             d2 == [d EXCEPT !.balance = table]
  <2>1. Moved(d, s, account, units) = d2
    BY <1>2 DEF Moved
  <2>2. /\ DOMAIN table = DOMAIN d.balance \cup {o} /\ table[o] = v
        /\ \A p \in DOMAIN d.balance : p # o => table[p] = d.balance[p]
    BY DEF With
  <2> HIDE DEF table
  <2>3. /\ DOMAIN d2 = Tables /\ d2.vault = d.vault /\ d2.series = d.series
        /\ d2.order = d.order /\ d2.fills = d.fills /\ d2.balance = table
    BY StoreFields
  <2> HIDE DEF d2, v
  <2>4. ASSUME NEW t, NEW a
        PROVE  BalanceFor(d2, t, a) =
                    IF t = s /\ a = account THEN v ELSE BalanceFor(d, t, a)
    <3>1. CASE t = s /\ a = account
      BY <2>2, <2>3, <3>1 DEF BalanceFor
    <3>2. CASE ~(t = s /\ a = account)
      <4>1. <<t, a>> # o
        BY <3>2
      <4> HIDE DEF o
      <4> QED
        BY <2>2, <2>3, <3>2, <4>1 DEF BalanceFor
    <3> QED
      BY <3>1, <3>2
  <2> QED
    BY <1>2, <2>1, <2>3, <2>4 DEF v
<1> QED
  BY <1>1, <1>2

\* So many receipts moved between accounts, or to or from nobody.
MovedTo(rec, rec2, s, from, to, amount) ==
    \A t \in AllSeries, a \in Accounts :
        rec2[t][a] = rec[t][a] - (IF t = s /\ a = from THEN amount ELSE 0)
                               + (IF t = s /\ a = to THEN amount ELSE 0)

\* A transfer of receipts moves them in the index.
LEMMA TransferRecalled ==
    ASSUME NEW w, NEW s \in AllSeries, s \in w.created, NEW from, NEW to, NEW amount \in Int,
           w.receipts \in Balances, NEW rec, MovedTo(w.receipts, rec, s, from, to, amount)
    PROVE  Recalls(<<Transfer(s, from, to, amount)>>, w,
                   Past(w.created, w.out, rec, w.live, w.fresh, w.open))
<1> DEFINE e == Transfer(s, from, to, amount)
           w2 == Past(w.created, w.out, rec, w.live, w.fresh, w.open)
<1>1. /\ w2.created = w.created /\ w2.out = w.out /\ w2.receipts = rec
      /\ w2.live = w.live /\ w2.fresh = w.fresh /\ w2.open = w.open
  BY PastFields
<1>2. /\ e.series = s /\ e.from = from /\ e.to = to /\ e.amount = amount
      /\ \A d : s \in DOMAIN d.series => Handle(d, e) = HandleReceiptTransfer(d, e)
  BY DEF Handle, HandleSeriesEvent, Transfer, Known
<1> HIDE DEF e, w2
<1>3. "zero" \notin Accounts
  BY HoldersAssumption DEF Accounts
<1>4. ASSUME NEW d, Remembers(d, w) PROVE Remembers(Handle(d, e), w2)
  <2> DEFINE d1 == Moved(d, s, from, -amount)
             d2 == Moved(d1, s, to, amount)
  <2>1. SeriesPast(d, w) /\ VaultPast(d, w) /\ BalancePast(d, w) /\ DOMAIN d = Tables
        /\ w.open = Opened(d)
    BY <1>4 DEF Remembers
  <2>2. Handle(d, e) = d2
    <3>1. s \in DOMAIN d.series
      BY <2>1 DEF SeriesPast
    <3> QED
      BY <1>2, <3>1 DEF HandleReceiptTransfer
  <2>3. /\ DOMAIN d1 = Tables /\ d1.vault = d.vault /\ d1.series = d.series
        /\ d1.order = d.order /\ d1.fills = d.fills
        /\ \A t, a : BalanceFor(d1, t, a) =
              IF from # "zero" /\ t = s /\ a = from THEN BalanceFor(d, t, a) + (-amount)
              ELSE BalanceFor(d, t, a)
    BY <2>1, BalanceMoved
  <2> HIDE DEF d1
  <2>4. /\ DOMAIN d2 = Tables /\ d2.vault = d1.vault /\ d2.series = d1.series
        /\ d2.order = d1.order /\ d2.fills = d1.fills
        /\ \A t, a : BalanceFor(d2, t, a) =
              IF to # "zero" /\ t = s /\ a = to THEN BalanceFor(d1, t, a) + amount
              ELSE BalanceFor(d1, t, a)
    BY <2>3, BalanceMoved
  <2> HIDE DEF d2
  <2>5. ASSUME NEW t \in AllSeries, NEW a \in Accounts
        PROVE  /\ BalanceFor(d2, t, a) = rec[t][a]
               /\ t \notin w.created => rec[t][a] = 0
    <3>1. BalanceFor(d, t, a) = w.receipts[t][a] /\ w.receipts[t][a] \in Int
          /\ (t \notin w.created => w.receipts[t][a] = 0)
      BY <2>1 DEF BalancePast, Balances
    <3>2. (a = from => from # "zero") /\ (a = to => to # "zero")
      BY <1>3
    <3>3. rec[t][a] = w.receipts[t][a] - (IF t = s /\ a = from THEN amount ELSE 0)
                                       + (IF t = s /\ a = to THEN amount ELSE 0)
      BY DEF MovedTo
    <3>4. BalanceFor(d1, t, a) = w.receipts[t][a] - (IF t = s /\ a = from THEN amount ELSE 0)
      BY <2>3, <3>1, <3>2
    <3>5. BalanceFor(d2, t, a) = rec[t][a]
      BY <2>4, <3>1, <3>2, <3>3, <3>4
    <3> QED
      BY <3>1, <3>3, <3>5
  <2>6. BalancePast(d2, w2)
    BY <1>1, <2>5 DEF BalancePast
  <2>7. VaultPast(d2, w2)
    BY <1>1, <2>1, <2>3, <2>4, VaultPastSame
  <2>8. SeriesPast(d2, w2)
    <3>1. d2.series = d.series /\ d2.order = d.order /\ d2.fills = d.fills
      BY <2>3, <2>4
    <3>2. \A t, leg : OrderOf(d, t, leg) => OrderOf(d2, t, leg)
      BY <3>1 DEF OrderOf
    <3> QED
      BY <1>1, <2>1, <3>1, <3>2 DEF SeriesPast
  <2>9. Opened(d2) = w2.open
    BY <1>1, <2>1, <2>3, <2>4, OpenedSame
  <2> QED
    BY <2>2, <2>4, <2>6, <2>7, <2>8, <2>9 DEF Remembers
<1>5. Recalls(<<e>>, w, w2)
  BY <1>4, RecallsOne
<1> QED
  BY <1>5 DEF e, w2

\* An order nothing was filled of yet.
Blank(d, s, leg) ==
    OrderOf(d, s, leg) /\ d.fills[<<s, leg>>] = [units |-> 0, quote |-> 0]

OrderStays(d, d2, t, k) ==
    OrderOf(d, t, k) => OrderOf(d2, t, k) /\ d2.fills[<<t, k>>] = d.fills[<<t, k>>]

LEMMA OrderAdded ==
    ASSUME NEW d, DOMAIN d = Tables, NEW s, NEW leg, NEW d2, d2 = SaveOrder(d, s, leg)
    PROVE  /\ DOMAIN d2 = Tables /\ d2.vault = d.vault /\ d2.series = d.series
           /\ d2.balance = d.balance
           /\ Blank(d2, s, leg)
           /\ \A t, k : <<t, k>> # <<s, leg>> => OrderStays(d, d2, t, k)
<1> DEFINE o == <<s, leg>>
           orders == With(d.order, o, [series |-> s, leg |-> leg])
           fills == With(d.fills, o, [units |-> 0, quote |-> 0])
<1>1. d2 = [d EXCEPT !.order = orders, !.fills = fills]
  BY DEF SaveOrder
<1>2. /\ DOMAIN orders = DOMAIN d.order \cup {o} /\ orders[o] = [series |-> s, leg |-> leg]
      /\ DOMAIN fills = DOMAIN d.fills \cup {o} /\ fills[o] = [units |-> 0, quote |-> 0]
      /\ \A p \in DOMAIN d.order : p # o => orders[p] = d.order[p]
      /\ \A p \in DOMAIN d.fills : p # o => fills[p] = d.fills[p]
  BY DEF With
<1> HIDE DEF orders, fills
<1>3. /\ DOMAIN d2 = Tables /\ d2.vault = d.vault /\ d2.series = d.series
      /\ d2.balance = d.balance /\ d2.order = orders /\ d2.fills = fills
  BY <1>1, StoreFields
<1>4. Blank(d2, s, leg)
  <2>1. [units |-> 0, quote |-> 0] \in [units : Int, quote : Int]
        /\ [series |-> s, leg |-> leg].leg = leg
    OBVIOUS
  <2> QED
    BY <1>2, <1>3, <2>1 DEF Blank, OrderOf
<1>5. ASSUME NEW t, NEW k, <<t, k>> # o PROVE OrderStays(d, d2, t, k)
  <2> DEFINE p == <<t, k>>
  <2>1. p # o
    BY <1>5
  <2>2. OrderOf(d, t, k) <=> /\ p \in DOMAIN d.order /\ d.order[p].leg = k
                             /\ p \in DOMAIN d.fills /\ d.fills[p] \in [units : Int, quote : Int]
        /\ (OrderOf(d2, t, k) <=> /\ p \in DOMAIN d2.order /\ d2.order[p].leg = k
                             /\ p \in DOMAIN d2.fills /\ d2.fills[p] \in [units : Int, quote : Int])
    BY DEF OrderOf
  <2> HIDE DEF o
  <2>3. OrderOf(d, t, k) => OrderOf(d2, t, k) /\ d2.fills[p] = d.fills[p]
    <3> HIDE DEF p
    <3> QED
      BY <1>2, <1>3, <2>1, <2>2
  <2> QED
    BY <2>3 DEF OrderStays
<1> QED
  BY <1>3, <1>4, <1>5

\* The series that a log creates starts with nothing booked.
LEMMA SeriesCreatedRecalled ==
    ASSUME NEW w, NEW s \in AllSeries, s \notin w.created, w.out[s] = 0, NEW start
    PROVE  Recalls(<<[source |-> "market", event |-> "SeriesCreated", series |-> s,
                      start |-> start]>>, w,
                   Past(w.created \union {s}, w.out, w.receipts, w.live, w.fresh, w.open))
<1> DEFINE e == [source |-> "market", event |-> "SeriesCreated", series |-> s,
                 start |-> start]
           x == NewSeries(start)
           w2 == Past(w.created \union {s}, w.out, w.receipts, w.live, w.fresh, w.open)
<1>1. /\ w2.created = w.created \union {s} /\ w2.out = w.out /\ w2.receipts = w.receipts
      /\ w2.live = w.live /\ w2.fresh = w.fresh /\ w2.open = w.open
  BY PastFields
<1>2. e.series = s /\ e.start = start /\ \A d : Handle(d, e) = HandleSeriesCreated(d, e)
  BY DEF Handle
<1>3. EntryOf(x, 0) /\ Net(x) = 0 /\ \A leg \in Kinds, what \in Measures : Booked(x, leg, what) = 0
  BY DEF NewSeries, EntryOf, Net, Booked
<1> HIDE DEF e, w2, x
<1>4. ASSUME NEW d, Remembers(d, w) PROVE Remembers(Handle(d, e), w2)
  <2> DEFINE table == With(d.series, s, x)
             d1 == [d EXCEPT !.series = table]
             d2 == SaveOrder(d1, s, "ISSUE")
             d3 == SaveOrder(d2, s, "EXIT")
             d4 == SaveOrder(d3, s, "SETTLE")
  <2>1. Handle(d, e) = d4
    BY <1>2 DEF HandleSeriesCreated, x
  <2>2. DOMAIN table = DOMAIN d.series \cup {s} /\ table[s] = x
        /\ \A t \in DOMAIN d.series \ {s} : table[t] = d.series[t]
    BY DEF With
  <2>3. SeriesPast(d, w) /\ VaultPast(d, w) /\ BalancePast(d, w) /\ DOMAIN d = Tables
        /\ w.open = Opened(d)
    BY <1>4 DEF Remembers
  <2> HIDE DEF table
  <2>4. /\ DOMAIN d1 = Tables /\ d1.series = table /\ d1.vault = d.vault
        /\ d1.balance = d.balance /\ d1.order = d.order /\ d1.fills = d.fills
    BY <2>3, StoreFields
  <2> HIDE DEF d1
  <2>5. /\ DOMAIN d2 = Tables /\ d2.vault = d.vault /\ d2.series = table
        /\ d2.balance = d.balance /\ Blank(d2, s, "ISSUE")
        /\ \A t, k : <<t, k>> # <<s, "ISSUE">> => OrderStays(d1, d2, t, k)
    BY <2>4, OrderAdded
  <2> HIDE DEF d2
  <2>6. /\ DOMAIN d3 = Tables /\ d3.vault = d.vault /\ d3.series = table
        /\ d3.balance = d.balance /\ Blank(d3, s, "EXIT")
        /\ \A t, k : <<t, k>> # <<s, "EXIT">> => OrderStays(d2, d3, t, k)
    BY <2>5, OrderAdded
  <2> HIDE DEF d3
  <2>7. /\ DOMAIN d4 = Tables /\ d4.vault = d.vault /\ d4.series = table
        /\ d4.balance = d.balance /\ Blank(d4, s, "SETTLE")
        /\ \A t, k : <<t, k>> # <<s, "SETTLE">> => OrderStays(d3, d4, t, k)
    BY <2>6, OrderAdded
  <2> HIDE DEF d4
  <2>8. ASSUME NEW leg \in Kinds PROVE Blank(d4, s, leg)
    <3>1. leg = "ISSUE" \/ leg = "EXIT" \/ leg = "SETTLE"
      BY DEF Kinds
    <3>2. CASE leg = "ISSUE"
      <4>1. OrderStays(d2, d3, s, "ISSUE") /\ OrderStays(d3, d4, s, "ISSUE")
        BY <2>6, <2>7
      <4> QED
        BY <2>5, <3>2, <4>1 DEF Blank, OrderStays
    <3>3. CASE leg = "EXIT"
      <4>1. OrderStays(d3, d4, s, "EXIT")
        BY <2>7
      <4> QED
        BY <2>6, <3>3, <4>1 DEF Blank, OrderStays
    <3> QED
      BY <2>7, <3>1, <3>2, <3>3
  <2>9. ASSUME NEW t \in w.created, NEW leg \in Kinds
        PROVE  OrderOf(d4, t, leg) /\ d4.fills[<<t, leg>>] = d.fills[<<t, leg>>]
    <3>1. OrderOf(d, t, leg) /\ t # s
      BY <2>3 DEF SeriesPast
    <3>2. OrderOf(d1, t, leg) /\ d1.fills[<<t, leg>>] = d.fills[<<t, leg>>]
      BY <2>4, <3>1 DEF OrderOf
    <3>3. OrderStays(d1, d2, t, leg) /\ OrderStays(d2, d3, t, leg) /\ OrderStays(d3, d4, t, leg)
      BY <2>5, <2>6, <2>7, <3>1
    <3> QED
      BY <3>2, <3>3 DEF OrderStays
  <2>10. DOMAIN d.series = w.created /\ s \notin DOMAIN d.series
         /\ DOMAIN table = w.created \union {s}
    BY <2>2, <2>3 DEF SeriesPast
  <2>11. Opened(d4) = w2.open
    <3>1. ASSUME NEW t \in AllSeries
          PROVE  (IF t \in DOMAIN d4.series THEN Net(d4.series[t]) ELSE 0)
                    = IF t \in DOMAIN d.series THEN Net(d.series[t]) ELSE 0
      BY <1>3, <2>2, <2>7, <2>10
    <3>2. Nets(d4) = Nets(d)
      BY <3>1 DEF Nets
    <3>3. Flow(d4) = Flow(d)
      BY <2>7, <3>2 DEF Flow
    <3>4. ASSUME NEW t \in AllSeries, NEW leg \in Kinds, NEW what \in Measures
          PROVE  Unfilled(d4, t, leg, what) = Unfilled(d, t, leg, what)
      <4>1. CASE t = s
        <5>1. d4.fills[<<s, leg>>][what] = 0
          BY <2>8 DEF Blank, Measures
        <5>2. Booked(x, leg, what) = 0
          BY <1>3
        <5>3. Unfilled(d4, t, leg, what) = 0 - 0
          BY <2>2, <2>7, <2>10, <4>1, <5>1, <5>2 DEF Unfilled
        <5>4. Unfilled(d, t, leg, what) = 0
          BY <2>10, <4>1 DEF Unfilled
        <5> QED
          BY <5>3, <5>4
      <4>2. CASE t # s
        BY <2>2, <2>7, <2>9, <2>10, <4>2 DEF Unfilled
      <4> QED
        BY <4>1, <4>2
    <3>5. ASSUME NEW b \in Books PROVE Opened(d4)[b] = Opened(d)[b]
      <4>1. CASE b = Cash
        BY <3>3, <4>1 DEF Opened
      <4>2. CASE b # Cash
        <5>1. b[1] \in AllSeries /\ b[2] \in Kinds /\ b[3] \in Measures
          BY <4>2, BooksSplit
        <5> QED
          BY <3>4, <4>2, <5>1 DEF Opened
      <4> QED
        BY <4>1, <4>2
    <3>6. Opened(d4) = Opened(d)
      BY <3>5 DEF Opened
    <3> QED
      BY <1>1, <2>3, <3>6
  <2>12. VaultPast(d4, w2)
    BY <1>1, <2>3, <2>7, VaultPastSame
  <2>13. SeriesPast(d4, w2)
    <3>1. ASSUME NEW t \in w2.created PROVE EntryOf(d4.series[t], w2.out[t])
      <4>1. CASE t = s
        BY <1>1, <1>3, <2>2, <2>7, <4>1
      <4>2. CASE t # s
        BY <1>1, <2>2, <2>3, <2>7, <2>10, <3>1, <4>2 DEF SeriesPast
      <4> QED
        BY <4>1, <4>2
    <3>2. ASSUME NEW t \in w2.created, NEW leg \in Kinds PROVE OrderOf(d4, t, leg)
      BY <1>1, <2>8, <2>9 DEF Blank
    <3> QED
      BY <1>1, <2>7, <2>10, <3>1, <3>2 DEF SeriesPast
  <2>14. BalancePast(d4, w2)
    <3>1. \A t, a : BalanceFor(d4, t, a) = BalanceFor(d, t, a)
      BY <2>7 DEF BalanceFor
    <3> QED
      BY <1>1, <2>3, <3>1 DEF BalancePast
  <2> QED
    BY <2>1, <2>7, <2>11, <2>12, <2>13, <2>14 DEF Remembers
<1>5. Recalls(<<e>>, w, w2)
  BY <1>4, RecallsOne
<1> QED
  BY <1>5 DEF e, w2

\* Nothing is open when the vault's creation was handled.
LEMMA VaultCreatedRemembered ==
    LET e == [source |-> "market", event |-> "VaultCreated"]
        d == Handle(NoEntities, e)
    IN  /\ Whole(d, [s \in AllSeries |-> NoSeries], [s \in AllSeries |-> [a \in Accounts |-> 0]],
                 [s \in AllSeries |-> [k \in Kinds |-> Docked]])
        /\ \A b \in Books : OpenIn(d, 0, b) = 0
<1> DEFINE e == [source |-> "market", event |-> "VaultCreated"]
           x == [NoVault EXCEPT !.created = TRUE]
           d == [NoEntities EXCEPT !.vault = x]
           ser == [s \in AllSeries |-> NoSeries]
           rec == [s \in AllSeries |-> [a \in Accounts |-> 0]]
           aq == [s \in AllSeries |-> [k \in Kinds |-> Docked]]
           w == PastOf(ser, rec, aq, Opened(d))
<1>1. Handle(NoEntities, e) = d
  BY DEF Handle, HandleVaultCreated
<1>2. DOMAIN x = DOMAIN NoVault /\ x.created /\ x.actions = {}
      /\ x.totalDeposited = 0 /\ x.totalWithdrawn = 0
  BY DEF NoVault
<1>3. DOMAIN NoEntities = Tables /\ NoEntities.series = << >> /\ NoEntities.balance = << >>
  BY DEF NoEntities, Tables
<1> HIDE DEF x
<1>4. DOMAIN d = Tables /\ d.vault = x /\ d.series = << >> /\ d.balance = << >>
  BY <1>3, StoreFields
<1>5. DOMAIN << >> = {}
  OBVIOUS
<1>6. w.created = {}
  BY PastFields DEF PastOf, Created, Outs, Live, Fresh, NoSeries
<1>7. w.live = {}
  <2>1. \A o \in Orders : aq[o[1]][o[2]] = Docked
    BY DEF Orders
  <2> HIDE DEF aq
  <2> QED
    BY <2>1, PastFields DEF PastOf, Created, Outs, Live, Fresh
<1>8. w.receipts = rec /\ w.open = Opened(d)
  BY PastFields DEF PastOf, Created, Outs, Live, Fresh
<1> HIDE DEF w, d, e, ser, aq
<1>9. VaultPast(d, w)
  BY <1>2, <1>4, <1>7 DEF VaultPast, Acted
<1>10. SeriesPast(d, w)
  BY <1>4, <1>5, <1>6 DEF SeriesPast
<1>11. BalancePast(d, w)
  <2>1. \A s, a : BalanceFor(d, s, a) = 0
    BY <1>4, <1>5 DEF BalanceFor
  <2>2. \A s \in AllSeries, a \in Accounts : rec[s][a] = 0
    OBVIOUS
  <2> HIDE DEF rec
  <2> QED
    BY <1>8, <2>1, <2>2 DEF BalancePast
<1>12. Whole(d, ser, rec, aq)
  BY <1>4, <1>8, <1>9, <1>10, <1>11 DEF Remembers, Whole, w
<1>13. SumFunction(Nets(d)) = 0
  <2>1. Nets(d) = [s \in AllSeries |-> 0]
    BY <1>4, <1>5 DEF Nets
  <2> DEFINE zero == [s \in AllSeries |-> 0]
  <2>2. zero \in [AllSeries -> Int] /\ \A s \in AllSeries : zero[s] = 0
    OBVIOUS
  <2> HIDE DEF zero
  <2>3. SumFunction(zero) = 0
    BY <2>2, SumZero, SeriesAssumption
  <2> QED
    BY <2>1, <2>3 DEF zero
<1>14. Flow(d) = 0
  BY <1>2, <1>4, <1>13 DEF Flow
<1>15. \A s, leg, what : Unfilled(d, s, leg, what) = 0
  BY <1>4, <1>5 DEF Unfilled
<1>16. \A b \in Books : OpenIn(d, 0, b) = 0
  BY <1>14, <1>15 DEF OpenIn, Opened
<1> QED
  BY <1>1, <1>12, <1>16 DEF e, ser, rec, aq

-----------------------------------------------------------------------------
(* The history after a step *)

\* What is open of a book beside the cash that is there.
Off(open, bal, b) == open[b] - (IF b = Cash THEN bal ELSE 0)

\* These logs tell the step's past, which leaves so much more open.
Turns(logs, more) ==
    \E open \in [Books -> Int] :
        /\ Recalls(logs, PastOf(series, receipts, aqua, Opened(Index)),
                   PastOf(series', receipts', aqua', open))
        /\ \A b \in Books :
            Off(open, balance', b)
                = Off(Opened(Index), balance, b) + more[b]

Nothing == [b \in Books |-> 0]

DueOf(f) == [b \in Books |-> Due(f, b)]

\* What is open now, and after a step.
OpenNow(b) == OpenIn(Index, balance, b)

OpenNext(b) == OpenIn(Folded(entities', log'), balance', b)

LEMMA OpenOff ==
    ASSUME NEW d, NEW bal, NEW b
    PROVE  OpenIn(d, bal, b) = Off(Opened(d), bal, b)
  BY DEF OpenIn, Off

LEMMA PastOpen ==
    ASSUME NEW ser, NEW rec, NEW aq, NEW open
    PROVE  PastOf(ser, rec, aq, open).open = open
  BY PastFields DEF PastOf

LEMMA WholeInt ==
    ASSUME NEW d, NEW ser, NEW rec, NEW aq, Whole(d, ser, rec, aq), NEW bal \in Int,
           NEW b \in Books
    PROVE  OpenIn(d, bal, b) \in Int
<1>1. Opened(d) \in [Books -> Int]
  BY PastOpen, OpenInts DEF Whole
<1>2. Opened(d)[b] \in Int
  BY <1>1
<1> HIDE DEF Opened
<1> QED
  BY <1>2 DEF OpenIn

LEMMA DueInt ==
    ASSUME NEW f, FrameShape(f), NEW b \in Books
    PROVE  Due(f, b) \in Int
<1>1. f.amountIn \in Int /\ f.amountOut \in Int /\ Ahead(f) \in Int
  BY DEF FrameShape, Ahead
<1>2. CASE b = Cash
  BY <1>1, <1>2 DEF Due
<1>3. CASE b # Cash
  <2>1. b[3] \in Measures
    BY <1>3, BooksSplit
  <2>2. FillOf(f.kind, f.amountIn, f.amountOut)[b[3]] \in Int
    BY <1>1, <2>1, FillInts
  <2> QED
    BY <1>3, <2>2 DEF Due
<1> QED
  BY <1>2, <1>3

\* The store with the logs of the step remembers what the step did.
LEMMA TurnsWhole ==
    ASSUME IsLogs(log), Whole(Index, series, receipts, aqua), NEW logs, NEW more,
           Turns(logs, more), NEW d, d = Folded(entities, log \o logs)
    PROVE  /\ Whole(d, series', receipts', aqua')
           /\ \A b \in Books : OpenIn(d, balance', b) = OpenNow(b) + more[b]
<1>1. PICK open \in [Books -> Int] :
        /\ Recalls(logs, PastOf(series, receipts, aqua, Opened(Index)),
                   PastOf(series', receipts', aqua', open))
        /\ \A b \in Books :
            Off(open, balance', b)
                = Off(Opened(Index), balance, b) + more[b]
  BY DEF Turns
<1>2. Remembers(Folded(entities, log), PastOf(series, receipts, aqua, Opened(Index)))
  BY DEF Whole, Index
<1>3. Remembers(d, PastOf(series', receipts', aqua', open))
  BY <1>1, <1>2 DEF Recalls
<1>4. Opened(d) = open
  BY <1>3, PastOpen DEF Remembers
<1>5. Whole(d, series', receipts', aqua')
  BY <1>3, <1>4 DEF Whole
<1> QED
  BY <1>1, <1>4, <1>5, OpenOff DEF OpenNow

\* What a step logs is told to the index, at once if no swap is in flight.
LEMMA EmitTurns ==
    ASSUME Followed, Remembered, NEW logs, NEW more, Turns(logs, more), NEW over,
           Emit(logs, over), over <=> stack' = << >>
    PROVE  /\ Whole(Folded(entities', log'), series', receipts', aqua')
           /\ \A b \in Books : OpenNext(b) = OpenNow(b) + more[b]
           /\ stack' # << >> => entities' = entities
<1>1. IsLogs(log) /\ Whole(Index, series, receipts, aqua)
  BY DEF Followed, Remembered, Index
<1>2. Folded(entities', log') = Folded(entities, log \o logs)
  <2>1. CASE over
    <3>1. log' = << >> /\ entities' = Folded(entities, log \o logs)
      BY <2>1 DEF Emit, Folded
    <3> QED
      BY <3>1, FoldNothing
  <2>2. CASE ~over
    BY <2>2 DEF Emit
  <2> QED
    BY <2>1, <2>2
<1>3. stack' # << >> => entities' = entities
  BY DEF Emit
<1> QED
  BY <1>1, <1>2, <1>3, TurnsWhole DEF OpenNext

\* The books of the swaps in flight.
OffAt(ent, stk, b, i) ==
    OpenIn(Folded(ent, stk[i].saved.log), stk[i].saved.balance, b)

LEMMA BooksAt ==
    ASSUME NEW ent, NEW stk, NEW b, NEW i \in 1..Len(stk)
    PROVE  Offs(ent, stk, b)[i] = OffAt(ent, stk, b, i) /\ Dues(stk, b)[i] = Due(stk[i], b)
  BY DEF Offs, OffAt, Dues

LEMMA BalancedNow ==
    ASSUME Remembered, NEW b \in Books
    PROVE  InStep(Len(stack), Offs(entities, stack, b), Dues(stack, b), OpenNow(b))
  BY DEF Remembered, Balanced, OpenNow, Index

LEMMA BalancedNext ==
    ASSUME Whole(Folded(entities', log'), series', receipts', aqua'),
           \A i \in 1..Len(stack') : WholeSaved(entities', stack'[i].saved),
           \A b \in Books : InStep(Len(stack'), Offs(entities', stack', b), Dues(stack', b),
                                   OpenNext(b))
    PROVE  Remembered'
<1>1. Balanced(entities', log', stack', balance')
  BY DEF Balanced, OpenNext
<1> QED
  BY <1>1, RememberedNext

\* Types of what is open.
LEMMA OpenTypes ==
    ASSUME Sound, Framed, Remembered, NEW b \in Books
    PROVE  /\ OpenNow(b) \in Int
           /\ \A i \in 1..Len(stack) : /\ OffAt(entities, stack, b, i) \in Int
                                       /\ Due(stack[i], b) \in Int
<1>1. balance \in Int
  BY DEF Sound, Ledger
<1>2. OpenNow(b) \in Int
  <2>1. Whole(Index, series, receipts, aqua)
    BY DEF Remembered, Index
  <2> QED
    BY <1>1, <2>1, WholeInt DEF OpenNow
<1>3. PICK S : stack \in Seq(S) /\ \A f \in S : FrameShape(f)
  BY StackShaped
<1>4. ASSUME NEW i \in 1..Len(stack)
      PROVE  OffAt(entities, stack, b, i) \in Int /\ Due(stack[i], b) \in Int
  <2> DEFINE v == stack[i].saved
  <2>1. FrameShape(stack[i])
    BY <1>3, ElementOfSeq
  <2>2. WholeSaved(entities, v)
    BY DEF Remembered
  <2>3. v.balance \in Int
    BY <2>1 DEF FrameShape
  <2>4. Whole(Folded(entities, v.log), v.series, v.receipts, v.aqua)
    BY <2>2 DEF WholeSaved
  <2>5. OffAt(entities, stack, b, i) = OpenIn(Folded(entities, v.log), v.balance, b)
    BY DEF OffAt
  <2> HIDE DEF v
  <2>6. OffAt(entities, stack, b, i) \in Int
    BY <2>3, <2>4, <2>5, WholeInt
  <2> QED
    BY <2>1, <2>6, DueInt
<1> QED
  BY <1>2, <1>4

\* A call that leaves nothing open keeps the books.
LEMMA CallRemembered ==
    ASSUME Sound, Framed, Followed, Remembered, NEW logs, Turns(logs, Nothing), Call(logs)
    PROVE  Remembered'
<1>1. UNCHANGED stack /\ Emit(logs, stack = << >>)
  BY DEF Call
<1>2. /\ Whole(Folded(entities', log'), series', receipts', aqua')
      /\ \A b \in Books : OpenNext(b) = OpenNow(b) + Nothing[b]
      /\ stack' # << >> => entities' = entities
  BY <1>1, EmitTurns
<1>3. ASSUME NEW b \in Books PROVE OpenNext(b) = OpenNow(b)
  <2>1. OpenNow(b) \in Int /\ Nothing[b] = 0
    BY OpenTypes DEF Nothing
  <2> QED
    BY <1>2, <2>1
<1>4. CASE stack' = << >>
  <2>1. Len(stack') = 0 /\ Len(stack) = 0
    BY <1>1, <1>4, EmptySeq
  <2>2. ASSUME NEW b \in Books
        PROVE  InStep(Len(stack'), Offs(entities', stack', b), Dues(stack', b), OpenNext(b))
    <3>1. InStep(Len(stack), Offs(entities, stack, b), Dues(stack, b), OpenNow(b))
      BY BalancedNow
    <3> QED
      BY <1>3, <2>1, <3>1 DEF InStep
  <2>3. \A i \in 1..Len(stack') : WholeSaved(entities', stack'[i].saved)
    BY <2>1
  <2> QED
    BY <1>2, <2>2, <2>3, BalancedNext
<1>5. CASE stack' # << >>
  <2>1. entities' = entities /\ stack' = stack
    BY <1>1, <1>2, <1>5
  <2>2. ASSUME NEW b \in Books
        PROVE  InStep(Len(stack'), Offs(entities', stack', b), Dues(stack', b), OpenNext(b))
    BY <1>3, <2>1, BalancedNow
  <2>3. \A i \in 1..Len(stack') : WholeSaved(entities', stack'[i].saved)
    BY <2>1 DEF Remembered
  <2> QED
    BY <1>2, <2>2, <2>3, BalancedNext
<1> QED
  BY <1>4, <1>5

\* The stack with one more swap on top.
Entered(stk2, stk, f) ==
    /\ Len(stk) \in Nat /\ Len(stk2) = Len(stk) + 1
    /\ stk2[Len(stk) + 1] = f /\ \A i \in 1..Len(stk) : stk2[i] = stk[i]

\* So does a swap that begins, with what it owes the books until it ends.
LEMMA SwapRemembered ==
    ASSUME Sound, Framed, Followed, Remembered, NEW f, Entered(stack', stack, f),
           f.saved = Snapshot, UNCHANGED entities,
           NEW logs, Turns(logs, DueOf(f)), log' = log \o logs
    PROVE  Remembered'
<1> DEFINE n == Len(stack)
<1>1. /\ n \in Nat /\ Len(stack') = n + 1
      /\ stack'[n + 1] = f /\ \A i \in 1..n : stack'[i] = stack[i]
  BY DEF Entered
<1>2. IsLogs(log) /\ Whole(Index, series, receipts, aqua)
  BY DEF Followed, Remembered, Index
<1>3. /\ Whole(Folded(entities', log'), series', receipts', aqua')
      /\ \A b \in Books : OpenNext(b) = OpenNow(b) + DueOf(f)[b]
  BY <1>2, TurnsWhole DEF OpenNext
<1>4. /\ f.saved.log = log /\ f.saved.series = series /\ f.saved.receipts = receipts
      /\ f.saved.aqua = aqua /\ f.saved.balance = balance /\ f.saved.advance = advance
  BY DEF Snapshot
<1>5. ASSUME NEW i \in 1..Len(stack')
      PROVE  WholeSaved(entities', stack'[i].saved)
  <2>1. CASE i = n + 1
    <3>1. Whole(Folded(entities, f.saved.log), f.saved.series, f.saved.receipts, f.saved.aqua)
      BY <1>2, <1>4 DEF Index
    <3> QED
      BY <1>1, <2>1, <3>1 DEF WholeSaved
  <2>2. CASE i # n + 1
    <3>1. i \in 1..n
      BY <1>1, <2>2
    <3>2. stack'[i] = stack[i] /\ WholeSaved(entities, stack[i].saved)
      BY <1>1, <3>1 DEF Remembered
    <3> QED
      BY <3>2
  <2> QED
    BY <2>1, <2>2
<1>6. ASSUME NEW b \in Books
      PROVE  InStep(Len(stack'), Offs(entities', stack', b), Dues(stack', b), OpenNext(b))
  <2> DEFINE off == Offs(entities, stack, b)
             half == Dues(stack, b)
             off2 == Offs(entities', stack', b)
             half2 == Dues(stack', b)
  <2>1. InStep(n, off, half, OpenNow(b)) /\ OpenNow(b) \in Int
    BY BalancedNow, OpenTypes
  <2>2. ASSUME NEW i \in 1..n PROVE off2[i] = off[i] /\ half2[i] = half[i]
    <3>1. i \in 1..Len(stack) /\ i \in 1..Len(stack') /\ stack'[i] = stack[i]
      BY <1>1
    <3>2. OffAt(entities', stack', b, i) = OffAt(entities, stack, b, i)
      BY <3>1 DEF OffAt
    <3> QED
      BY <3>1, <3>2, BooksAt
  <2>3. off2[n + 1] = OpenNow(b) /\ half2[n + 1] = Due(f, b)
    <3>1. n + 1 \in 1..Len(stack')
      BY <1>1
    <3>2. OffAt(entities', stack', b, n + 1) = OpenNow(b)
      BY <1>1, <1>4 DEF OffAt, OpenNow, Index
    <3> QED
      BY <1>1, <3>1, <3>2, BooksAt
  <2>4. OpenNext(b) = OpenNow(b) + half2[n + 1]
    BY <1>3, <2>3 DEF DueOf
  <2> HIDE DEF n, off, half, off2, half2
  <2> DEFINE open == OpenNow(b)
             open2 == OpenNext(b)
  <2>5. /\ n \in Nat /\ open \in Int /\ InStep(n, off, half, open)
        /\ \A i \in 1..n : off2[i] = off[i] /\ half2[i] = half[i]
        /\ off2[n + 1] = open /\ open2 = open + half2[n + 1]
    BY <1>1, <2>1, <2>2, <2>3, <2>4
  <2> HIDE DEF open, open2
  <2>6. InStep(n + 1, off2, half2, open2)
    BY <2>5, InStepPush
  <2> QED
    BY <1>1, <2>6 DEF off2, half2, open2
<1> QED
  BY <1>3, <1>5, <1>6, BalancedNext

\* The innermost swap is over, done or reverted: what was open when it began
\* is open again.
LEMMA PopRemembered ==
    ASSUME Sound, Framed, Remembered, NEW S, stack \in Seq(S), stack # << >>, stack' = Below,
           Whole(Folded(entities', log'), series', receipts', aqua'),
           \A b \in Books : OpenNext(b) = OffAt(entities, stack, b, Len(stack)),
           stack' # << >> => entities' = entities
    PROVE  Remembered'
<1> DEFINE n == Len(stack)
<1>1. /\ n \in Nat \ {0} /\ Len(stack') = n - 1 /\ stack' \in Seq(S)
      /\ \A i \in 1..(n - 1) : stack'[i] = stack[i]
  BY ButLast DEF Below
<1>2. ASSUME NEW i \in 1..Len(stack')
      PROVE  /\ i \in 1..n /\ i \in 1..(n - 1) /\ stack'[i] = stack[i] /\ entities' = entities
  <2>1. stack' # << >>
    BY EmptySeq
  <2> HIDE DEF n
  <2> QED
    BY <1>1, <2>1
<1>3. \A i \in 1..Len(stack') : WholeSaved(entities', stack'[i].saved)
  BY <1>2 DEF Remembered
<1>5. Len(stack) = n
  OBVIOUS
<1>4. ASSUME NEW b \in Books
      PROVE  InStep(Len(stack'), Offs(entities', stack', b), Dues(stack', b), OpenNext(b))
  <2> DEFINE off == Offs(entities, stack, b)
             half == Dues(stack, b)
             off2 == Offs(entities', stack', b)
             half2 == Dues(stack', b)
  <2>1. InStep(n, off, half, OpenNow(b))
    BY BalancedNow
  <2>2. ASSUME NEW i \in 1..(n - 1) PROVE off2[i] = off[i] /\ half2[i] = half[i]
    <3>1. i \in 1..Len(stack') /\ i \in 1..Len(stack)
      BY <1>1, <1>5
    <3>2. stack'[i] = stack[i] /\ entities' = entities
      BY <1>2, <3>1
    <3>3. OffAt(entities', stack', b, i) = OffAt(entities, stack, b, i)
      BY <3>2 DEF OffAt
    <3> QED
      BY <3>1, <3>2, <3>3, BooksAt
  <2>3. OpenNext(b) = off[n]
    <3>1. n \in 1..Len(stack)
      BY <1>1
    <3> QED
      BY <3>1, BooksAt
  <2> HIDE DEF n, off, half, off2, half2
  <2>4. InStep(n - 1, off2, half2, OpenNext(b))
    BY <1>1, <2>1, <2>2, <2>3, InStepPop
  <2> QED
    BY <1>1, <2>4 DEF off2, half2
<1> QED
  BY <1>3, <1>4, BalancedNext

\* A revert restores the books of the time the swap began.
LEMMA RevertRemembered ==
    ASSUME Sound, Framed, Remembered, Revert
    PROVE  Remembered'
<1> DEFINE n == Len(stack)
           v == stack[n].saved
<1>1. PICK S : stack \in Seq(S)
  BY StackShaped
<1>2. /\ stack # << >> /\ stack' = Below /\ UNCHANGED entities
      /\ log' = v.log /\ series' = v.series /\ receipts' = v.receipts
      /\ aqua' = v.aqua /\ balance' = v.balance /\ advance' = v.advance
  BY DEF Revert, Top
<1>3. n \in 1..Len(stack)
  <2>1. Len(stack) \in Nat \ {0}
    BY <1>1, <1>2, ButLast
  <2> QED
    BY <2>1
<1>4. Whole(Folded(entities, v.log), v.series, v.receipts, v.aqua)
  BY <1>3 DEF Remembered, WholeSaved
<1>5. \A b \in Books : OpenNext(b) = OffAt(entities, stack, b, Len(stack))
  BY <1>2 DEF OpenNext, OffAt
<1>6. Whole(Folded(entities', log'), series', receipts', aqua')
  BY <1>2, <1>4
<1> QED
  BY <1>1, <1>2, <1>5, <1>6, PopRemembered

\* What a transfer leaves open of its swap.
DueNext(f, b) ==
    IF f.stage = "first" THEN Due([f EXCEPT !.stage = "second"], b) ELSE 0

DueMoved(f) == [b \in Books |-> DueNext(f, b) - Due(f, b)]

\* A transfer settles what its swap left open.
LEMMA TransferRemembered ==
    ASSUME Sound, Framed, Followed, Remembered, stack # << >>, TransferDone,
           NEW logs, Turns(logs, DueMoved(Top)), Emit(logs, Over)
    PROVE  Remembered'
<1>1. PICK R : (\A v \in R : Saved(v)) /\ stack \in Seq(Frames(R))
  BY DEF Framed
<1> DEFINE n == Len(stack)
           f == [Top EXCEPT !.stage = "second"]
           S == Frames(R)
<1>2. Top \in S /\ n \in Nat \ {0} /\ Top = stack[n] /\ stack \in Seq(S)
  BY <1>1, ButLast DEF Top
<1>3. /\ f \in S /\ f.saved = Top.saved /\ Top.stage \in {"first", "second"}
      /\ FrameShape(Top) /\ FrameShape(f)
  BY <1>1, <1>2, FramesShaped DEF FrameShape
<1>4. n \in 1..Len(stack)
  BY <1>2
<1> HIDE DEF S, f
<1>5. Over <=> stack' = << >>
  BY <1>2, <1>3, OverWhenEmpty DEF f
<1>6. /\ Whole(Folded(entities', log'), series', receipts', aqua')
      /\ \A b \in Books : OpenNext(b) = OpenNow(b) + DueMoved(Top)[b]
      /\ stack' # << >> => entities' = entities
  BY <1>5, EmitTurns
<1>7. ASSUME NEW b \in Books
      PROVE  OpenNext(b) = OffAt(entities, stack, b, n) + DueNext(Top, b)
  <2>1. OffAt(entities, stack, b, n) \in Int /\ Due(Top, b) \in Int /\ DueNext(Top, b) \in Int
    <3>1. Due(f, b) \in Int
      BY <1>3, DueInt
    <3> QED
      BY <1>2, <1>4, <3>1, OpenTypes DEF DueNext, f
  <2>2. OffAt(entities, stack, b, n) + Due(Top, b) = OpenNow(b)
    <3>1. InStep(n, Offs(entities, stack, b), Dues(stack, b), OpenNow(b))
      BY BalancedNow
    <3>2. Offs(entities, stack, b)[n] = OffAt(entities, stack, b, n)
          /\ Dues(stack, b)[n] = Due(Top, b)
      BY <1>2, <1>4, BooksAt
    <3> HIDE DEF n
    <3> QED
      BY <1>2, <3>1, <3>2 DEF InStep
  <2>3. DueMoved(Top)[b] = DueNext(Top, b) - Due(Top, b)
    BY DEF DueMoved
  <2> QED
    BY <1>6, <2>1, <2>2, <2>3
<1>8. CASE Top.stage # "first"
  <2>1. stack' = Below
    BY <1>8 DEF TransferDone
  <2>2. ASSUME NEW b \in Books PROVE OpenNext(b) = OffAt(entities, stack, b, Len(stack))
    <3>1. DueNext(Top, b) = 0 /\ OffAt(entities, stack, b, n) \in Int
      BY <1>4, <1>8, OpenTypes DEF DueNext
    <3> QED
      BY <1>7, <3>1
  <2> QED
    BY <1>2, <1>6, <2>1, <2>2, PopRemembered
<1>9. CASE Top.stage = "first"
  <2>1. /\ Len(stack') = n
        /\ \A i \in 1..(n - 1) : stack'[i] = stack[i]
        /\ stack'[n] = f
    BY <1>2, <1>3, <1>9, AfterTransfer DEF f
  <2>2. stack' # << >>
    BY <1>2, <2>1, EmptySeq
  <2>3. entities' = entities
    BY <1>6, <2>2
  <2>4. ASSUME NEW i \in 1..n PROVE stack'[i].saved = stack[i].saved
    <3>1. i = n \/ i \in 1..(n - 1)
      BY <1>2
    <3> QED
      BY <1>2, <1>3, <2>1, <3>1
  <2>5. \A i \in 1..Len(stack') : WholeSaved(entities', stack'[i].saved)
    BY <2>1, <2>3, <2>4 DEF Remembered
  <2>6. ASSUME NEW b \in Books
        PROVE  InStep(Len(stack'), Offs(entities', stack', b), Dues(stack', b), OpenNext(b))
    <3> DEFINE off == Offs(entities, stack, b)
               half == Dues(stack, b)
               off2 == Offs(entities', stack', b)
               half2 == Dues(stack', b)
    <3>1. InStep(n, off, half, OpenNow(b))
      BY BalancedNow
    <3>2. ASSUME NEW i \in 1..n PROVE off2[i] = off[i]
      <4>1. i \in 1..Len(stack') /\ i \in 1..Len(stack)
        BY <2>1
      <4>2. OffAt(entities', stack', b, i) = OffAt(entities, stack, b, i)
        BY <2>3, <2>4 DEF OffAt
      <4> QED
        BY <4>1, <4>2, BooksAt
    <3>3. ASSUME NEW i \in 1..(n - 1) PROVE half2[i] = half[i]
      <4>1. i \in 1..Len(stack') /\ i \in 1..Len(stack)
        BY <2>1
      <4> QED
        BY ZenonT(60), <2>1, <4>1, BooksAt
    <3>4. OpenNext(b) = off[n] + half2[n]
      <4>1. n \in 1..Len(stack')
        BY <2>1
      <4>2. half2[n] = Due(f, b) /\ off[n] = OffAt(entities, stack, b, n)
        BY ZenonT(60), <1>4, <2>1, <4>1, BooksAt
      <4> QED
        BY <1>7, <1>9, <4>2 DEF DueNext, f
    <3> HIDE DEF n, off, half, off2, half2
    <3>5. InStep(n, off2, half2, OpenNext(b))
      BY <1>2, <3>1, <3>2, <3>3, <3>4, InStepTop
    <3> QED
      BY <2>1, <3>5 DEF off2, half2
  <2> QED
    BY <1>6, <2>5, <2>6, BalancedNext
<1> QED
  BY <1>8, <1>9

-----------------------------------------------------------------------------
(* What each step leaves open *)

LEMMA TurnsFrom ==
    ASSUME NEW logs, NEW more, NEW open \in [Books -> Int],
           Recalls(logs,
                   Past(Created(series), Outs(series), receipts, Live(aqua), Fresh(series),
                        Opened(Index)),
                   Past(Created(series'), Outs(series'), receipts', Live(aqua'), Fresh(series'),
                        open)),
           \A b \in Books : Off(open, balance', b) = Off(Opened(Index), balance, b) + more[b]
    PROVE  Turns(logs, more)
  BY DEF Turns, PastOf

LEMMA OpenedTypes ==
    ASSUME Remembered
    PROVE  /\ Opened(Index) \in [Books -> Int]
           /\ \A b \in Books : Opened(Index)[b] \in Int
<1>1. Remembers(Index, PastOf(series, receipts, aqua, Opened(Index)))
  BY DEF Remembered, Whole, Index
<1>2. Opened(Index) \in [Books -> Int]
  BY <1>1, OpenInts, PastOpen
<1> HIDE DEF Opened
<1> QED
  BY <1>2

\* A step that leaves the books and the vault's cash alone.
LEMMA NothingTurned ==
    ASSUME Sound, Remembered, UNCHANGED balance, NEW logs,
           Recalls(logs,
                   Past(Created(series), Outs(series), receipts, Live(aqua), Fresh(series),
                        Opened(Index)),
                   Past(Created(series'), Outs(series'), receipts', Live(aqua'), Fresh(series'),
                        Opened(Index)))
    PROVE  Turns(logs, Nothing)
<1>1. Opened(Index) \in [Books -> Int] /\ \A b \in Books : Opened(Index)[b] \in Int
  BY OpenedTypes
<1>2. balance \in Int
  BY DEF Sound, Ledger
<1> DEFINE o == Opened(Index)
<1>3. o \in [Books -> Int] /\ \A b \in Books : o[b] \in Int
  BY <1>1
<1> HIDE DEF o
<1>4. ASSUME NEW b \in Books
      PROVE  Off(o, balance', b) = Off(o, balance, b) + Nothing[b]
  <2>1. o[b] \in Int /\ Nothing[b] = 0
    BY <1>3 DEF Nothing
  <2> QED
    BY <1>2, <2>1 DEF Off
<1> QED
  BY <1>1, <1>4, TurnsFrom DEF o

\* What changing series s can change of the past.
LEMMA SeriesEdited ==
    ASSUME NEW ser, NEW ser2, NEW s \in AllSeries, SameBut(ser2, ser, s),
           ser2[s].created = ser[s].created
    PROVE  /\ Created(ser2) = Created(ser) /\ Fresh(ser2) = Fresh(ser)
           /\ Outs(ser)[s] = ser[s].outstandingUnits
           /\ Outs(ser2)[s] = ser2[s].outstandingUnits
           /\ \A t \in Created(ser) \ {s} : Outs(ser2)[t] = Outs(ser)[t]
           /\ ser2[s].outstandingUnits = ser[s].outstandingUnits => Outs(ser2) = Outs(ser)
<1>1. \A t \in AllSeries : ser2[t].created = ser[t].created
  BY DEF SameBut
<1>2. \A t \in AllSeries \ {s} : ser2[t].outstandingUnits = ser[t].outstandingUnits
  BY DEF SameBut
<1>3. \A o \in Orders : o[1] \in AllSeries
  BY DEF Orders
<1>4. Created(ser2) = Created(ser) /\ Fresh(ser2) = Fresh(ser)
  BY <1>1, <1>3 DEF Created, Fresh
<1>5. \A t \in AllSeries : Outs(ser2)[t] = ser2[t].outstandingUnits
                           /\ Outs(ser)[t] = ser[t].outstandingUnits
  BY DEF Outs
<1>6. \A t \in Created(ser) \ {s} : Outs(ser2)[t] = Outs(ser)[t]
  BY <1>2, <1>5 DEF Created
<1>7. ASSUME ser2[s].outstandingUnits = ser[s].outstandingUnits PROVE Outs(ser2) = Outs(ser)
  <2>1. \A t \in AllSeries : ser2[t].outstandingUnits = ser[t].outstandingUnits
    BY <1>2, <1>7
  <2> QED
    BY <2>1 DEF Outs
<1> QED
  BY <1>4, <1>5, <1>6, <1>7

\* The past is of integers.
LEMMA PastTypes ==
    ASSUME Sound, ClaimsKept
    PROVE  /\ receipts \in Balances
           /\ \A s \in AllSeries : Outs(series)[s] \in Int
                                   /\ (s \in Created(series) <=> series[s].created)
<1>1. receipts \in Balances
  BY ClaimsEach
<1>2. ASSUME NEW s \in AllSeries
      PROVE  Outs(series)[s] \in Int /\ (s \in Created(series) <=> series[s].created)
  <2>1. series[s].outstandingUnits \in Int
    BY SeriesFields
  <2> QED
    BY <2>1 DEF Outs, Created
<1> QED
  BY <1>1, <1>2

\* What a fill of a leg adds to the books.
FillDue(s, leg, units, quote, b) ==
    IF b = Cash THEN IF leg = "ISSUE" THEN quote ELSE -quote
    ELSE IF b[1] = s /\ b[2] = leg THEN IF b[3] = "units" THEN units ELSE quote
    ELSE 0

LEMMA FillAdded ==
    ASSUME NEW open \in [Books -> Int], NEW s, NEW leg \in Kinds, NEW units \in Int,
           NEW quote \in Int
    PROVE  /\ Added(open, s, Fill(leg, units, quote)) \in [Books -> Int]
           /\ \A b \in Books : /\ FillDue(s, leg, units, quote, b) \in Int
                               /\ Added(open, s, Fill(leg, units, quote))[b]
                                    = open[b] + FillDue(s, leg, units, quote, b)
<1> DEFINE fill == Fill(leg, units, quote)
           open2 == Added(open, s, fill)
<1>1. ASSUME NEW k \in Kinds, NEW m \in Measures
      PROVE  fill[<<k, m>>] = IF k # leg THEN 0 ELSE IF m = "units" THEN units ELSE quote
  <2>1. <<k, m>> \in Kinds \X Measures /\ <<k, m>>[1] = k /\ <<k, m>>[2] = m
    OBVIOUS
  <2> QED
    BY <2>1 DEF Fill
<1>2. "ISSUE" \in Kinds /\ "EXIT" \in Kinds /\ "SETTLE" \in Kinds /\ "quote" \in Measures
      /\ "quote" # "units"
  BY DEF Kinds, Measures
<1> HIDE DEF fill
<1>3. InFlow(fill) = IF leg = "ISSUE" THEN quote ELSE -quote
  <2>1. /\ fill[<<"ISSUE", "quote">>] = IF leg = "ISSUE" THEN quote ELSE 0
        /\ fill[<<"EXIT", "quote">>] = IF leg = "EXIT" THEN quote ELSE 0
        /\ fill[<<"SETTLE", "quote">>] = IF leg = "SETTLE" THEN quote ELSE 0
    BY <1>1, <1>2
  <2>2. leg = "ISSUE" \/ leg = "EXIT" \/ leg = "SETTLE"
    BY DEF Kinds
  <2> DEFINE i == fill[<<"ISSUE", "quote">>]
             x == fill[<<"EXIT", "quote">>]
             z == fill[<<"SETTLE", "quote">>]
  <2>3. InFlow(fill) = i - x - z
    BY DEF InFlow
  <2>4. /\ i = IF leg = "ISSUE" THEN quote ELSE 0
        /\ x = IF leg = "EXIT" THEN quote ELSE 0
        /\ z = IF leg = "SETTLE" THEN quote ELSE 0
    BY <2>1
  <2> HIDE DEF i, x, z
  <2> QED
    BY <2>2, <2>3, <2>4
<1>4. ASSUME NEW b \in Books
      PROVE  /\ FillDue(s, leg, units, quote, b) \in Int
             /\ open2[b] = open[b] + FillDue(s, leg, units, quote, b)
             /\ open2[b] \in Int
  <2>1. open[b] \in Int /\ FillDue(s, leg, units, quote, b) \in Int
    BY DEF FillDue
  <2>2. open2[b] = open[b] + FillDue(s, leg, units, quote, b)
    <3>1. CASE b = Cash
      BY <1>3, <3>1 DEF Added, FillDue
    <3>2. CASE b # Cash
      <4>1. b[2] \in Kinds /\ b[3] \in Measures
        BY <3>2, BooksSplit
      <4>2. fill[<<b[2], b[3]>>] = IF b[2] # leg THEN 0 ELSE IF b[3] = "units" THEN units ELSE quote
        BY <1>1, <4>1
      <4> DEFINE x == fill[<<b[2], b[3]>>]
      <4>3. open2[b] = open[b] + (IF b[1] = s THEN x ELSE 0)
        BY <3>2 DEF Added
      <4> HIDE DEF x, open2
      <4>4. FillDue(s, leg, units, quote, b) =
                IF b[1] = s /\ b[2] = leg THEN IF b[3] = "units" THEN units ELSE quote ELSE 0
        BY <3>2 DEF FillDue
      <4>5. x = IF b[2] # leg THEN 0 ELSE IF b[3] = "units" THEN units ELSE quote
        BY <4>2 DEF x
      <4> QED
        BY <4>3, <4>4, <4>5
    <3> QED
      BY <3>1, <3>2
  <2> QED
    BY <2>1, <2>2
<1>5. open2 = [b \in Books |-> open2[b]]
  BY DEF Added
<1> HIDE DEF open2
<1>6. open2 \in [Books -> Int]
  BY <1>4, <1>5
<1> QED
  BY <1>4, <1>6 DEF fill, open2

\* The books once a swap is over, and its fill recorded if this is its end.
Ended(open, f) == IF f.stage = "first" THEN open ELSE Unfill(open, f)

EndDue(f, b) == IF f.stage = "first" THEN 0 ELSE FillAt(f, b)

LEMMA FillAtInt ==
    ASSUME NEW f, FrameShape(f), NEW b \in Books
    PROVE  FillAt(f, b) \in Int /\ EndDue(f, b) \in Int
<1>1. f.amountIn \in Int /\ f.amountOut \in Int
  BY DEF FrameShape
<1>2. b # Cash => b[3] \in Measures
  BY BooksSplit
<1>3. FillAt(f, b) \in Int
  BY <1>1, <1>2, FillInts DEF FillAt
<1> QED
  BY <1>3 DEF EndDue

LEMMA EndedBooks ==
    ASSUME NEW open \in [Books -> Int], NEW f, FrameShape(f)
    PROVE  /\ Ended(open, f) \in [Books -> Int]
           /\ \A b \in Books : Ended(open, f)[b] = open[b] - EndDue(f, b)
<1>1. \A b \in Books : EndDue(f, b) \in Int /\ FillAt(f, b) \in Int
  BY FillAtInt
<1>2. CASE f.stage = "first"
  <2>1. Ended(open, f) = open /\ \A b \in Books : EndDue(f, b) = 0
    BY <1>2 DEF Ended, EndDue
  <2> QED
    BY <2>1
<1>3. CASE f.stage # "first"
  <2>1. Ended(open, f) = [b \in Books |-> open[b] - FillAt(f, b)]
    BY <1>3 DEF Ended, Unfill
  <2>2. \A b \in Books : EndDue(f, b) = FillAt(f, b)
    BY <1>3 DEF EndDue
  <2>3. \A b \in Books : open[b] - FillAt(f, b) \in Int
    BY <1>1
  <2> QED
    BY <2>1, <2>2, <2>3
<1> QED
  BY <1>2, <1>3

LEMMA EndRecalled ==
    ASSUME NEW created, NEW out, NEW rec, NEW live, NEW fresh, NEW open,
           NEW f, FrameShape(f), f.group \in AllSeries, f.group \in created
    PROVE  Recalls(Swapped(f), Past(created, out, rec, live, fresh, open),
                   Past(created, out, rec, live, fresh, Ended(open, f)))
<1> DEFINE w == Past(created, out, rec, live, fresh, open)
<1>1. /\ w.created = created /\ w.out = out /\ w.receipts = rec
      /\ w.live = live /\ w.fresh = fresh /\ w.open = open
  BY PastFields
<1> HIDE DEF w
<1>2. CASE f.stage = "first"
  <2>1. Swapped(f) = << >> /\ Ended(open, f) = open
    BY <1>2 DEF Swapped, Ended
  <2>2. Recalls(<< >>, w, w)
    BY RecallsNothing
  <2> QED
    BY <2>1, <2>2 DEF w
<1>3. CASE f.stage # "first"
  <2>1. Ended(open, f) = Unfill(open, f)
    BY <1>3 DEF Ended
  <2>2. f.kind \in Kinds /\ f.amountIn \in Int /\ f.amountOut \in Int
    BY DEF FrameShape
  <2>3. Recalls(Swapped(f), w, Past(w.created, w.out, w.receipts, w.live, w.fresh,
                                    Unfill(w.open, f)))
    BY <1>1, <1>3, <2>2, SwappedRecalled
  <2>4. Recalls(Swapped(f), w, Past(created, out, rec, live, fresh, Ended(open, f)))
    BY <1>1, <2>1, <2>3
  <2> QED
    BY <2>4 DEF w
<1> QED
  BY <1>2, <1>3

\* What each transfer of a swap leaves open.
LEMMA DueSteps ==
    ASSUME NEW f, FrameShape(f), NEW b \in Books
    PROVE  /\ DueMoved(f)[b] \in Int
           /\ (f.inFirst <=> f.stage = "first") =>
                DueMoved(f)[b] =
                    IF b = Cash THEN IF f.kind = "ISSUE" THEN -f.amountIn ELSE -f.amountOut
                    ELSE (IF f.kind = "ISSUE" THEN 0 ELSE FillAt(f, b)) - EndDue(f, b)
           /\ ~(f.inFirst <=> f.stage = "first") =>
                DueMoved(f)[b] =
                    IF b = Cash THEN IF f.kind = "ISSUE" THEN 0 ELSE f.amountOut
                    ELSE -EndDue(f, b)
<1> DEFINE g == [f EXCEPT !.stage = "second"]
           at == FillAt(f, b)
<1>1. /\ f.kind \in Kinds /\ f.inFirst \in BOOLEAN /\ f.stage \in {"first", "second"}
      /\ f.amountIn \in Int /\ f.amountOut \in Int
  BY DEF FrameShape
<1>2. DueMoved(f)[b] = DueNext(f, b) - Due(f, b)
  BY DEF DueMoved
<1>3. f.stage = "first" => /\ g.kind = f.kind /\ g.inFirst = f.inFirst /\ g.stage = "second"
                           /\ g.amountIn = f.amountIn /\ g.amountOut = f.amountOut
                           /\ g.group = f.group
  BY DEF FrameShape
<1>4. at \in Int
  BY FillAtInt
<1>5. DueNext(f, b) = IF f.stage = "first" THEN Due(g, b) ELSE 0
  BY DEF DueNext
<1> HIDE DEF g
<1>6. CASE b = Cash
  <2>1. Due(f, b) = IF f.kind = "ISSUE" THEN IF f.inFirst /\ f.stage = "second" THEN 0 ELSE f.amountIn
                    ELSE IF f.stage = "first" THEN 0 ELSE IF f.inFirst THEN -f.amountOut ELSE f.amountOut
    BY <1>6 DEF Due, PaidIn, Ahead
  <2>2. f.stage = "first" =>
          Due(g, b) = IF f.kind = "ISSUE" THEN IF f.inFirst THEN 0 ELSE f.amountIn
                      ELSE IF f.inFirst THEN -f.amountOut ELSE f.amountOut
    BY <1>3, <1>6 DEF Due, PaidIn, Ahead
  <2> QED
    BY <1>1, <1>2, <1>5, <1>6, <2>1, <2>2
<1>7. CASE b # Cash
  <2>1. Due(f, b) = IF f.kind = "ISSUE" \/ (f.inFirst /\ f.stage = "second") THEN at ELSE 0
    BY <1>7 DEF Due, PaidIn, FillAt
  <2>2. f.stage = "first" =>
          Due(g, b) = IF f.kind = "ISSUE" \/ f.inFirst THEN at ELSE 0
    BY <1>3, <1>7 DEF Due, PaidIn, FillAt
  <2>3. EndDue(f, b) = IF f.stage = "first" THEN 0 ELSE at
    BY DEF EndDue
  <2> HIDE DEF at
  <2>4. /\ DueMoved(f)[b] \in Int
        /\ (f.inFirst <=> f.stage = "first") =>
                DueMoved(f)[b] = (IF f.kind = "ISSUE" THEN 0 ELSE at) - EndDue(f, b)
        /\ ~(f.inFirst <=> f.stage = "first") => DueMoved(f)[b] = -EndDue(f, b)
    BY <1>1, <1>2, <1>4, <1>5, <2>1, <2>2, <2>3
  <2> QED
    BY <1>7, <2>4 DEF at
<1> QED
  BY <1>6, <1>7

LEMMA FrameFields ==
    ASSUME NEW s, NEW kind, NEW h, NEW in, NEW out, NEW inFirst,
           NEW f, f = Frame(s, kind, h, in, out, inFirst)
    PROVE  /\ f.group = s /\ f.kind = kind /\ f.amountIn = in /\ f.amountOut = out
           /\ f.stage = "first" /\ f.inFirst = inFirst /\ f.taker = h /\ f.saved = Snapshot
  BY DEF Frame

\* An issue is booked when it begins.
LEMMA IssueDue ==
    ASSUME NEW f, f.kind = "ISSUE", f.stage = "first", NEW b \in Books
    PROVE  DueOf(f)[b] = FillDue(f.group, "ISSUE", f.amountOut, f.amountIn, b)
<1>1. DueOf(f)[b] = Due(f, b)
  BY DEF DueOf
<1>2. CASE b = Cash
  BY <1>1, <1>2 DEF Due, FillDue, PaidIn
<1>3. CASE b # Cash
  <2>1. b[3] \in Measures /\ FillOf("ISSUE", f.amountIn, f.amountOut)
                                = [units |-> f.amountOut, quote |-> f.amountIn]
    BY <1>3, BooksSplit DEF FillOf
  <2>2. FillOf("ISSUE", f.amountIn, f.amountOut)[b[3]]
            = IF b[3] = "units" THEN f.amountOut ELSE f.amountIn
    BY <2>1 DEF Measures
  <2> QED
    BY <1>1, <1>3, <2>2 DEF Due, FillDue
<1> QED
  BY <1>2, <1>3

\* An issue is booked as it begins and leaves its fill and its premium open.
LEMMA SwapIssueTurns ==
    ASSUME Sound, ClaimsKept, Remembered, NEW s \in AllSeries, NEW h \in Holders,
           NEW ask \in Nat, NEW exactIn \in BOOLEAN, NEW amount \in Nat, NEW inFirst \in BOOLEAN,
           SwapIssue(s, h, ask, exactIn, amount, inFirst)
    PROVE  LET fill == IssueFill(s, ask, exactIn, amount) IN
           \E logs : /\ Emit(logs, FALSE)
                     /\ Turns(logs, DueOf(Frame(s, "ISSUE", h, fill.premium, fill.units, inFirst)))
<1> DEFINE fill == IssueFill(s, ask, exactIn, amount)
           units == fill.units
           quote == fill.premium
           f == Frame(s, "ISSUE", h, quote, units, inFirst)
           a == [source |-> "vault", event |-> "LockedIncreased", locked |-> lockedQuote']
           e == [source |-> "market", event |-> "Issued", series |-> s, units |-> units,
                 quote |-> quote,
                 newOutstanding |-> series'[s].outstandingUnits,
                 newLocked |-> series'[s].lockedLiability]
<1>1. Emit(<<a, e>>, FALSE)
  BY DEF SwapIssue, LockMoved
<1>2. e.source = "market" /\ e.event = "Issued" /\ e.series = s /\ e.units = units
      /\ e.quote = quote
  OBVIOUS
<1>3. units \in Int /\ quote \in Int
  BY IssueFillNat DEF SwapIssue
<1>4. UNCHANGED <<receipts, aqua, balance>> /\ series[s].created
  BY DEF SwapIssue, OnIssue, IncreaseLocked
<1>5. f.group = s /\ f.kind = "ISSUE" /\ f.stage = "first" /\ f.amountOut = units
      /\ f.amountIn = quote
  BY FrameFields
<1>6. /\ SameBut(series', series, s) /\ series'[s].created = series[s].created
      /\ series'[s].outstandingUnits = series[s].outstandingUnits + units
  <2> DEFINE out == series[s].outstandingUnits + units
             r == [series[s] EXCEPT !.outstandingUnits = out,
                                    !.lockedLiability = Liability(s, out)]
  <2>1. series' = [series EXCEPT ![s] = r]
    BY DEF SwapIssue, OnIssue
  <2>2. series \in [AllSeries -> SeriesState] /\ series[s] \in SeriesState
    BY SeriesFields DEF Sound, Ledger
  <2>3. r.created = series[s].created /\ r.outstandingUnits = out
    BY <2>2 DEF SeriesState
  <2> HIDE DEF r
  <2> QED
    BY <2>1, <2>2, <2>3 DEF SameBut
<1> HIDE DEF a, e, f, units, quote
<1>7. /\ Created(series') = Created(series) /\ Fresh(series') = Fresh(series)
      /\ Outs(series)[s] = series[s].outstandingUnits
      /\ Outs(series')[s] = Outs(series)[s] + units
      /\ \A t \in Created(series) \ {s} : Outs(series')[t] = Outs(series)[t]
  BY <1>6, SeriesEdited
<1>8. s \in Created(series) /\ Outs(series)[s] \in Int /\ receipts \in Balances
  BY <1>4, PastTypes
<1>9. Opened(Index) \in [Books -> Int] /\ \A b \in Books : Opened(Index)[b] \in Int
  BY OpenedTypes
<1> DEFINE open == Opened(Index)
           open2 == Added(open, s, Fill("ISSUE", units, quote))
           w == Past(Created(series), Outs(series), receipts, Live(aqua), Fresh(series), open)
           w2 == Past(Created(series), Outs(series'), receipts, Live(aqua), Fresh(series), open2)
<1>10. open \in [Books -> Int] /\ \A b \in Books : open[b] \in Int
  BY <1>9
<1>11. /\ w.created = Created(series) /\ w.out = Outs(series) /\ w.receipts = receipts
       /\ w.live = Live(aqua) /\ w.fresh = Fresh(series) /\ w.open = open
  BY PastFields
<1>12. "ISSUE" \in Kinds /\ FillEvent("ISSUE") = "Issued"
  BY DEF Kinds, FillEvent
<1> HIDE DEF open
<1>13. Recalls(<<a>>, w, w)
  BY LockRecalled DEF a
<1>14. Recalls(<<e>>, w, w2)
  <2> HIDE DEF w
  <2>1. /\ s \in w.created /\ w.out[s] \in Int
        /\ \A t \in w.created \ {s} : Outs(series')[t] = w.out[t]
        /\ Outs(series')[s] = w.out[s] + (IF "ISSUE" = "ISSUE" THEN units ELSE -units)
    BY <1>7, <1>8, <1>11
  <2>2. Recalls(<<e>>, w, Past(w.created, Outs(series'), w.receipts, w.live, w.fresh,
                               Added(w.open, s, Fill("ISSUE", units, quote))))
    BY <1>2, <1>3, <1>12, <2>1, ReportRecalled
  <2> QED
    BY <1>11, <2>2
<1> HIDE DEF w, w2
<1>15. Recalls(<<a>> \o <<e>>, w, w2)
  BY <1>13, <1>14, RecallsThen
<1>16. /\ open2 \in [Books -> Int]
       /\ \A b \in Books : /\ FillDue(s, "ISSUE", units, quote, b) \in Int
                           /\ open2[b] = open[b] + FillDue(s, "ISSUE", units, quote, b)
  BY ZenonT(60), <1>3, <1>10, <1>12, FillAdded
<1> HIDE DEF open2
<1>17. ASSUME NEW b \in Books
       PROVE  Off(open2, balance', b) = Off(open, balance, b) + DueOf(f)[b]
  <2>1. DueOf(f)[b] = FillDue(s, "ISSUE", units, quote, b)
    BY <1>5, IssueDue
  <2>2. balance \in Int /\ balance' = balance
    BY <1>4 DEF Sound, Ledger
  <2> QED
    BY <1>10, <1>16, <2>1, <2>2 DEF Off
<1>18. Recalls(<<a>> \o <<e>>,
               Past(Created(series), Outs(series), receipts, Live(aqua), Fresh(series),
                    Opened(Index)),
               Past(Created(series'), Outs(series'), receipts', Live(aqua'), Fresh(series'),
                    open2))
  BY <1>4, <1>7, <1>15 DEF w, w2, open
<1>19. Turns(<<a>> \o <<e>>, DueOf(f))
  <2>1. \A b \in Books :
           Off(open2, balance', b) = Off(Opened(Index), balance, b) + DueOf(f)[b]
    BY <1>17 DEF open
  <2> QED
    BY <1>16, <1>18, <2>1, TurnsFrom
<1> QED
  BY <1>1, <1>19, TwoLogs DEF f, units, quote

\* A payout begins without a log.
LEMMA SwapPayoutTurns ==
    ASSUME Sound, ClaimsKept, Remembered, NEW s \in AllSeries, NEW h \in Holders,
           NEW kind \in {"EXIT", "SETTLE"}, NEW in \in Nat, NEW paid \in Nat,
           NEW inFirst \in BOOLEAN,
           UNCHANGED <<series, receipts, aqua, balance>>
    PROVE  Turns(<< >>, DueOf(Frame(s, kind, h, in, paid, inFirst)))
<1> DEFINE f == Frame(s, kind, h, in, paid, inFirst)
           w == Past(Created(series), Outs(series), receipts, Live(aqua), Fresh(series),
                     Opened(Index))
<1>1. Recalls(<< >>, w, w)
  BY RecallsNothing
<1>2. Turns(<< >>, Nothing)
  BY <1>1, NothingTurned
<1>3. f.kind = kind /\ f.stage = "first"
  BY FrameFields
<1> HIDE DEF f
<1>4. ASSUME NEW b \in Books PROVE Due(f, b) = 0
  BY <1>3 DEF Due, PaidIn, Ahead
<1>5. DueOf(f) = Nothing
  BY <1>4 DEF DueOf, Nothing
<1> QED
  BY <1>2, <1>5 DEF f

-----------------------------------------------------------------------------
(* Receipts that move *)

LEMMA MovedFrom ==
    ASSUME NEW rec \in Balances, NEW s \in AllSeries, NEW from \in Accounts, NEW n \in Int,
           NEW rec2, rec2 = [rec EXCEPT ![s][from] = @ - n]
    PROVE  /\ \A t \in AllSeries, a \in Accounts :
                rec2[t][a] = rec[t][a] - (IF t = s /\ a = from THEN n ELSE 0)
           /\ MovedTo(rec, rec2, s, from, "zero", n)
<1>1. ASSUME NEW t \in AllSeries, NEW a \in Accounts
      PROVE  /\ rec2[t][a] = rec[t][a] - (IF t = s /\ a = from THEN n ELSE 0)
             /\ rec[t][a] \in Int /\ a # "zero"
  BY HoldersAssumption DEF Balances, Accounts
<1> HIDE DEF Balances, Accounts
<1>2. ASSUME NEW t \in AllSeries, NEW a \in Accounts
      PROVE  rec2[t][a] = rec[t][a] - (IF t = s /\ a = from THEN n ELSE 0)
                                    + (IF t = s /\ a = "zero" THEN n ELSE 0)
  BY <1>1
<1> QED
  BY <1>1, <1>2 DEF MovedTo

LEMMA MovedBetween ==
    ASSUME NEW rec \in Balances, NEW s \in AllSeries, NEW from \in Accounts,
           NEW to \in Accounts, from # to, NEW n \in Int,
           NEW rec2, rec2 = [rec EXCEPT ![s][from] = @ - n, ![s][to] = @ + n]
    PROVE  MovedTo(rec, rec2, s, from, to, n)
<1>1. ASSUME NEW t \in AllSeries, NEW a \in Accounts
      PROVE  rec2[t][a] = rec[t][a] - (IF t = s /\ a = from THEN n ELSE 0)
                                    + (IF t = s /\ a = to THEN n ELSE 0)
  <2>1. /\ rec[t][a] \in Int
        /\ rec \in [AllSeries -> [Accounts -> Nat]]
    BY DEF Balances
  <2>2. CASE t # s
    BY <2>1, <2>2
  <2>3. CASE t = s
    <3>1. rec2[s][a] = IF a = to THEN rec[s][to] + n
                       ELSE IF a = from THEN rec[s][from] - n ELSE rec[s][a]
      BY <2>1
    <3> QED
      BY <2>1, <2>3, <3>1
  <2> QED
    BY <2>2, <2>3
<1> QED
  BY <1>1 DEF MovedTo

\* What a burn moves: the holder's units to the vault, and there they vanish.
LEMMA MovedAway ==
    ASSUME NEW rec \in Balances, NEW s \in AllSeries, NEW from \in Holders, NEW n \in Nat,
           n <= rec[s][from], NEW rec2, rec2 = [rec EXCEPT ![s][from] = @ - n]
    PROVE  \E mid \in Balances : /\ MovedTo(rec, mid, s, from, "vault", n)
                                 /\ MovedTo(mid, rec2, s, "vault", "zero", n)
<1> DEFINE mid == [t \in AllSeries |-> [a \in Accounts |->
                     rec[t][a] - (IF t = s /\ a = from THEN n ELSE 0)
                               + (IF t = s /\ a = "vault" THEN n ELSE 0)]]
<1>1. from \in Accounts /\ from # "vault" /\ n \in Int
  BY HoldersAssumption DEF Accounts
<1>2. \A t \in AllSeries, a \in Accounts :
        mid[t][a] = rec[t][a] - (IF t = s /\ a = from THEN n ELSE 0)
                              + (IF t = s /\ a = "vault" THEN n ELSE 0)
  OBVIOUS
<1>3. ASSUME NEW t \in AllSeries, NEW a \in Accounts
      PROVE  /\ rec[t][a] \in Nat /\ a # "zero"
             /\ rec[t][a] - (IF t = s /\ a = from THEN n ELSE 0)
                          + (IF t = s /\ a = "vault" THEN n ELSE 0) \in Nat
  BY HoldersAssumption DEF Balances, Accounts
<1>4. mid \in Balances
  BY <1>3 DEF Balances
<1> HIDE DEF mid
<1>5. \A t \in AllSeries, a \in Accounts :
        rec2[t][a] = rec[t][a] - (IF t = s /\ a = from THEN n ELSE 0)
  <2>1. n \in Int /\ from \in Accounts
    BY <1>1
  <2>2. ASSUME NEW t \in AllSeries, NEW a \in Accounts
        PROVE  rec2[t][a] = rec[t][a] - (IF t = s /\ a = from THEN n ELSE 0)
    BY <2>1 DEF Balances
  <2> QED
    BY <2>2
<1>6. MovedTo(rec, mid, s, from, "vault", n)
  BY <1>2 DEF MovedTo
<1>7. ASSUME NEW t \in AllSeries, NEW a \in Accounts
      PROVE  rec2[t][a] = mid[t][a] - (IF t = s /\ a = "vault" THEN n ELSE 0)
                                    + (IF t = s /\ a = "zero" THEN n ELSE 0)
  BY <1>2, <1>3, <1>5
<1>8. MovedTo(mid, rec2, s, "vault", "zero", n)
  BY <1>7 DEF MovedTo
<1> QED
  BY <1>4, <1>6, <1>8

LEMMA BurntRecalled ==
    ASSUME Sound, receipts \in Balances, NEW f, FrameShape(f), f.group \in AllSeries,
           f.taker \in Holders, f.kind \in {"EXIT", "SETTLE"}, series[f.group].created,
           f.amountIn <= receipts[f.group][f.taker],
           receipts' = [receipts EXCEPT ![f.group][f.taker] = @ - f.amountIn],
           OnBurn(f.group, f.kind, f.amountIn, f.amountOut), NEW live, NEW open
    PROVE  /\ Created(series') = Created(series) /\ Fresh(series') = Fresh(series)
           /\ Recalls(Burnt(f),
                   Past(Created(series), Outs(series), receipts, live, Fresh(series), open),
                   Past(Created(series), Outs(series'), receipts', live, Fresh(series),
                        Added(open, f.group, Fill(f.kind, f.amountIn, f.amountOut))))
<1> DEFINE s == f.group
           kind == f.kind
           n == f.amountIn
           paid == f.amountOut
           a == Transfer(s, f.taker, "vault", n)
           b == Transfer(s, "vault", "zero", n)
           c == [source |-> "vault", event |-> "LockedDecreased", locked |-> lockedQuote']
           e == [source |-> "market", event |-> IF kind = "EXIT" THEN "Exited" ELSE "Settled",
                 series |-> s, units |-> n, quote |-> paid,
                 newOutstanding |-> series'[s].outstandingUnits,
                 newLocked |-> series'[s].lockedLiability]
<1>1. Burnt(f) = <<a, b, c, e>>
  BY DEF Burnt, LockMoved
<1>2. /\ e.source = "market" /\ e.event = FillEvent(kind) /\ e.series = s
      /\ e.units = n /\ e.quote = paid
  BY DEF FillEvent
<1>3. s \in AllSeries /\ n \in Nat /\ paid \in Nat /\ kind \in Kinds /\ kind # "ISSUE"
  BY DEF FrameShape, Kinds
<1>4. /\ SameBut(series', series, s) /\ series'[s].created = series[s].created
      /\ series'[s].outstandingUnits = series[s].outstandingUnits - n
  <2> DEFINE out == series[s].outstandingUnits - n
             left == LiabilityAfter(s, kind, out)
             r == [series[s] EXCEPT !.outstandingUnits = out, !.lockedLiability = left]
  <2>1. series' = [series EXCEPT ![s] = r]
    BY DEF OnBurn
  <2>2. series \in [AllSeries -> SeriesState] /\ series[s] \in SeriesState
    BY SeriesFields DEF Sound, Ledger
  <2> HIDE DEF left
  <2>3. r.created = series[s].created /\ r.outstandingUnits = out
    BY <2>2 DEF SeriesState
  <2> HIDE DEF r
  <2> QED
    BY <2>1, <2>2, <2>3 DEF SameBut
<1>5. PICK mid \in Balances : /\ MovedTo(receipts, mid, s, f.taker, "vault", n)
                              /\ MovedTo(mid, receipts', s, "vault", "zero", n)
  <2>1. receipts' = [receipts EXCEPT ![s][f.taker] = @ - n] /\ n <= receipts[s][f.taker]
    OBVIOUS
  <2> HIDE DEF s, n
  <2> QED
    BY <1>3, <2>1, MovedAway
<1> HIDE DEF e
<1>6. /\ Created(series') = Created(series) /\ Fresh(series') = Fresh(series)
      /\ Outs(series)[s] = series[s].outstandingUnits
      /\ Outs(series')[s] = Outs(series)[s] - n
      /\ \A t \in Created(series) \ {s} : Outs(series')[t] = Outs(series)[t]
  <2> HIDE DEF s, n
  <2> QED
    BY <1>3, <1>4, SeriesEdited
<1>7. s \in Created(series) /\ Outs(series)[s] \in Int
  <2>1. series[s].outstandingUnits \in Int /\ series[s].created
    BY SeriesFields
  <2> QED
    BY <1>3, <1>6, <2>1 DEF Created
<1> DEFINE created == Created(series)
           out == Outs(series)
           fresh == Fresh(series)
           w0 == Past(created, out, receipts, live, fresh, open)
           w1 == Past(created, out, mid, live, fresh, open)
           w2 == Past(created, out, receipts', live, fresh, open)
           w3 == Past(created, Outs(series'), receipts', live, fresh,
                      Added(open, s, Fill(kind, n, paid)))
<1>8. /\ w0.created = created /\ w0.out = out /\ w0.receipts = receipts
      /\ w0.live = live /\ w0.fresh = fresh /\ w0.open = open
      /\ w1.created = created /\ w1.out = out /\ w1.receipts = mid
      /\ w1.live = live /\ w1.fresh = fresh /\ w1.open = open
      /\ w2.created = created /\ w2.out = out /\ w2.receipts = receipts'
      /\ w2.live = live /\ w2.fresh = fresh /\ w2.open = open
  BY PastFields
<1>9. s \in created /\ out[s] \in Int /\ Outs(series')[s] = out[s] - n
      /\ \A t \in created \ {s} : Outs(series')[t] = out[t]
  BY <1>6, <1>7
<1> HIDE DEF created, out, fresh, s, n, kind, paid
<1>10. Recalls(<<a>>, w0, w1)
  <2> HIDE DEF w0
  <2>1. Recalls(<<a>>, w0, Past(w0.created, w0.out, mid, w0.live, w0.fresh, w0.open))
    <3>1. /\ n \in Int /\ s \in AllSeries /\ s \in w0.created /\ w0.receipts \in Balances
          /\ MovedTo(w0.receipts, mid, s, f.taker, "vault", n)
      BY <1>3, <1>5, <1>8, <1>9
    <3> HIDE DEF w1, w2, w3
    <3> QED
      BY <3>1, TransferRecalled
  <2> QED
    BY <1>8, <2>1
<1>11. Recalls(<<b>>, w1, w2)
  <2> HIDE DEF w1
  <2>1. Recalls(<<b>>, w1, Past(w1.created, w1.out, receipts', w1.live, w1.fresh, w1.open))
    <3>1. /\ n \in Int /\ s \in AllSeries /\ s \in w1.created /\ w1.receipts \in Balances
          /\ MovedTo(w1.receipts, receipts', s, "vault", "zero", n)
      BY <1>3, <1>5, <1>8, <1>9
    <3> DEFINE rec == receipts'
    <3>2. MovedTo(w1.receipts, rec, s, "vault", "zero", n)
      BY <3>1
    <3> HIDE DEF w0, w2, w3, rec
    <3>3. Recalls(<<b>>, w1, Past(w1.created, w1.out, rec, w1.live, w1.fresh, w1.open))
      BY <3>1, <3>2, TransferRecalled
    <3> QED
      BY <3>3 DEF rec
  <2> QED
    BY <1>8, <2>1
<1>12. Recalls(<<c>>, w2, w2)
  <2> HIDE DEF w2
  <2> QED
    BY LockRecalled
<1>13. Recalls(<<e>>, w2, w3)
  <2> HIDE DEF w2
  <2>1. /\ s \in w2.created /\ w2.out[s] \in Int
        /\ \A t \in w2.created \ {s} : Outs(series')[t] = w2.out[t]
        /\ Outs(series')[s] = w2.out[s] + (IF kind = "ISSUE" THEN n ELSE -n)
    BY <1>3, <1>8, <1>9
  <2>2. Recalls(<<e>>, w2, Past(w2.created, Outs(series'), w2.receipts, w2.live, w2.fresh,
                                Added(w2.open, s, Fill(kind, n, paid))))
    <3>1. n \in Int /\ paid \in Int
      BY <1>3
    <3> QED
      BY <1>2, <1>3, <2>1, <3>1, ReportRecalled
  <2> QED
    BY <1>8, <2>2
<1> HIDE DEF a, b, c, w0, w1, w2, w3
<1>14. Recalls(<<a>> \o <<b>>, w0, w2)
  BY <1>10, <1>11, RecallsThen
<1>15. Recalls(<<c>> \o <<e>>, w2, w3)
  BY <1>12, <1>13, RecallsThen
<1>16. Recalls((<<a>> \o <<b>>) \o (<<c>> \o <<e>>), w0, w3)
  BY <1>14, <1>15, RecallsThen
<1>17. Recalls(<<a, b, c, e>>, w0, w3)
  BY <1>16, FourLogs
<1> QED
  BY <1>1, <1>6, <1>17 DEF w0, w3, created, out, fresh, s, n, kind, paid

-----------------------------------------------------------------------------
(* The transfers of a swap *)

LEMMA TopShaped ==
    ASSUME Framed, ClaimsKept, stack # << >>
    PROVE  /\ FrameShape(Top) /\ Top.group \in AllSeries /\ Top.taker \in Holders
           /\ series[Top.group].created
<1>1. PICK S : stack \in Seq(S) /\ \A f \in S : FrameShape(f) /\ f.group \in AllSeries
                                               /\ f.taker \in Holders
  BY StackShaped
<1>2. Top \in S /\ Len(stack) \in 1..Len(stack)
  BY <1>1, ButLast DEF Top
<1> QED
  BY <1>1, <1>2, ClaimsEach DEF FrameClaims, Top

LEMMA CashKept ==
    ASSUME NEW f
    PROVE  FillAt(f, Cash) = 0 /\ EndDue(f, Cash) = 0
  BY DEF FillAt, EndDue

\* What a burn books is the fill its swap records.
LEMMA BurnDue ==
    ASSUME NEW f, f.kind # "ISSUE", NEW b \in Books
    PROVE  FillDue(f.group, f.kind, f.amountIn, f.amountOut, b)
             = IF b = Cash THEN -f.amountOut ELSE FillAt(f, b)
<1>1. CASE b = Cash
  BY <1>1 DEF FillDue
<1>2. CASE b # Cash
  <2>1. b[3] \in Measures /\ FillOf(f.kind, f.amountIn, f.amountOut)
                                = [units |-> f.amountIn, quote |-> f.amountOut]
    BY <1>2, BooksSplit DEF FillOf
  <2>2. FillOf(f.kind, f.amountIn, f.amountOut)[b[3]]
            = IF b[3] = "units" THEN f.amountIn ELSE f.amountOut
    BY <2>1 DEF Measures
  <2> QED
    BY <1>2, <2>2 DEF FillDue, FillAt
<1> QED
  BY <1>1, <1>2

\* A transfer of a swap turns what is open into what it leaves open.
LEMMA MoveTurns ==
    ASSUME Sound, Remembered, NEW f, FrameShape(f), NEW logs,
           NEW open1 \in [Books -> Int], NEW more \in Int, balance' = balance + more,
           Recalls(logs,
                   Past(Created(series), Outs(series), receipts, Live(aqua), Fresh(series),
                        Opened(Index)),
                   Past(Created(series'), Outs(series'), receipts', Live(aqua'), Fresh(series'),
                        Ended(open1, f))),
           \A b \in Books : open1[b] - EndDue(f, b) - (IF b = Cash THEN more ELSE 0)
                                = Opened(Index)[b] + DueMoved(f)[b]
    PROVE  Turns(logs, DueMoved(f))
<1>1. /\ Ended(open1, f) \in [Books -> Int]
      /\ \A b \in Books : Ended(open1, f)[b] = open1[b] - EndDue(f, b)
  BY EndedBooks
<1>2. ASSUME NEW b \in Books
      PROVE  Off(Ended(open1, f), balance', b) = Off(Opened(Index), balance, b) + DueMoved(f)[b]
  <2>1. balance \in Int /\ Opened(Index)[b] \in Int /\ DueMoved(f)[b] \in Int
        /\ EndDue(f, b) \in Int /\ open1[b] \in Int
    BY OpenedTypes, DueSteps, FillAtInt DEF Sound, Ledger
  <2>2. Ended(open1, f)[b] = open1[b] - EndDue(f, b)
    BY <1>1
  <2>3. open1[b] - EndDue(f, b) - (IF b = Cash THEN more ELSE 0)
            = Opened(Index)[b] + DueMoved(f)[b]
    OBVIOUS
  <2> DEFINE x == Ended(open1, f)
             y == Opened(Index)
             z == DueMoved(f)[b]
             e == EndDue(f, b)
  <2>4. /\ balance \in Int /\ y[b] \in Int /\ z \in Int /\ e \in Int /\ open1[b] \in Int
        /\ x[b] = open1[b] - e /\ more \in Int /\ balance' = balance + more
        /\ open1[b] - e - (IF b = Cash THEN more ELSE 0) = y[b] + z
    BY <2>1, <2>2, <2>3
  <2> HIDE DEF x, y, z, e
  <2>5. Off(x, balance', b) = Off(y, balance, b) + z
    BY <2>4 DEF Off
  <2> QED
    BY <2>5 DEF x, y, z
<1> QED
  BY <1>1, <1>2, TurnsFrom

\* What the taker pays in: the premium, or the burned units and their log.
LEMMA TransferInTurns ==
    ASSUME Sound, Framed, ClaimsKept, Remembered, TransferIn
    PROVE  stack # << >> /\ TransferDone
           /\ \E logs : Emit(logs, Over) /\ Turns(logs, DueMoved(Top))
<1> DEFINE f == Top
           s == f.group
           open == Opened(Index)
<1>1. stack # << >> /\ TransferDone /\ (f.inFirst <=> f.stage = "first") /\ UNCHANGED aqua
  BY DEF TransferIn, TransferInNext
<1>2. FrameShape(f) /\ s \in AllSeries /\ f.taker \in Holders /\ series[s].created
  BY <1>1, TopShaped
<1>3. f.kind \in Kinds /\ f.amountIn \in Int /\ f.amountOut \in Int
  BY <1>2 DEF FrameShape
<1>4. open \in [Books -> Int] /\ \A b \in Books : open[b] \in Int
  BY OpenedTypes
<1>5. s \in Created(series) /\ receipts \in Balances
  BY <1>2, PastTypes
<1>6. CASE f.kind = "ISSUE"
  <2>1. /\ Emit(Swapped(f), Over) /\ balance' = balance + f.amountIn
        /\ UNCHANGED <<series, receipts, aqua>>
    BY <1>1, <1>6 DEF TransferIn, Pushed
  <2> HIDE DEF f, open
  <2>2. Recalls(Swapped(f),
                Past(Created(series), Outs(series), receipts, Live(aqua), Fresh(series), open),
                Past(Created(series), Outs(series), receipts, Live(aqua), Fresh(series),
                     Ended(open, f)))
    BY <1>2, <1>5, EndRecalled
  <2>3. ASSUME NEW b \in Books
        PROVE  open[b] - EndDue(f, b) - (IF b = Cash THEN f.amountIn ELSE 0)
                 = open[b] + DueMoved(f)[b]
    <3>1. /\ DueMoved(f)[b] = IF b = Cash THEN -f.amountIn ELSE 0 - EndDue(f, b)
          /\ EndDue(f, b) \in Int /\ open[b] \in Int
      BY <1>1, <1>2, <1>4, <1>6, DueSteps, FillAtInt
    <3>2. b = Cash => EndDue(f, b) = 0
      BY CashKept
    <3> QED
      BY <1>3, <3>1, <3>2
  <2>4. Turns(Swapped(f), DueMoved(f))
    <3>1. Recalls(Swapped(f),
                  Past(Created(series), Outs(series), receipts, Live(aqua), Fresh(series),
                       Opened(Index)),
                  Past(Created(series'), Outs(series'), receipts', Live(aqua'), Fresh(series'),
                       Ended(open, f)))
      BY <2>1, <2>2 DEF open
    <3>2. \A b \in Books : open[b] - EndDue(f, b) - (IF b = Cash THEN f.amountIn ELSE 0)
                                = Opened(Index)[b] + DueMoved(f)[b]
      BY <2>3 DEF open
    <3> QED
      BY <1>2, <1>3, <1>4, <2>1, <3>1, <3>2, MoveTurns
  <2> QED
    BY <1>1, <2>1, <2>4 DEF f
<1>7. CASE f.kind # "ISSUE"
  <2> DEFINE fill == Fill(f.kind, f.amountIn, f.amountOut)
             open1 == Added(open, s, fill)
  <2>1. /\ OnBurn(s, f.kind, f.amountIn, f.amountOut)
        /\ Emit(Burnt(f) \o Swapped(f), Over)
        /\ f.amountIn <= receipts[s][f.taker]
        /\ receipts' = [receipts EXCEPT ![s][f.taker] = @ - f.amountIn]
    BY <1>7 DEF TransferIn
  <2>2. f.kind \in {"EXIT", "SETTLE"}
    BY <1>3, <1>7 DEF Kinds
  <2>3. balance' = balance /\ balance \in Int
    BY <2>1 DEF OnBurn, DecreaseLocked, Sound, Ledger
  <2> HIDE DEF f, open
  <2>4. /\ Created(series') = Created(series) /\ Fresh(series') = Fresh(series)
        /\ Recalls(Burnt(f),
                   Past(Created(series), Outs(series), receipts, Live(aqua), Fresh(series), open),
                   Past(Created(series), Outs(series'), receipts', Live(aqua), Fresh(series),
                        open1))
    BY <1>2, <1>5, <2>1, <2>2, BurntRecalled
  <2>5. /\ open1 \in [Books -> Int]
        /\ \A b \in Books :
             open1[b] = open[b] + (IF b = Cash THEN -f.amountOut ELSE FillAt(f, b))
    <3> DEFINE kind == f.kind
               in == f.amountIn
               out == f.amountOut
    <3>0. open \in [Books -> Int] /\ kind \in Kinds /\ in \in Int /\ out \in Int
      BY <1>3, <1>4
    <3> HIDE DEF kind, in, out, s
    <3>1. /\ open1 \in [Books -> Int]
          /\ \A b \in Books : open1[b] = open[b] + FillDue(s, f.kind, f.amountIn, f.amountOut, b)
      <4>1. /\ Added(open, s, Fill(kind, in, out)) \in [Books -> Int]
            /\ \A b \in Books : Added(open, s, Fill(kind, in, out))[b]
                                    = open[b] + FillDue(s, kind, in, out, b)
        BY <3>0, FillAdded
      <4> QED
        BY <4>1 DEF kind, in, out
    <3> HIDE DEF open1
    <3> USE DEF s
    <3>2. ASSUME NEW b \in Books
          PROVE  open1[b] = open[b] + (IF b = Cash THEN -f.amountOut ELSE FillAt(f, b))
      <4>1. FillDue(s, f.kind, f.amountIn, f.amountOut, b)
              = IF b = Cash THEN -f.amountOut ELSE FillAt(f, b)
        BY <1>7, BurnDue
      <4>2. open1[b] = open[b] + FillDue(s, f.kind, f.amountIn, f.amountOut, b)
        BY <3>1
      <4> QED
        BY <4>1, <4>2
    <3> QED
      BY <3>1, <3>2
  <2> HIDE DEF open1
  <2>6. Recalls(Swapped(f),
                Past(Created(series), Outs(series'), receipts', Live(aqua), Fresh(series), open1),
                Past(Created(series), Outs(series'), receipts', Live(aqua), Fresh(series),
                     Ended(open1, f)))
    <3> DEFINE out == Outs(series')
               rec == receipts'
    <3> HIDE DEF out, rec
    <3>1. Recalls(Swapped(f),
                  Past(Created(series), out, rec, Live(aqua), Fresh(series), open1),
                  Past(Created(series), out, rec, Live(aqua), Fresh(series), Ended(open1, f)))
      BY <1>2, <1>5, EndRecalled
    <3> QED
      BY <3>1 DEF out, rec
  <2>7. Recalls(Burnt(f) \o Swapped(f),
                Past(Created(series), Outs(series), receipts, Live(aqua), Fresh(series), open),
                Past(Created(series), Outs(series'), receipts', Live(aqua), Fresh(series),
                     Ended(open1, f)))
    BY <2>4, <2>6, RecallsThen
  <2>8. ASSUME NEW b \in Books
        PROVE  open1[b] - EndDue(f, b) - (IF b = Cash THEN 0 ELSE 0) = open[b] + DueMoved(f)[b]
    <3>1. DueMoved(f)[b] = IF b = Cash THEN -f.amountOut ELSE FillAt(f, b) - EndDue(f, b)
      BY <1>1, <1>2, <1>7, DueSteps
    <3>2. EndDue(f, b) \in Int /\ FillAt(f, b) \in Int /\ open[b] \in Int
      BY <1>2, <1>4, FillAtInt
    <3>3. b = Cash => EndDue(f, b) = 0
      BY CashKept
    <3>4. open1[b] = open[b] + (IF b = Cash THEN -f.amountOut ELSE FillAt(f, b))
      BY <2>5
    <3> QED
      BY <1>3, <3>1, <3>2, <3>3, <3>4
  <2>9. Turns(Burnt(f) \o Swapped(f), DueMoved(f))
    <3>1. Recalls(Burnt(f) \o Swapped(f),
                  Past(Created(series), Outs(series), receipts, Live(aqua), Fresh(series),
                       Opened(Index)),
                  Past(Created(series'), Outs(series'), receipts', Live(aqua'), Fresh(series'),
                       Ended(open1, f)))
      BY <1>1, <2>4, <2>7 DEF open
    <3>2. \A b \in Books : open1[b] - EndDue(f, b) - (IF b = Cash THEN 0 ELSE 0)
                                = Opened(Index)[b] + DueMoved(f)[b]
      BY <2>8 DEF open
    <3>3. balance' = balance + 0 /\ 0 \in Int
      BY <2>3
    <3> QED
      BY <1>2, <2>5, <3>1, <3>2, <3>3, MoveTurns
  <2> QED
    BY <1>1, <2>1, <2>9 DEF f
<1> QED
  BY <1>6, <1>7

Drawn(aq2, aq, s, kind, n) == n <= aq[s][kind] /\ aq2 = [aq EXCEPT ![s][kind] = @ - n]

\* Units of a live order that leave it do not dock it.
LEMMA StaysLive ==
    ASSUME NEW aq \in [AllSeries -> [Kinds -> Int]], NEW s \in AllSeries, NEW kind \in Kinds,
           NEW n \in Nat, NEW aq2, Drawn(aq2, aq, s, kind, n)
    PROVE  Live(aq2) = Live(aq)
<1>1. ASSUME NEW o \in Orders
      PROVE  aq2[o[1]][o[2]] # Docked <=> aq[o[1]][o[2]] # Docked
  <2>1. o[1] \in AllSeries /\ o[2] \in Kinds
    BY DEF Orders
  <2>2. aq[s][kind] # Docked /\ aq[s][kind] - n # Docked
    BY DEF Docked, Drawn
  <2>3. aq2[o[1]][o[2]] = IF o[1] = s /\ o[2] = kind THEN aq[s][kind] - n ELSE aq[o[1]][o[2]]
    BY <2>1 DEF Drawn
  <2> QED
    BY <2>2, <2>3
<1> QED
  BY <1>1 DEF Live

\* What the taker gets: the units, or the payout.
LEMMA TransferOutTurns ==
    ASSUME Sound, Framed, ClaimsKept, Remembered, TransferOut
    PROVE  stack # << >> /\ TransferDone
           /\ \E logs : Emit(logs, Over) /\ Turns(logs, DueMoved(Top))
<1> DEFINE f == Top
           s == f.group
           open == Opened(Index)
           more == IF f.kind = "ISSUE" THEN 0 ELSE -f.amountOut
<1>1. /\ stack # << >> /\ TransferDone /\ UNCHANGED series
      /\ ~(f.inFirst <=> f.stage = "first")
  <2>1. /\ stack # << >> /\ TransferDone /\ UNCHANGED series
        /\ f.inFirst <=> f.stage = "second"
    BY DEF TransferOut, TransferOutNext
  <2>2. FrameShape(f)
    BY <2>1, TopShaped
  <2> QED
    BY <2>1, <2>2 DEF FrameShape
<1>2. FrameShape(f) /\ s \in AllSeries /\ f.taker \in Holders
  BY <1>1, TopShaped
<1>3. f.kind \in Kinds /\ f.amountIn \in Int /\ f.amountOut \in Nat /\ more \in Int
  BY <1>2 DEF FrameShape
<1>4. open \in [Books -> Int] /\ \A b \in Books : open[b] \in Int
  BY OpenedTypes
<1>5. s \in Created(series) /\ receipts \in Balances
  BY <1>1, <1>2, TopShaped, PastTypes
<1>6. Live(aqua') = Live(aqua)
  <2>1. /\ f.amountOut <= aqua[s][f.kind]
        /\ aqua' = [aqua EXCEPT ![s][f.kind] = @ - f.amountOut]
    BY DEF TransferOut
  <2>2. aqua \in [AllSeries -> [Kinds -> Int]]
    BY DEF Sound, Ledger
  <2> DEFINE kind == f.kind
             n == f.amountOut
             aq2 == aqua'
  <2>3. s \in AllSeries /\ kind \in Kinds /\ n \in Nat /\ Drawn(aq2, aqua, s, kind, n)
    BY <1>2, <1>3, <2>1 DEF Drawn
  <2> HIDE DEF f, s, kind, n, aq2
  <2>4. Live(aq2) = Live(aqua)
    BY <2>2, <2>3, StaysLive
  <2> QED
    BY <2>4 DEF aq2
<1>7. ASSUME NEW b \in Books
      PROVE  open[b] - EndDue(f, b) - (IF b = Cash THEN more ELSE 0) = open[b] + DueMoved(f)[b]
  <2>1. DueMoved(f)[b] = IF b = Cash THEN IF f.kind = "ISSUE" THEN 0 ELSE f.amountOut
                         ELSE -EndDue(f, b)
    BY <1>1, <1>2, DueSteps
  <2>2. EndDue(f, b) \in Int /\ open[b] \in Int
    BY <1>2, <1>4, FillAtInt
  <2>3. b = Cash => EndDue(f, b) = 0
    BY CashKept
  <2> HIDE DEF f, open
  <2> QED
    BY <1>3, <2>1, <2>2, <2>3
<1>8. ASSUME NEW logs, balance' = balance + more,
             Recalls(logs,
                     Past(Created(series), Outs(series), receipts, Live(aqua), Fresh(series), open),
                     Past(Created(series), Outs(series), receipts', Live(aqua), Fresh(series),
                          Ended(open, f)))
      PROVE  Turns(logs, DueMoved(f))
  <2>1. Recalls(logs,
                Past(Created(series), Outs(series), receipts, Live(aqua), Fresh(series),
                     Opened(Index)),
                Past(Created(series'), Outs(series'), receipts', Live(aqua'), Fresh(series'),
                     Ended(open, f)))
    BY <1>1, <1>6, <1>8
  <2>2. \A b \in Books : open[b] - EndDue(f, b) - (IF b = Cash THEN more ELSE 0)
                              = Opened(Index)[b] + DueMoved(f)[b]
    BY <1>7
  <2> HIDE DEF f, open, more
  <2> QED
    BY <1>2, <1>3, <1>4, <1>8, <2>1, <2>2, MoveTurns
<1>9. CASE f.kind = "ISSUE"
  <2> DEFINE t == <<Transfer(s, "vault", f.taker, f.amountOut)>>
             out == Outs(series)
             w == Past(Created(series), out, receipts, Live(aqua), Fresh(series), open)
             w1 == Past(Created(series), out, receipts', Live(aqua), Fresh(series), open)
             w2 == Past(Created(series), out, receipts', Live(aqua), Fresh(series),
                        Ended(open, f))
  <2>1. /\ Emit(t \o Swapped(f), Over) /\ balance' = balance
        /\ receipts' = [receipts EXCEPT ![s]["vault"] = @ - f.amountOut,
                                        ![s][f.taker] = @ + f.amountOut]
    BY <1>9 DEF TransferOut, VaultUnchanged
  <2>2. "vault" \in Accounts /\ f.taker \in Accounts /\ "vault" # f.taker /\ f.amountOut \in Int
    BY <1>2, <1>3, HoldersAssumption DEF Accounts
  <2> HIDE DEF f, open, out
  <2> DEFINE rec == receipts'
  <2>3. MovedTo(receipts, rec, s, "vault", f.taker, f.amountOut)
    BY <1>2, <1>5, <2>1, <2>2, MovedBetween
  <2> HIDE DEF rec
  <2>4. Recalls(t, w, Past(Created(series), out, rec, Live(aqua), Fresh(series), open))
    <3>1. /\ w.created = Created(series) /\ w.out = out /\ w.receipts = receipts
          /\ w.live = Live(aqua) /\ w.fresh = Fresh(series) /\ w.open = open
      BY PastFields
    <3> HIDE DEF w
    <3>2. /\ s \in AllSeries /\ s \in w.created /\ w.receipts \in Balances /\ f.amountOut \in Int
          /\ MovedTo(w.receipts, rec, s, "vault", f.taker, f.amountOut)
      BY <1>2, <1>5, <2>2, <2>3, <3>1
    <3>3. Recalls(t, w, Past(w.created, w.out, rec, w.live, w.fresh, w.open))
      BY <3>2, TransferRecalled
    <3> QED
      BY <3>1, <3>3
  <2>5. Recalls(Swapped(f), Past(Created(series), out, rec, Live(aqua), Fresh(series), open),
                Past(Created(series), out, rec, Live(aqua), Fresh(series), Ended(open, f)))
    BY <1>2, <1>5, EndRecalled
  <2>6. Recalls(t, w, w1) /\ Recalls(Swapped(f), w1, w2)
    BY <2>4, <2>5 DEF rec
  <2> HIDE DEF t, w, w1, w2
  <2>7. Recalls(t \o Swapped(f), w, w2)
    BY <2>6, RecallsThen
  <2>8. balance' = balance + more
    BY <1>9, <2>1 DEF Sound, Ledger, more
  <2>9. Turns(t \o Swapped(f), DueMoved(f))
    BY <1>8, <2>7, <2>8 DEF w, w2, out
  <2> QED
    BY <1>1, <2>1, <2>9 DEF f
<1>10. CASE f.kind # "ISSUE"
  <2>1. /\ Emit(Swapped(f), Over) /\ balance' = balance - f.amountOut /\ UNCHANGED receipts
    BY <1>10 DEF TransferOut, Pulled
  <2>2. balance' = balance + more
    BY <1>3, <1>10, <2>1 DEF Sound, Ledger
  <2> HIDE DEF f, open, more
  <2>3. Recalls(Swapped(f),
                Past(Created(series), Outs(series), receipts, Live(aqua), Fresh(series), open),
                Past(Created(series), Outs(series), receipts, Live(aqua), Fresh(series),
                     Ended(open, f)))
    BY <1>2, <1>5, EndRecalled
  <2>4. Turns(Swapped(f), DueMoved(f))
    BY <1>8, <2>1, <2>2, <2>3
  <2> QED
    BY <1>1, <2>1, <2>4 DEF f
<1> QED
  BY <1>9, <1>10

-----------------------------------------------------------------------------
(* The other calls *)

\* A docked strategy is no longer live.
LEMMA DockedRecalled ==
    ASSUME NEW created, NEW out, NEW rec, NEW live, NEW fresh, NEW open,
           NEW s \in AllSeries, NEW kind \in Kinds,
           <<s, kind>> \in live <=> aqua[s][kind] # Docked
    PROVE  Recalls(DockedLog(s, kind), Past(created, out, rec, live, fresh, open),
                   Past(created, out, rec, live \ {<<s, kind>>}, fresh, open))
<1> DEFINE o == <<s, kind>>
<1>1. o \in Orders
  BY DEF Orders
<1>2. CASE aqua[s][kind] = Docked
  <2>1. DockedLog(s, kind) = << >> /\ live \ {o} = live
    BY <1>2 DEF DockedLog
  <2>2. Recalls(<< >>, Past(created, out, rec, live, fresh, open),
                Past(created, out, rec, live, fresh, open))
    BY RecallsNothing
  <2> QED
    BY <2>1, <2>2
<1>3. CASE aqua[s][kind] # Docked
  <2>1. DockedLog(s, kind) = Referenced("StrategyDocked", o) /\ o \in live
    BY <1>3 DEF DockedLog
  <2> HIDE DEF o
  <2>2. Recalls(Referenced("StrategyDocked", o), Past(created, out, rec, live, fresh, open),
                Past(created, out, rec, live \ {o}, fresh, open))
    BY <1>1, <2>1, DockRecalled
  <2> QED
    BY <2>1, <2>2 DEF o
<1> QED
  BY <1>2, <1>3

\* No receipts of a series that was not created.
LEMMA NoReceipts ==
    ASSUME Remembered, NEW s \in AllSeries, ~series[s].created
    PROVE  \A a \in Accounts : receipts[s][a] = 0
<1> DEFINE w == PastOf(series, receipts, aqua, Opened(Index))
<1>1. Remembers(Index, w)
  BY DEF Remembered, Whole, Index
<1>2. s \notin Created(series)
  BY DEF Created
<1>3. w.created = Created(series) /\ w.receipts = receipts
  BY PastFields DEF PastOf
<1> HIDE DEF w
<1>4. BalancePast(Index, w)
  BY <1>1 DEF Remembers
<1> QED
  BY <1>2, <1>3, <1>4 DEF BalancePast

\* The past of a series that is created.
LEMMA CreatedPast ==
    ASSUME Sound, Remembered, receipts \in Balances, NEW s \in AllSeries, CreateSeries(s),
           series[s] = NoSeries
    PROVE  LET oI == <<s, "ISSUE">>
               oE == <<s, "EXIT">>
               oS == <<s, "SETTLE">>
           IN  /\ Created(series') = Created(series) \union {s} /\ s \notin Created(series)
               /\ Outs(series') = Outs(series) /\ Outs(series)[s] = 0
               /\ Live(aqua') = Live(aqua) \union {oI} \union {oE} \union {oS}
               /\ Fresh(series') = ((Fresh(series) \ {oI}) \ {oE}) \ {oS}
               /\ oI \in Fresh(series) /\ oE \in Fresh(series) /\ oS \in Fresh(series)
               /\ MovedTo(receipts, receipts', s, "zero", "vault", Params[s].maxUnits)
<1> DEFINE p == Params[s]
           oI == <<s, "ISSUE">>
           oE == <<s, "EXIT">>
           oS == <<s, "SETTLE">>
           r == [NoSeries EXCEPT !.created = TRUE]
           made == [k \in Kinds |-> IF k = "ISSUE" THEN p.maxUnits ELSE Liability(s, p.maxUnits)]
<1>1. /\ series' = [series EXCEPT ![s] = r]
      /\ aqua' = [aqua EXCEPT ![s] = made]
      /\ receipts' = [receipts EXCEPT ![s]["vault"] = p.maxUnits]
  BY DEF CreateSeries
<1>2. p.maxUnits \in Nat /\ Liability(s, p.maxUnits) \in Nat
  BY ParamTypes, LiabilityNat
<1>3. series \in [AllSeries -> SeriesState] /\ aqua \in [AllSeries -> [Kinds -> Int]]
  BY DEF Sound, Ledger
<1>4. r.created = TRUE /\ r.outstandingUnits = 0 /\ NoSeries.created = FALSE
      /\ NoSeries.outstandingUnits = 0
  BY DEF NoSeries
<1>5. ASSUME NEW k \in Kinds PROVE made[k] # Docked
  BY <1>2 DEF Docked
<1> HIDE DEF r, made, p
<1>6. \A t \in AllSeries : series'[t] = IF t = s THEN r ELSE series[t]
  BY <1>1, <1>3
<1>7. \A t \in AllSeries : aqua'[t] = IF t = s THEN made ELSE aqua[t]
  BY <1>1, <1>3
<1>8. /\ Created(series') = Created(series) \union {s} /\ s \notin Created(series)
      /\ Outs(series') = Outs(series) /\ Outs(series)[s] = 0
  <2>1. \A t \in AllSeries : series'[t].outstandingUnits = series[t].outstandingUnits
    BY <1>4, <1>6
  <2>2. \A t \in AllSeries : series'[t].created <=> t = s \/ series[t].created
    BY <1>4, <1>6
  <2> QED
    BY <1>4, <2>1, <2>2 DEF Created, Outs
<1>9. /\ oI \in Orders /\ oE \in Orders /\ oS \in Orders
      /\ \A o \in Orders : o[1] = s <=> o = oI \/ o = oE \/ o = oS
  BY DEF Orders, Kinds
<1>10. Live(aqua') = Live(aqua) \union {oI} \union {oE} \union {oS}
  <2>1. ASSUME NEW o \in Orders
        PROVE  aqua'[o[1]][o[2]] # Docked <=>
                  aqua[o[1]][o[2]] # Docked \/ o = oI \/ o = oE \/ o = oS
    <3>1. o[1] \in AllSeries /\ o[2] \in Kinds
      BY DEF Orders
    <3>2. CASE o[1] = s
      BY <1>5, <1>7, <1>9, <3>1, <3>2
    <3>3. CASE o[1] # s
      BY <1>7, <1>9, <3>1, <3>3
    <3> QED
      BY <3>2, <3>3
  <2> HIDE DEF oI, oE, oS
  <2> QED
    BY <1>9, <2>1 DEF Live
<1>11. /\ Fresh(series') = ((Fresh(series) \ {oI}) \ {oE}) \ {oS}
       /\ oI \in Fresh(series) /\ oE \in Fresh(series) /\ oS \in Fresh(series)
  <2>1. ASSUME NEW o \in Orders
        PROVE  /\ ~series'[o[1]].created <=>
                     ~series[o[1]].created /\ o # oI /\ o # oE /\ o # oS
               /\ o[1] = s => ~series[o[1]].created
    <3>1. o[1] \in AllSeries
      BY DEF Orders
    <3> HIDE DEF oI, oE, oS
    <3> QED
      BY <1>4, <1>6, <1>9, <3>1
  <2> HIDE DEF oI, oE, oS
  <2> QED
    BY <1>9, <2>1 DEF Fresh
<1>12. MovedTo(receipts, receipts', s, "zero", "vault", p.maxUnits)
  <2>1. receipts[s]["vault"] = 0
    BY <1>4, NoReceipts DEF Accounts
  <2>2. ASSUME NEW t \in AllSeries, NEW a \in Accounts
        PROVE  receipts'[t][a] = receipts[t][a] - (IF t = s /\ a = "zero" THEN p.maxUnits ELSE 0)
                                                + (IF t = s /\ a = "vault" THEN p.maxUnits ELSE 0)
    <3>1. a # "zero"
      BY HoldersAssumption DEF Accounts
    <3>2. receipts[t][a] \in Int /\ receipts \in Balances
      BY DEF Balances
    <3> QED
      BY <1>1, <1>2, <2>1, <3>1, <3>2 DEF Balances
  <2> QED
    BY <2>2 DEF MovedTo
<1> QED
  BY <1>8, <1>10, <1>11, <1>12 DEF p

\* A series is created with its receipt, its two burn orders and its issue order.
LEMMA CreateSeriesTurns ==
    ASSUME Sound, ClaimsKept, Remembered, NEW s \in AllSeries, CreateSeries(s),
           series[s] = NoSeries
    PROVE  \E logs : Call(logs) /\ Turns(logs, Nothing)
<1> DEFINE p == Params[s]
           seeded == IF p.start <= now THEN 1 ELSE 0
           oI == <<s, "ISSUE">>
           oE == <<s, "EXIT">>
           oS == <<s, "SETTLE">>
           l1 == Referenced("ReceiptRegistered", s)
           l2 == Referenced("StrategyShipped", oI)
           l3 == Referenced("StrategyShipped", oE)
           l4 == Referenced("StrategyShipped", oS)
           l5 == <<[source |-> "market", event |-> "SeriesCreated", series |-> s,
                    start |-> p.start]>>
           l6 == IF seeded = 1 THEN <<Progress(s, 1)>> ELSE << >>
           l7 == <<Transfer(s, "zero", "vault", p.maxUnits)>>
<1>1. Call(l1 \o l2 \o l3 \o l4 \o l5 \o l6 \o l7) /\ UNCHANGED balance
  BY DEF CreateSeries, VaultUnchanged
<1>2. receipts \in Balances /\ Opened(Index) \in [Books -> Int] /\ p.maxUnits \in Int
  BY PastTypes, OpenedTypes, ParamTypes
<1>3. /\ Created(series') = Created(series) \union {s} /\ s \notin Created(series)
      /\ Outs(series') = Outs(series) /\ Outs(series)[s] = 0
      /\ Live(aqua') = Live(aqua) \union {oI} \union {oE} \union {oS}
      /\ Fresh(series') = ((Fresh(series) \ {oI}) \ {oE}) \ {oS}
      /\ oI \in Fresh(series) /\ oE \in Fresh(series) /\ oS \in Fresh(series)
      /\ MovedTo(receipts, receipts', s, "zero", "vault", p.maxUnits)
  BY <1>2, CreatedPast
<1>4. oI \in Orders /\ oE \in Orders /\ oS \in Orders /\ oI # oE /\ oI # oS /\ oE # oS
  BY DEF Orders, Kinds
<1>5. Progress(s, 1).source = "market" /\ Progress(s, 1).series = s
      /\ Progress(s, 1).event = "Checkpointed"
  BY DEF Progress
<1> DEFINE c == Created(series)
           c2 == c \union {s}
           out == Outs(series)
           rec == receipts'
           v0 == Live(aqua)
           v1 == v0 \union {oI}
           v2 == v1 \union {oE}
           v3 == v2 \union {oS}
           f0 == Fresh(series)
           f1 == f0 \ {oI}
           f2 == f1 \ {oE}
           f3 == f2 \ {oS}
           open == Opened(Index)
           w0 == Past(c, out, receipts, v0, f0, open)
           w1 == Past(c, out, receipts, v1, f1, open)
           w2 == Past(c, out, receipts, v2, f2, open)
           w3 == Past(c, out, receipts, v3, f3, open)
           w4 == Past(c2, out, receipts, v3, f3, open)
           w5 == Past(c2, out, rec, v3, f3, open)
<1>6. oI \in f0 /\ oE \in f1 /\ oS \in f2
  BY <1>3, <1>4
<1>7. s \notin c /\ s \in c2 /\ out[s] = 0
  BY <1>3
<1>8. MovedTo(receipts, rec, s, "zero", "vault", p.maxUnits)
  BY <1>3
<1> HIDE DEF oI, oE, oS, c, out, rec, v0, v1, v2, v3, f0, f1, f2, f3, open, p, seeded
<1>9. /\ w3.created = c /\ w3.out = out /\ w3.receipts = receipts
      /\ w3.live = v3 /\ w3.fresh = f3 /\ w3.open = open
      /\ w4.created = c2 /\ w4.out = out /\ w4.receipts = receipts
      /\ w4.live = v3 /\ w4.fresh = f3 /\ w4.open = open
  BY PastFields
<1>10. Recalls(l1, w0, w0)
  BY RegisterRecalled
<1>11. Recalls(l2, w0, w1)
  BY <1>4, <1>6, ShipRecalled DEF v1, f1
<1>12. Recalls(l3, w1, w2)
  BY <1>4, <1>6, ShipRecalled DEF v2, f2
<1>13. Recalls(l4, w2, w3)
  BY <1>4, <1>6, ShipRecalled DEF v3, f3
<1>14. Recalls(l5, w3, w4)
  <2> HIDE DEF w3
  <2>1. s \notin w3.created /\ w3.out[s] = 0
    BY <1>7, <1>9
  <2>2. Recalls(l5, w3, Past(w3.created \union {s}, w3.out, w3.receipts, w3.live, w3.fresh,
                             w3.open))
    BY <2>1, SeriesCreatedRecalled
  <2> QED
    BY <1>9, <2>2
<1>15. Recalls(l6, w4, w4)
  <2> HIDE DEF w4
  <2>1. s \in w4.created /\ w4.out[s] \in Int
    BY <1>7, <1>9
  <2> DEFINE e == Progress(s, 1)
  <2>2. e.source = "market" /\ e.series = s
        /\ e.event \in {"Finalized", "IssuanceStopped", "SeriesClosed", "Checkpointed"}
    BY <1>5
  <2> HIDE DEF e
  <2>3. Recalls(<<e>>, w4, w4)
    BY <2>1, <2>2, StateRecalled
  <2>4. Recalls(<< >>, w4, w4)
    BY RecallsNothing
  <2> QED
    BY <2>3, <2>4 DEF e
<1>16. Recalls(l7, w4, w5)
  <2> HIDE DEF w4
  <2>1. s \in w4.created /\ w4.receipts \in Balances
        /\ MovedTo(w4.receipts, rec, s, "zero", "vault", p.maxUnits)
    BY <1>2, <1>7, <1>8, <1>9
  <2>2. Recalls(l7, w4, Past(w4.created, w4.out, rec, w4.live, w4.fresh, w4.open))
    BY <1>2, <2>1, TransferRecalled
  <2> QED
    BY <1>9, <2>2
<1> HIDE DEF l1, l2, l3, l4, l5, l6, l7, w0, w1, w2, w3, w4, w5
<1>17. Recalls(l1 \o l2, w0, w1)
  BY <1>10, <1>11, RecallsThen
<1>18. Recalls(l1 \o l2 \o l3, w0, w2)
  BY <1>12, <1>17, RecallsThen
<1>19. Recalls(l1 \o l2 \o l3 \o l4, w0, w3)
  BY <1>13, <1>18, RecallsThen
<1>20. Recalls(l1 \o l2 \o l3 \o l4 \o l5, w0, w4)
  BY <1>14, <1>19, RecallsThen
<1>21. Recalls(l1 \o l2 \o l3 \o l4 \o l5 \o l6, w0, w4)
  BY <1>15, <1>20, RecallsThen
<1> DEFINE all == l1 \o l2 \o l3 \o l4 \o l5 \o l6 \o l7
<1>22. Recalls(all, w0, w5)
  BY <1>16, <1>21, RecallsThen
<1> HIDE DEF all
<1>23. Recalls(all,
               Past(Created(series), Outs(series), receipts, Live(aqua), Fresh(series),
                    Opened(Index)),
               Past(Created(series'), Outs(series'), receipts', Live(aqua'), Fresh(series'),
                    Opened(Index)))
  <2>1. /\ Created(series') = c2 /\ Outs(series') = out /\ receipts' = rec
        /\ Live(aqua') = v3 /\ Fresh(series') = f3
    BY <1>3 DEF c2, c, out, rec, v0, v1, v2, v3, f0, f1, f2, f3
  <2> QED
    BY <1>22, <2>1 DEF w0, w5, c, out, v0, f0, open
<1>24. Turns(all, Nothing)
  BY <1>1, <1>23, NothingTurned
<1> QED
  BY <1>1, <1>24 DEF all

\* Samples are none of the history.
LEMMA CheckpointTurns ==
    ASSUME Sound, ClaimsKept, Remembered, NEW s \in AllSeries, NEW n, Checkpoint(s, n)
    PROVE  \E logs : Call(logs) /\ Turns(logs, Nothing)
<1> DEFINE stored == Least(samples[s] + n, AvailableSamples(s))
           e == Progress(s, stored)
           w == Past(Created(series), Outs(series), receipts, Live(aqua), Fresh(series),
                     Opened(Index))
<1>1. /\ series[s].created /\ Call(<<e>>) /\ UNCHANGED <<series, receipts, aqua, balance>>
  BY DEF Checkpoint, VaultUnchanged
<1>2. e.source = "market" /\ e.series = s
      /\ e.event \in {"Finalized", "IssuanceStopped", "SeriesClosed", "Checkpointed"}
  BY DEF Progress
<1>3. s \in w.created /\ w.out[s] \in Int
  BY <1>1, PastTypes, PastFields
<1> HIDE DEF e, w
<1>4. Recalls(<<e>>, w, w)
  BY <1>2, <1>3, StateRecalled
<1>5. Turns(<<e>>, Nothing)
  BY <1>1, <1>4, NothingTurned DEF w
<1> QED
  BY <1>1, <1>5

\* A report of the lock, if there is one.
LEMMA MaybeLockRecalled ==
    ASSUME NEW w, NEW less
    PROVE  Recalls(IF less > 0 THEN <<LockMoved("LockedDecreased")>> ELSE << >>, w, w)
<1> DEFINE c == [source |-> "vault", event |-> "LockedDecreased", locked |-> lockedQuote']
<1>1. Recalls(<<c>>, w, w)
  BY LockRecalled
<1>2. c = LockMoved("LockedDecreased")
  BY DEF LockMoved
<1> HIDE DEF c
<1>3. Recalls(<< >>, w, w)
  BY RecallsNothing
<1> QED
  BY <1>1, <1>2, <1>3

\* Nor is a final variance.
LEMMA FinalizeTurns ==
    ASSUME Sound, ClaimsKept, Remembered, NEW s \in AllSeries, NEW variance \in Variances,
           Finalize(s, variance)
    PROVE  \E logs : Call(logs) /\ Turns(logs, Nothing)
<1> DEFINE ppu  == PayoutPerUnit(variance, Params[s].cap, Params[s].notional)
           left == FinalLiability(series[s].outstandingUnits, ppu)
           released == series[s].lockedLiability - left
           r    == [series[s] EXCEPT !.finalized = TRUE, !.payoutPerUnit = ppu,
                                     !.lockedLiability = left]
           l1 == IF released > 0 THEN <<LockMoved("LockedDecreased")>> ELSE << >>
           e  == [source |-> "market", event |-> "Finalized", series |-> s, ppu |-> ppu,
                  outstanding |-> series[s].outstandingUnits, released |-> released]
           w == Past(Created(series), Outs(series), receipts, Live(aqua), Fresh(series),
                     Opened(Index))
<1>1. /\ series' = [series EXCEPT ![s] = r] /\ series[s].created
      /\ Call(l1 \o <<e>>)
      /\ UNCHANGED <<receipts, aqua, balance>>
  BY DEF Finalize, VaultUnchanged, DecreaseLocked
<1>2. e.source = "market" /\ e.series = s
      /\ e.event \in {"Finalized", "IssuanceStopped", "SeriesClosed", "Checkpointed"}
  OBVIOUS
<1>3. series[s] \in SeriesState /\ series \in [AllSeries -> SeriesState]
  BY SeriesFields DEF Sound, Ledger
<1>4. Recalls(l1, w, w)
  BY MaybeLockRecalled
<1> HIDE DEF ppu, left
<1>5. r.created = series[s].created /\ r.outstandingUnits = series[s].outstandingUnits
  BY <1>3 DEF SeriesState
<1> HIDE DEF r, e, l1
<1>6. /\ SameBut(series', series, s) /\ series'[s].created = series[s].created
      /\ series'[s].outstandingUnits = series[s].outstandingUnits
  BY <1>1, <1>3, <1>5 DEF SameBut
<1>7. Created(series') = Created(series) /\ Fresh(series') = Fresh(series)
      /\ Outs(series') = Outs(series)
  BY <1>6, SeriesEdited
<1>8. s \in w.created /\ w.out[s] \in Int
  BY <1>1, PastTypes, PastFields
<1> HIDE DEF w
<1>9. Recalls(<<e>>, w, w)
  BY <1>2, <1>8, StateRecalled
<1>10. Recalls(l1 \o <<e>>, w, w)
  BY <1>4, <1>9, RecallsThen
<1>11. Turns(l1 \o <<e>>, Nothing)
  BY <1>1, <1>7, <1>10, NothingTurned DEF w
<1> QED
  BY <1>1, <1>11

LEMMA LiveNow ==
    ASSUME NEW s \in AllSeries, NEW kind \in Kinds
    PROVE  <<s, kind>> \in Orders /\ (<<s, kind>> \in Live(aqua) <=> aqua[s][kind] # Docked)
  BY DEF Live, Orders

\* Stopping the issuance docks its order.
LEMMA StopIssuanceTurns ==
    ASSUME Sound, ClaimsKept, Remembered, NEW s \in AllSeries, StopIssuance(s)
    PROVE  \E logs : Call(logs) /\ Turns(logs, Nothing)
<1> DEFINE e == [source |-> "market", event |-> "IssuanceStopped", series |-> s]
           r == [series[s] EXCEPT !.issuanceStopped = TRUE]
           l == DockedLog(s, "ISSUE")
           oI == <<s, "ISSUE">>
           v0 == Live(aqua)
           v1 == v0 \ {oI}
           w0 == Past(Created(series), Outs(series), receipts, v0, Fresh(series), Opened(Index))
           w1 == Past(Created(series), Outs(series), receipts, v1, Fresh(series), Opened(Index))
<1>1. /\ series' = [series EXCEPT ![s] = r] /\ series[s].created
      /\ aqua' = [aqua EXCEPT ![s]["ISSUE"] = Docked]
      /\ Call(l \o <<e>>)
      /\ UNCHANGED <<receipts, balance>>
  BY DEF StopIssuance, VaultUnchanged
<1>2. e.source = "market" /\ e.series = s
      /\ e.event \in {"Finalized", "IssuanceStopped", "SeriesClosed", "Checkpointed"}
  OBVIOUS
<1>3. series[s] \in SeriesState /\ series \in [AllSeries -> SeriesState]
      /\ aqua \in [AllSeries -> [Kinds -> Int]]
  BY SeriesFields DEF Sound, Ledger
<1>4. r.created = series[s].created /\ r.outstandingUnits = series[s].outstandingUnits
  BY <1>3 DEF SeriesState
<1> HIDE DEF r, e
<1>5. /\ SameBut(series', series, s) /\ series'[s].created = series[s].created
      /\ series'[s].outstandingUnits = series[s].outstandingUnits
  BY <1>1, <1>3, <1>4 DEF SameBut
<1>6. Created(series') = Created(series) /\ Fresh(series') = Fresh(series)
      /\ Outs(series') = Outs(series)
  BY <1>5, SeriesEdited
<1>7. s \in w1.created /\ w1.out[s] \in Int
  BY <1>1, PastTypes, PastFields
<1>8. "ISSUE" \in Kinds /\ (oI \in v0 <=> aqua[s]["ISSUE"] # Docked)
  BY LiveNow DEF Kinds
<1>9. Live(aqua') = v1
  <2>1. ASSUME NEW o \in Orders
        PROVE  aqua'[o[1]][o[2]] # Docked <=> aqua[o[1]][o[2]] # Docked /\ o # oI
    <3>1. o[1] \in AllSeries /\ o[2] \in Kinds /\ o = <<o[1], o[2]>>
      BY DEF Orders
    <3>2. aqua'[o[1]][o[2]] = IF o[1] = s /\ o[2] = "ISSUE" THEN Docked ELSE aqua[o[1]][o[2]]
      BY <1>1, <1>3, <1>8, <3>1
    <3> QED
      BY <3>1, <3>2
  <2> HIDE DEF oI
  <2> QED
    BY <2>1 DEF Live
<1> HIDE DEF v0, v1
<1>10. Recalls(l, w0, w1)
  BY <1>8, DockedRecalled DEF v1
<1> HIDE DEF l, w0, w1
<1>11. Recalls(<<e>>, w1, w1)
  BY <1>2, <1>7, StateRecalled
<1>12. Recalls(l \o <<e>>, w0, w1)
  BY <1>10, <1>11, RecallsThen
<1>13. Turns(l \o <<e>>, Nothing)
  BY <1>1, <1>6, <1>9, <1>12, NothingTurned DEF w0, w1, v0
<1> QED
  BY <1>1, <1>13

\* Worthless units are burned without a fill.
LEMMA BurnWorthlessTurns ==
    ASSUME Sound, ClaimsKept, Remembered, NEW s \in AllSeries, series[s].created,
           NEW h \in Holders, NEW units \in Nat, BurnWorthless(s, h, units)
    PROVE  \E logs : Call(logs) /\ Turns(logs, Nothing)
<1> DEFINE e == [source |-> "market", event |-> "WorthlessBurned", series |-> s,
                 units |-> units]
           r == [series[s] EXCEPT !.outstandingUnits = series[s].outstandingUnits - units]
           a == Transfer(s, h, "zero", units)
           open == Opened(Index)
           rec == receipts'
           out == Outs(series')
           w0 == Past(Created(series), Outs(series), receipts, Live(aqua), Fresh(series), open)
           w1 == Past(Created(series), Outs(series), rec, Live(aqua), Fresh(series), open)
           w2 == Past(Created(series), out, rec, Live(aqua), Fresh(series), open)
<1>1. /\ series' = [series EXCEPT ![s] = r]
      /\ Call(<<a, e>>)
      /\ receipts' = [receipts EXCEPT ![s][h] = @ - units]
      /\ UNCHANGED <<aqua, balance>>
  BY DEF BurnWorthless, VaultUnchanged
<1>2. e.source = "market" /\ e.event = "WorthlessBurned" /\ e.series = s /\ e.units = units
  OBVIOUS
<1>3. series[s] \in SeriesState /\ series \in [AllSeries -> SeriesState]
  BY SeriesFields DEF Sound, Ledger
<1>4. /\ r.created = series[s].created
      /\ r.outstandingUnits = series[s].outstandingUnits - units
  BY <1>3 DEF SeriesState
<1> HIDE DEF r, e
<1>5. /\ SameBut(series', series, s) /\ series'[s].created = series[s].created
      /\ series'[s].outstandingUnits = series[s].outstandingUnits - units
  BY <1>1, <1>3, <1>4 DEF SameBut
<1>6. /\ Created(series') = Created(series) /\ Fresh(series') = Fresh(series)
      /\ Outs(series)[s] = series[s].outstandingUnits
      /\ out[s] = series'[s].outstandingUnits
      /\ \A t \in Created(series) \ {s} : out[t] = Outs(series)[t]
  BY ZenonT(60), <1>5, SeriesEdited
<1>7. /\ receipts \in Balances /\ s \in Created(series) /\ Outs(series)[s] \in Int
      /\ open \in [Books -> Int] /\ units \in Int
  BY PastTypes, OpenedTypes
<1>8. MovedTo(receipts, rec, s, h, "zero", units)
  <2>1. h \in Accounts /\ rec = [receipts EXCEPT ![s][h] = @ - units]
    BY <1>1 DEF Accounts
  <2> HIDE DEF rec
  <2> QED
    BY <1>7, <2>1, MovedFrom
<1>9. /\ w0.created = Created(series) /\ w0.out = Outs(series) /\ w0.receipts = receipts
      /\ w0.live = Live(aqua) /\ w0.fresh = Fresh(series) /\ w0.open = open
      /\ w1.created = Created(series) /\ w1.out = Outs(series) /\ w1.receipts = rec
      /\ w1.live = Live(aqua) /\ w1.fresh = Fresh(series) /\ w1.open = open
  BY PastFields
<1> HIDE DEF open, rec, out
<1>10. Recalls(<<a>>, w0, w1)
  <2> HIDE DEF w0
  <2>1. s \in w0.created /\ w0.receipts \in Balances
        /\ MovedTo(w0.receipts, rec, s, h, "zero", units)
    BY <1>7, <1>8, <1>9
  <2>2. Recalls(<<a>>, w0, Past(w0.created, w0.out, rec, w0.live, w0.fresh, w0.open))
    BY <1>7, <2>1, TransferRecalled
  <2> QED
    BY <1>9, <2>2
<1>11. Recalls(<<e>>, w1, w2)
  <2> HIDE DEF w1
  <2>1. /\ s \in w1.created /\ w1.out[s] \in Int
        /\ \A t \in w1.created \ {s} : out[t] = w1.out[t]
        /\ out[s] = w1.out[s] - units
    BY <1>5, <1>6, <1>7, <1>9
  <2>2. Recalls(<<e>>, w1, Past(w1.created, out, w1.receipts, w1.live, w1.fresh,
                                Added(w1.open, s, Fill("ISSUE", 0, 0))))
    BY <1>2, <1>7, <2>1, WorthlessRecalled
  <2>3. Added(w1.open, s, Fill("ISSUE", 0, 0)) = open
    BY <1>7, <1>9, NothingAdded
  <2> QED
    BY <1>9, <2>2, <2>3
<1> HIDE DEF a, w0, w1, w2
<1>12. Recalls(<<a>> \o <<e>>, w0, w2)
  BY <1>10, <1>11, RecallsThen
<1>13. Turns(<<a>> \o <<e>>, Nothing)
  BY <1>1, <1>6, <1>12, NothingTurned DEF w0, w2, open, out, rec
<1> QED
  BY <1>1, <1>13, TwoLogs

\* Receipts change hands.
LEMMA ReceiptTransferTurns ==
    ASSUME Sound, ClaimsKept, Remembered, NEW s \in AllSeries, NEW from \in Accounts,
           NEW to \in Accounts, NEW units \in Nat \ {0},
           ReceiptTransfer(s, from, to, units)
    PROVE  \E logs : Call(logs) /\ Turns(logs, Nothing)
<1> DEFINE open == Opened(Index)
           rec == receipts'
           t == Transfer(s, from, to, units)
           w0 == Past(Created(series), Outs(series), receipts, Live(aqua), Fresh(series), open)
           w1 == Past(Created(series), Outs(series), rec, Live(aqua), Fresh(series), open)
<1>1. /\ Call(<<t>>) /\ UNCHANGED <<series, aqua, balance>> /\ from # to
      /\ units <= receipts[s][from]
      /\ rec = [receipts EXCEPT ![s][from] = @ - units, ![s][to] = @ + units]
  BY DEF ReceiptTransfer, VaultUnchanged
<1>2. receipts \in Balances /\ units \in Int
  BY PastTypes
<1> HIDE DEF rec, open
<1>3. MovedTo(receipts, rec, s, from, to, units)
  BY <1>1, <1>2, MovedBetween
<1>4. series[s].created
  <2>1. ~series[s].created => receipts[s][from] = 0
    BY NoReceipts
  <2> QED
    BY <1>1, <2>1
<1> QED
  <2>1. /\ w0.created = Created(series) /\ w0.out = Outs(series) /\ w0.receipts = receipts
        /\ w0.live = Live(aqua) /\ w0.fresh = Fresh(series) /\ w0.open = open
    BY PastFields
  <2>2. s \in Created(series)
    BY <1>4, PastTypes
  <2> HIDE DEF w0
  <2>3. s \in w0.created /\ w0.receipts \in Balances
        /\ MovedTo(w0.receipts, rec, s, from, to, units)
    BY <1>2, <1>3, <2>1, <2>2
  <2>4. Recalls(<<t>>, w0, Past(w0.created, w0.out, rec, w0.live, w0.fresh, w0.open))
    BY <1>2, <2>3, TransferRecalled
  <2>5. Recalls(<<t>>, w0, w1)
    BY <2>1, <2>4
  <2> HIDE DEF w1, t
  <2>6. Turns(<<t>>, Nothing)
    BY <1>1, <2>5, NothingTurned DEF w0, w1, open, rec
  <2> QED
    BY <1>1, <2>6

\* A closed series docks what is left and burns what was not sold.
LEMMA CloseSeriesTurns ==
    ASSUME Sound, ClaimsKept, Remembered, NEW s \in AllSeries, CloseSeries(s)
    PROVE  \E logs : Call(logs) /\ Turns(logs, Nothing)
<1> DEFINE unsold   == receipts[s]["vault"]
           residual == series[s].lockedLiability
           e == [source |-> "market", event |-> "SeriesClosed", series |-> s]
           r == [series[s] EXCEPT !.closed = TRUE, !.lockedLiability = 0]
           l1 == DockedLog(s, "ISSUE")
           l2 == DockedLog(s, "EXIT")
           l3 == DockedLog(s, "SETTLE")
           l4 == IF unsold > 0 THEN <<Transfer(s, "vault", "zero", unsold)>> ELSE << >>
           l5 == IF residual > 0 THEN <<LockMoved("LockedDecreased")>> ELSE << >>
           all == l1 \o l2 \o l3 \o l4 \o l5 \o <<e>>
           oI == <<s, "ISSUE">>
           oE == <<s, "EXIT">>
           oS == <<s, "SETTLE">>
           c == Created(series)
           out == Outs(series)
           fresh == Fresh(series)
           rec == receipts'
           open == Opened(Index)
           v0 == Live(aqua)
           v1 == v0 \ {oI}
           v2 == v1 \ {oE}
           v3 == v2 \ {oS}
           w0 == Past(c, out, receipts, v0, fresh, open)
           w1 == Past(c, out, receipts, v1, fresh, open)
           w2 == Past(c, out, receipts, v2, fresh, open)
           w3 == Past(c, out, receipts, v3, fresh, open)
           w4 == Past(c, out, rec, v3, fresh, open)
<1>1. /\ series' = [series EXCEPT ![s] = r] /\ series[s].created
      /\ aqua' = [aqua EXCEPT ![s] = [k \in Kinds |-> Docked]]
      /\ rec = [receipts EXCEPT ![s]["vault"] = 0]
      /\ Call(all)
      /\ UNCHANGED balance
  BY DEF CloseSeries, VaultUnchanged, DecreaseLocked
<1>2. e.source = "market" /\ e.series = s
      /\ e.event \in {"Finalized", "IssuanceStopped", "SeriesClosed", "Checkpointed"}
  OBVIOUS
<1>3. series[s] \in SeriesState /\ series \in [AllSeries -> SeriesState]
      /\ aqua \in [AllSeries -> [Kinds -> Int]]
  BY SeriesFields DEF Sound, Ledger
<1>4. r.created = series[s].created /\ r.outstandingUnits = series[s].outstandingUnits
  BY <1>3 DEF SeriesState
<1> HIDE DEF r, e
<1>5. /\ SameBut(series', series, s) /\ series'[s].created = series[s].created
      /\ series'[s].outstandingUnits = series[s].outstandingUnits
  BY <1>1, <1>3, <1>4 DEF SameBut
<1>6. Created(series') = c /\ Fresh(series') = fresh /\ Outs(series') = out
  BY <1>5, SeriesEdited
<1>7. /\ "ISSUE" \in Kinds /\ "EXIT" \in Kinds /\ "SETTLE" \in Kinds
      /\ oI # oE /\ oI # oS /\ oE # oS
      /\ \A k \in Kinds : k = "ISSUE" \/ k = "EXIT" \/ k = "SETTLE"
  BY DEF Kinds
<1>8. /\ oI \in v0 <=> aqua[s]["ISSUE"] # Docked
      /\ oE \in v1 <=> aqua[s]["EXIT"] # Docked
      /\ oS \in v2 <=> aqua[s]["SETTLE"] # Docked
  <2>1. /\ oI \in v0 <=> aqua[s]["ISSUE"] # Docked
        /\ oE \in v0 <=> aqua[s]["EXIT"] # Docked
        /\ oS \in v0 <=> aqua[s]["SETTLE"] # Docked
    BY <1>7, LiveNow
  <2> HIDE DEF oI, oE, oS, v0
  <2> QED
    BY <1>7, <2>1
<1>9. Live(aqua') = v3
  <2>1. ASSUME NEW o \in Orders
        PROVE  aqua'[o[1]][o[2]] # Docked
                  <=> aqua[o[1]][o[2]] # Docked /\ o # oI /\ o # oE /\ o # oS
    <3>1. o[1] \in AllSeries /\ o[2] \in Kinds /\ o = <<o[1], o[2]>>
      BY DEF Orders
    <3>2. aqua'[o[1]][o[2]] = IF o[1] = s THEN Docked ELSE aqua[o[1]][o[2]]
      BY <1>1, <1>3, <3>1
    <3> QED
      BY <1>7, <3>1, <3>2
  <2> HIDE DEF oI, oE, oS
  <2> QED
    BY <2>1 DEF Live
<1>10. receipts \in Balances /\ s \in c /\ out[s] \in Int /\ unsold \in Nat
  <2>1. receipts \in Balances /\ s \in c /\ out[s] \in Int
    BY <1>1, PastTypes
  <2> QED
    BY <2>1 DEF Balances, Accounts
<1>11. MovedTo(receipts, rec, s, "vault", "zero", unsold) /\ (unsold = 0 => rec = receipts)
  <2>1. rec = [receipts EXCEPT ![s]["vault"] = receipts[s]["vault"] - unsold]
        /\ "vault" \in Accounts /\ unsold \in Int
    <3>1. "vault" \in Accounts
      BY DEF Accounts
    <3>2. unsold \in Int /\ receipts[s]["vault"] - unsold = 0
      BY <1>10
    <3> HIDE DEF unsold, rec
    <3> QED
      BY <1>1, <3>1, <3>2
  <2>2. MovedTo(receipts, rec, s, "vault", "zero", unsold)
    <3> DEFINE n == unsold
    <3>1. rec = [receipts EXCEPT ![s]["vault"] = @ - n] /\ n \in Int
      BY <2>1
    <3> HIDE DEF n, rec
    <3>2. MovedTo(receipts, rec, s, "vault", "zero", n)
      BY <1>10, <2>1, <3>1, MovedFrom
    <3> QED
      BY <3>2 DEF n
  <2>3. ASSUME unsold = 0 PROVE rec = receipts
    BY <1>1, <1>10, <2>1, <2>3 DEF Balances
  <2> QED
    BY <2>2, <2>3
<1>12. Recalls(l5, w4, w4)
  <2> HIDE DEF w4, residual
  <2> QED
    BY MaybeLockRecalled
<1> HIDE DEF oI, oE, oS, c, out, fresh, rec, open, v0, v1, v2, v3, unsold, residual
<1>13. /\ w3.created = c /\ w3.out = out /\ w3.receipts = receipts
       /\ w3.live = v3 /\ w3.fresh = fresh /\ w3.open = open
       /\ w4.created = c /\ w4.out = out
  BY PastFields
<1>14. Recalls(l1, w0, w1)
  BY <1>7, <1>8, DockedRecalled DEF v1, oI
<1>15. Recalls(l2, w1, w2)
  BY <1>7, <1>8, DockedRecalled DEF v2, oE
<1>16. Recalls(l3, w2, w3)
  BY <1>7, <1>8, DockedRecalled DEF v3, oS
<1>17. Recalls(l4, w3, w4)
  <2> DEFINE t == Transfer(s, "vault", "zero", unsold)
  <2>1. CASE unsold > 0
    <3> HIDE DEF w3
    <3>1. s \in w3.created /\ w3.receipts \in Balances /\ unsold \in Int
          /\ MovedTo(w3.receipts, rec, s, "vault", "zero", unsold)
      BY <1>10, <1>11, <1>13
    <3>2. Recalls(<<t>>, w3, Past(w3.created, w3.out, rec, w3.live, w3.fresh, w3.open))
      BY <3>1, TransferRecalled
    <3> QED
      BY <1>13, <2>1, <3>2
  <2>2. CASE ~(unsold > 0)
    <3>1. unsold = 0
      BY <1>10, <2>2
    <3>2. rec = receipts
      BY <1>11, <3>1
    <3>3. Recalls(<< >>, w3, w3)
      BY RecallsNothing
    <3> QED
      BY <2>2, <3>2, <3>3
  <2> QED
    BY <2>1, <2>2
<1> HIDE DEF l1, l2, l3, l4, l5, w0, w1, w2, w3, w4
<1>18. Recalls(<<e>>, w4, w4)
  <2>1. s \in w4.created /\ w4.out[s] \in Int
    BY <1>10, <1>13
  <2> QED
    BY <1>2, <2>1, StateRecalled
<1>19. Recalls(l1 \o l2, w0, w2)
  BY <1>14, <1>15, RecallsThen
<1>20. Recalls(l1 \o l2 \o l3, w0, w3)
  BY <1>16, <1>19, RecallsThen
<1>21. Recalls(l1 \o l2 \o l3 \o l4, w0, w4)
  BY <1>17, <1>20, RecallsThen
<1>22. Recalls(l1 \o l2 \o l3 \o l4 \o l5, w0, w4)
  BY <1>12, <1>21, RecallsThen
<1>23. Recalls(all, w0, w4)
  BY <1>18, <1>22, RecallsThen
<1> HIDE DEF all
<1>24. Turns(all, Nothing)
  <2>1. Recalls(all,
                Past(Created(series), Outs(series), receipts, Live(aqua), Fresh(series),
                     Opened(Index)),
                Past(Created(series'), Outs(series'), receipts', Live(aqua'), Fresh(series'),
                     Opened(Index)))
    BY <1>6, <1>9, <1>23 DEF w0, w4, c, out, fresh, rec, open, v0
  <2> QED
    BY <1>1, <2>1, NothingTurned
<1> QED
  BY <1>1, <1>24

\* Collateral that moves is counted as it moves.
LEMMA CollateralTurns ==
    ASSUME Sound, Remembered, NEW amount \in Nat, VaultDeposit(amount) \/ VaultWithdrawFree(amount)
    PROVE  \E logs : Call(logs) /\ Turns(logs, Nothing)
<1>1. PICK kind \in {"Deposited", "FreeWithdrawn"} :
        /\ Call(Collateral(kind, amount))
        /\ balance' = balance + (IF kind = "Deposited" THEN amount ELSE -amount)
        /\ UNCHANGED <<series, receipts, aqua>>
  <2>1. balance \in Int
    BY DEF Sound, Ledger
  <2>2. CASE VaultDeposit(amount)
    BY <2>1, <2>2 DEF VaultDeposit, Deposit, ledger
  <2>3. CASE VaultWithdrawFree(amount)
    BY <2>1, <2>3 DEF VaultWithdrawFree, WithdrawFree, ledger
  <2> QED
    BY <2>2, <2>3
<1> DEFINE more == IF kind = "Deposited" THEN amount ELSE -amount
           open == Opened(Index)
           open2 == [open EXCEPT ![Cash] = @ + more]
           logs == Collateral(kind, amount)
<1>2. open \in [Books -> Int] /\ (\A b \in Books : open[b] \in Int) /\ more \in Int
      /\ balance \in Int /\ balance' = balance + more /\ Cash \in Books
  BY <1>1, OpenedTypes DEF Sound, Ledger, Books
<1>3. more = IF kind = "Deposited" THEN amount ELSE -amount
  OBVIOUS
<1> HIDE DEF open, more
<1>4. /\ open2 \in [Books -> Int]
      /\ \A b \in Books : open2[b] = IF b = Cash THEN open[b] + more ELSE open[b]
  BY <1>2
<1>5. Recalls(logs,
              Past(Created(series), Outs(series), receipts, Live(aqua), Fresh(series), open),
              Past(Created(series), Outs(series), receipts, Live(aqua), Fresh(series), open2))
  <2> DEFINE bal == balance'
             lock == lockedQuote'
             c == Created(series)
             out == Outs(series)
             fresh == Fresh(series)
             live == Live(aqua)
  <2>0. more \in Int /\ amount \in Int
    BY <1>2
  <2> HIDE DEF bal, lock, c, out, fresh, live, logs
  <2>1. Recalls(<<[source |-> "vault", event |-> kind, amount |-> amount,
                   balance |-> bal, locked |-> lock]>>,
                Past(c, out, receipts, live, fresh, open),
                Past(c, out, receipts, live, fresh,
                     [open EXCEPT ![Cash] = @ + more]))
    BY <2>0, <1>3, CollateralRecalled
  <2> QED
    BY <2>1 DEF Collateral, bal, lock, c, out, fresh, live, logs, open2
<1> HIDE DEF open2, logs
<1>6. ASSUME NEW b \in Books
      PROVE  Off(open2, balance', b) = Off(open, balance, b) + Nothing[b]
  <2>1. open[b] \in Int /\ Nothing[b] = 0
        /\ open2[b] = IF b = Cash THEN open[b] + more ELSE open[b]
    BY <1>2, <1>4 DEF Nothing
  <2> QED
    BY <1>2, <2>1 DEF Off
<1>7. Turns(logs, Nothing)
  <2>1. Recalls(logs,
                Past(Created(series), Outs(series), receipts, Live(aqua), Fresh(series),
                     Opened(Index)),
                Past(Created(series'), Outs(series'), receipts', Live(aqua'), Fresh(series'),
                     open2))
    BY <1>1, <1>5 DEF open
  <2>2. \A b \in Books : Off(open2, balance', b) = Off(Opened(Index), balance, b) + Nothing[b]
    BY <1>6 DEF open
  <2> QED
    BY <1>4, <2>1, <2>2, TurnsFrom
<1> QED
  BY <1>1, <1>7 DEF logs

-----------------------------------------------------------------------------
(* The books after every step *)

LEMMA ElsewhereRemembers ==
    ASSUME Sound, Framed, ClaimsKept, Followed, Remembered, isVault, Elsewhere
    PROVE  Remembered'
<1>1. CASE Tick \/ UNCHANGED vars
  <2>1. UNCHANGED <<stack, log, entities, series, receipts, aqua, balance>>
    BY <1>1 DEF Tick, vars, chain, ledger
  <2>2. /\ Whole(Folded(entities', log'), series', receipts', aqua')
        /\ \A i \in 1..Len(stack') : WholeSaved(entities', stack'[i].saved)
        /\ Balanced(entities', log', stack', balance')
    BY <2>1 DEF Remembered
  <2> QED
    BY <2>2, RememberedNext
<1>2. CASE \E a \in Deposits : VaultDeposit(a) \/ VaultWithdrawFree(a)
  <2>1. Deposits \subseteq Nat
    BY InputsAssumption
  <2> QED
    BY <1>2, <2>1, CollateralTurns, CallRemembered
<1>3. ASSUME NEW s \in AllSeries, NEW n, Checkpoint(s, n)
      PROVE  Remembered'
  BY <1>3, CheckpointTurns, CallRemembered
<1>4. ASSUME NEW s \in AllSeries, NEW h \in Holders, NEW to \in Accounts, NEW u \in UnitAmounts,
             ReceiptTransfer(s, h, to, u)
      PROVE  Remembered'
  <2>1. h \in Accounts /\ u \in Nat \ {0}
    BY InputsAssumption DEF Accounts
  <2> QED
    BY <1>4, <2>1, ReceiptTransferTurns, CallRemembered
<1>5. ~CreateVault
  BY DEF CreateVault
<1> QED
  BY <1>1, <1>2, <1>3, <1>4, <1>5 DEF Elsewhere

LEMMA SeriesChangeRemembers ==
    ASSUME Sound, Framed, ClaimsKept, Followed, Remembered, NEW s \in AllSeries, SeriesChange(s)
    PROVE  Remembered'
<1>1. CreateSeries(s) => series[s] = NoSeries
  BY FollowedLedger DEF CreateSeries
<1>2. \A h, u : BurnWorthless(s, h, u) => series[s].created
  BY ClaimsEach DEF BurnWorthless, ClaimsNow, SeriesClaims
<1>3. UnitAmounts \subseteq Nat
  BY InputsAssumption
<1>4. \E logs : Call(logs) /\ Turns(logs, Nothing)
  BY <1>1, <1>2, <1>3, CreateSeriesTurns, FinalizeTurns, StopIssuanceTurns, CloseSeriesTurns,
     BurnWorthlessTurns DEF SeriesChange
<1> QED
  BY <1>4, CallRemembered

LEMMA SwapCallRemembers ==
    ASSUME Sound, Framed, ClaimsKept, Followed, Remembered, NEW s \in AllSeries,
           NEW h \in Holders, NEW inFirst \in BOOLEAN, SwapCall(s, h, inFirst)
    PROVE  Remembered'
<1>1. ASSUME NEW kind \in Kinds, NEW in \in Nat, NEW out \in Nat,
             EnterSwap(Frame(s, kind, h, in, out, inFirst)), UNCHANGED entities,
             NEW logs, Turns(logs, DueOf(Frame(s, kind, h, in, out, inFirst))),
             log' = log \o logs
      PROVE  Remembered'
  <2> DEFINE f == Frame(s, kind, h, in, out, inFirst)
  <2>1. PICK S : stack \in Seq(Frames(S)) /\ f \in Frames(S)
    BY <1>1, EnterFramed
  <2>2. f.saved = Snapshot
    BY DEF Frame
  <2>3. stack' = Append(stack, f)
    BY <1>1 DEF EnterSwap
  <2>4. Turns(logs, DueOf(f)) /\ UNCHANGED entities /\ log' = log \o logs
    BY <1>1
  <2> HIDE DEF f
  <2> DEFINE R == Frames(S)
  <2>5. stack \in Seq(R) /\ f \in R
    BY <2>1
  <2> HIDE DEF R
  <2>6. Entered(stack', stack, f)
    BY <2>3, <2>5, AppendProperties, LenProperties DEF Entered
  <2> QED
    BY <2>2, <2>4, <2>6, SwapRemembered
<1>2. CASE \E ask \in Nat, exactIn \in BOOLEAN, a \in Nat :
                SwapIssue(s, h, ask, exactIn, a, inFirst)
  <2>1. PICK ask \in Nat, exactIn \in BOOLEAN, a \in Nat :
                SwapIssue(s, h, ask, exactIn, a, inFirst)
    BY <1>2
  <2> DEFINE fill == IssueFill(s, ask, exactIn, a)
             f == Frame(s, "ISSUE", h, fill.premium, fill.units, inFirst)
  <2>2. EnterSwap(f)
    BY <2>1 DEF SwapIssue
  <2>3. fill.premium \in Nat /\ fill.units \in Nat
    BY <2>1, IssueFillNat DEF SwapIssue
  <2>4. PICK logs : Emit(logs, FALSE) /\ Turns(logs, DueOf(f))
    BY ZenonT(60), <2>1, SwapIssueTurns
  <2>5. log' = log \o logs /\ UNCHANGED entities
    BY <2>4 DEF Emit
  <2> HIDE DEF fill
  <2> QED
    BY <1>1, <2>2, <2>3, <2>4, <2>5 DEF Kinds
<1>3. CASE \E kind \in {"EXIT", "SETTLE"}, in \in Nat, paid \in Nat :
                SwapPayout(s, kind, h, in, paid, inFirst)
  <2>1. PICK kind \in {"EXIT", "SETTLE"}, in \in Nat, paid \in Nat :
                SwapPayout(s, kind, h, in, paid, inFirst)
    BY <1>3
  <2> DEFINE f == Frame(s, kind, h, in, paid, inFirst)
  <2>2. EnterSwap(f) /\ UNCHANGED <<log, entities, series, receipts, aqua, balance>>
    BY <2>1 DEF SwapPayout, chain, ledger
  <2>3. Turns(<< >>, DueOf(f))
    BY <2>2, SwapPayoutTurns
  <2>4. log' = log \o << >>
    <3>1. PICK T : log \in Seq(T)
      BY DEF Followed, IsLogs
    <3> QED
      BY <2>2, <3>1, ConcatEmptySeq
  <2> QED
    BY <1>1, <2>2, <2>3, <2>4 DEF Kinds
<1> QED
  BY <1>2, <1>3, SwapCalls

LEMMA NextRemembers ==
    ASSUME Sound, Framed, ClaimsKept, Followed, Remembered, isVault, [Next]_vars
    PROVE  Remembered'
<1>1. CASE TransferIn
  BY <1>1, TransferInTurns, TransferRemembered
<1>2. CASE TransferOut
  BY <1>2, TransferOutTurns, TransferRemembered
<1>3. CASE Revert
  BY <1>3, RevertRemembered
<1> QED
  BY <1>1, <1>2, <1>3, NextCases, ElsewhereRemembers, SeriesChangeRemembers, SwapCallRemembers

\* The vault's creation leaves the books at nothing.
LEMMA CreateVaultRemembers ==
    ASSUME Bare, CreateVault
    PROVE  Remembered'
<1> DEFINE e == [source |-> "market", event |-> "VaultCreated"]
           d == Handle(NoEntities, e)
<1>1. /\ Call(<<e>>)
      /\ UNCHANGED <<series, receipts, aqua, balance>>
  BY DEF CreateVault, chain, ledger
<1>2. /\ series' = [s \in AllSeries |-> NoSeries]
      /\ receipts' = [s \in AllSeries |-> [a \in Accounts |-> 0]]
      /\ aqua' = [s \in AllSeries |-> [k \in Kinds |-> Docked]]
      /\ balance' = 0
  BY <1>1 DEF Bare
<1>3. Whole(d, series', receipts', aqua') /\ \A b \in Books : OpenIn(d, balance', b) = 0
  BY <1>2, VaultCreatedRemembered
<1> HIDE DEF e, d
<1>4. << >> \o <<e>> = Append(<< >>, e) /\ << >> \in Seq({e})
  <2>1. << >> \in Seq({e})
    BY EmptySeq
  <2> QED
    BY <2>1, AppendIsConcat
<1>5. /\ stack' = << >> /\ log' = << >>
      /\ entities' = Folded(NoEntities, << >> \o <<e>>)
  <2>1. stack = << >> /\ log = << >> /\ entities = NoEntities
    BY DEF Bare
  <2>2. UNCHANGED stack /\ Emit(<<e>>, stack = << >>)
    BY <1>1 DEF Call
  <2> QED
    BY <2>1, <2>2 DEF Emit, Folded
<1>6. entities' = d
  <2>1. Folded(NoEntities, Append(<< >>, e)) = Handle(Folded(NoEntities, << >>), e)
    BY ZenonT(60), <1>4, FoldAppend
  <2> QED
    BY <1>4, <1>5, <2>1, FoldNothing DEF d
<1>7. Folded(entities', log') = d
  BY <1>5, <1>6, FoldNothing
<1>8. Len(stack') = 0
  BY <1>5, EmptySeq
<1>9. Balanced(entities', log', stack', balance')
  <2>1. ASSUME NEW b \in Books
        PROVE  InStep(Len(stack'), Offs(entities', stack', b), Dues(stack', b),
                      OpenIn(Folded(entities', log'), balance', b))
    <3> DEFINE open == OpenIn(Folded(entities', log'), balance', b)
               off == Offs(entities', stack', b)
               half == Dues(stack', b)
    <3>1. open = 0
      BY <1>3, <1>7
    <3>2. 1..0 = {}
      OBVIOUS
    <3> HIDE DEF open, off, half
    <3>3. InStep(0, off, half, open)
      BY <3>1, <3>2 DEF InStep
    <3> QED
      BY <1>8, <3>3 DEF open, off, half
  <2> QED
    BY <2>1 DEF Balanced
<1>10. \A i \in 1..Len(stack') : WholeSaved(entities', stack'[i].saved)
  BY <1>8
<1> QED
  BY <1>3, <1>7, <1>9, <1>10, RememberedNext

\* Only its creation makes a vault.
LEMMA CreatesVault ==
    ASSUME Sound, Bare, ~isVault, isVault', [Next]_vars
    PROVE  CreateVault
<1>1. CASE Tick \/ UNCHANGED vars
  BY <1>1 DEF Tick, vars, chain, ledger
<1>2. ~\E a \in Deposits : VaultDeposit(a) \/ VaultWithdrawFree(a)
  BY DEF VaultDeposit, VaultWithdrawFree
<1>3. \A s, n : ~Checkpoint(s, n)
  BY DEF Checkpoint
<1>4. \A s, h, to, u : ~ReceiptTransfer(s, h, to, u)
  BY DEF ReceiptTransfer
<1>5. \A s \in AllSeries : ~SeriesChange(s)
  BY ZenonT(60) DEF SeriesChange, CreateSeries, Finalize, StopIssuance, CloseSeries, BurnWorthless
<1>6. ASSUME NEW s \in AllSeries, NEW h \in Holders, NEW inFirst \in BOOLEAN
      PROVE  ~SwapCall(s, h, inFirst)
  <2>1. \A ask, exactIn, a : ~SwapIssue(s, h, ask, exactIn, a, inFirst)
    BY DEF SwapIssue
  <2>2. \A kind, in, paid : ~SwapPayout(s, kind, h, in, paid, inFirst)
    BY DEF SwapPayout
  <2> QED
    BY <2>1, <2>2, SwapCalls
<1>7. ~TransferIn /\ ~TransferOut /\ ~Revert
  BY DEF Bare, TransferIn, TransferInNext, TransferOut, TransferOutNext, Revert
<1> QED
  BY <1>1, <1>2, <1>3, <1>4, <1>5, <1>6, <1>7, NextCases DEF Elsewhere

\* The inductive invariant: the books are kept in every reachable state.
LEMMA HistoryAlways == Spec => []HistoryKept
<1>1. Init => HistoryKept
  BY DEF Init, HistoryKept
<1>2. Sound /\ Framed /\ ClaimsKept /\ IndexFollows /\ HistoryKept /\ [Next]_vars => HistoryKept'
  <2> SUFFICES ASSUME Sound, Framed, ClaimsKept, IndexFollows, HistoryKept, [Next]_vars, isVault'
               PROVE  Remembered'
    BY DEF HistoryKept
  <2>1. CASE isVault
    BY <2>1, NextRemembers DEF IndexFollows, HistoryKept
  <2>2. CASE ~isVault
    <3>1. Bare
      BY <2>2 DEF IndexFollows
    <3>2. CreateVault
      BY <2>2, <3>1, CreatesVault
    <3> QED
      BY <3>1, <3>2, CreateVaultRemembers
  <2> QED
    BY <2>1, <2>2
<1> QED
  BY <1>1, <1>2, SoundAlways, ClaimsAlways, IndexFollowsAlways, PTL DEF Spec

-----------------------------------------------------------------------------
(* The history once a transaction is over *)

\* The sum over the entities there are is the sum over all series.
LEMMA NetsSum ==
    ASSUME NEW d, NEW C \in SUBSET AllSeries, DOMAIN d.series = C,
           \A s \in C : Net(d.series[s]) \in Int
    PROVE  SumFunction([s \in C |-> Net(d.series[s])]) = SumFunction(Nets(d))
<1> DEFINE f == [s \in C |-> Net(d.series[s])]
           g == Nets(d)
<1>1. /\ DOMAIN f = C /\ DOMAIN g = AllSeries
      /\ \A s \in C : g[s] = f[s] /\ g[s] \in Int
      /\ \A s \in AllSeries \ C : g[s] = 0
      /\ \A s \in AllSeries : g[s] \in Int
  BY DEF Nets
<1> HIDE DEF f, g
<1>2. IsFiniteSet(AllSeries) /\ IsFiniteSet(C) /\ IsFiniteSet(AllSeries \ C)
      /\ AllSeries \ C \in SUBSET AllSeries
  BY SeriesAssumption, FS_Subset
<1>3. SumFunctionOnSet(g, AllSeries)
        = SumFunctionOnSet(g, C) + SumFunctionOnSet(g, AllSeries \ C)
  BY <1>1, <1>2, SumSplit
<1>4. SumFunctionOnSet(g, C) = SumFunctionOnSet(f, C) /\ SumFunctionOnSet(g, C) \in Int
  <2>1. \A s \in C : g[s] = f[s]
    BY <1>1
  <2>2. \A s \in C : g[s] \in Int
    BY <1>1
  <2> QED
    BY <1>2, <2>1, <2>2, SumSameValues, SumInt
<1>5. SumFunctionOnSet(g, AllSeries \ C) = 0
  <2> DEFINE T == AllSeries \ C
             z == [s \in T |-> 0]
  <2>1. z \in [T -> Int] /\ DOMAIN z = T /\ \A s \in T : z[s] = 0
    OBVIOUS
  <2>2. IsFiniteSet(T) /\ \A s \in T : g[s] = 0
    BY <1>1, <1>2
  <2> HIDE DEF T, z
  <2>3. SumFunction(z) = 0
    BY <2>1, <2>2, SumZero
  <2>4. \A s \in T : g[s] = z[s]
    BY <2>1, <2>2
  <2>5. SumFunctionOnSet(g, T) = SumFunctionOnSet(z, T)
    BY <2>2, <2>4, SumSameValues
  <2>6. SumFunctionOnSet(g, T) = 0
    BY <2>1, <2>3, <2>5 DEF SumFunction
  <2> QED
    BY <2>6 DEF T
<1>6. SumFunction(f) = SumFunction(g)
  BY <1>1, <1>3, <1>4, <1>5 DEF SumFunction
<1> QED
  BY <1>6 DEF f, g

\* Once no swap is in flight nothing is open in any book.
LEMMA NothingOpen ==
    ASSUME Followed, Remembered, stack = << >>
    PROVE  /\ Whole(entities, series, receipts, aqua)
           /\ \A b \in Books : OpenIn(entities, balance, b) = 0
<1>1. log = << >>
  BY DEF Followed
<1>2. Folded(entities, log) = entities
  BY <1>1, FoldNothing
<1>3. Len(stack) = 0
  BY EmptySeq
<1>4. ASSUME NEW b \in Books PROVE OpenIn(entities, balance, b) = 0
  <2>1. InStep(Len(stack), Offs(entities, stack, b), Dues(stack, b),
               OpenIn(Folded(entities, log), balance, b))
    BY DEF Remembered, Balanced
  <2> DEFINE off == Offs(entities, stack, b)
             half == Dues(stack, b)
             open == OpenIn(entities, balance, b)
  <2>2. InStep(Len(stack), off, half, open)
    BY <1>2, <2>1
  <2> HIDE DEF off, half, open
  <2>3. open = 0
    BY <1>3, <2>2 DEF InStep
  <2> QED
    BY <2>3 DEF open
<1> QED
  BY <1>2, <1>4 DEF Remembered

\* The fills of a leg are what the entity has booked on it.
LEMMA FillsBooked ==
    ASSUME Whole(entities, series, receipts, aqua),
           \A b \in Books : OpenIn(entities, balance, b) = 0,
           NEW s \in DOMAIN entities.series, NEW leg \in Kinds
    PROVE  entities.fills[<<s, leg>>] = [units |-> Booked(Has(s), leg, "units"),
                                         quote |-> Booked(Has(s), leg, "quote")]
<1> DEFINE w == PastOf(series, receipts, aqua, Opened(entities))
           x == entities.series[s]
           v == entities.fills[<<s, leg>>]
<1>1. w.created = Created(series) /\ SeriesPast(entities, w)
  BY PastFields DEF Whole, Remembers, PastOf
<1> HIDE DEF w
<1>2. s \in w.created /\ s \in AllSeries
  BY <1>1 DEF SeriesPast, Created
<1>3. /\ EntryOf(x, w.out[s]) /\ v \in [units : Int, quote : Int]
  BY <1>1, <1>2 DEF SeriesPast, OrderOf
<1>4. \A what \in Measures : Booked(x, leg, what) \in Int
  BY <1>3 DEF EntryOf
<1>5. v = [units |-> v.units, quote |-> v.quote] /\ v.units \in Int /\ v.quote \in Int
      /\ v.units = v["units"] /\ v.quote = v["quote"]
  BY <1>3
<1> HIDE DEF v, x
<1>6. ASSUME NEW what \in Measures, v[what] \in Int
      PROVE  v[what] = Booked(x, leg, what)
  <2> DEFINE b == <<s, leg, what>>
  <2>1. b \in Books /\ b # Cash /\ b[1] = s /\ b[2] = leg /\ b[3] = what
    BY <1>2 DEF Books, Cash, Kinds
  <2> HIDE DEF b
  <2>2. Opened(entities)[b] = Unfilled(entities, s, leg, what)
    BY <2>1 DEF Opened
  <2>3. Unfilled(entities, s, leg, what) = Booked(x, leg, what) - v[what]
    BY DEF Unfilled, x, v
  <2>4. OpenIn(entities, balance, b) = 0
    BY <2>1
  <2>5. Booked(x, leg, what) - v[what] - 0 = 0 /\ Booked(x, leg, what) \in Int
    BY <1>4, <2>1, <2>2, <2>3, <2>4 DEF OpenIn
  <2> QED
    BY <1>6, <2>5
<1>7. v.units = Booked(x, leg, "units") /\ v.quote = Booked(x, leg, "quote")
  BY <1>5, <1>6 DEF Measures
<1> QED
  BY <1>5, <1>7 DEF v, x, Has

\* However the swaps nested and whichever of them reverted, what the subgraph
\* has added up when a transaction is over is what the contracts hold: the
\* fills are what the controller booked, issued units are burned or
\* outstanding, every account has what its transfers left it, the strategies
\* shipped and not docked are live, and the vault has its deposits and
\* premiums less its withdrawals and payouts.
THEOREM HistoryTheorem == Spec => []HistoryAddsUp
<1>1. ASSUME Sound, Followed, Remembered, stack = << >> PROVE HistoryAddsUp
  <2> DEFINE w == PastOf(series, receipts, aqua, Opened(entities))
             C == DOMAIN entities.series
  <2>1. /\ Whole(entities, series, receipts, aqua)
        /\ \A b \in Books : OpenIn(entities, balance, b) = 0
    BY <1>1, NothingOpen
  <2>2. /\ w.created = Created(series) /\ w.out = Outs(series) /\ w.receipts = receipts
        /\ w.live = Live(aqua)
        /\ VaultPast(entities, w) /\ SeriesPast(entities, w) /\ BalancePast(entities, w)
    BY <2>1, PastFields DEF Whole, Remembers, PastOf
  <2> HIDE DEF w
  <2>3. C = Created(series) /\ C \in SUBSET AllSeries
    BY <2>2 DEF SeriesPast, Created
  <2>4. ASSUME NEW s \in C
        PROVE  /\ entities.fills[<<s, "ISSUE">>] =
                    [units |-> Has(s).unitsIssued, quote |-> Has(s).premiumCollected]
               /\ entities.fills[<<s, "EXIT">>] =
                    [units |-> Has(s).unitsExited, quote |-> Has(s).exitPaid]
               /\ entities.fills[<<s, "SETTLE">>] =
                    [units |-> Has(s).unitsSettled, quote |-> Has(s).settlementPaid]
    <3>1. \A leg \in Kinds : entities.fills[<<s, leg>>] =
                [units |-> Booked(Has(s), leg, "units"), quote |-> Booked(Has(s), leg, "quote")]
      BY <2>1, FillsBooked
    <3> QED
      BY <3>1 DEF Kinds, Booked
  <2>5. ASSUME NEW s \in C
        PROVE  /\ Has(s).unitsIssued = Has(s).unitsExited + Has(s).unitsSettled
                                        + Has(s).unitsBurned + Has(s).outstanding
               /\ Net(Has(s)) \in Int
    <3>1. s \in AllSeries /\ series[s].created
      BY <2>3 DEF Created
    <3>2. /\ Has(s).unitsIssued = Has(s).unitsExited + Has(s).unitsSettled
                                        + Has(s).unitsBurned + w.out[s]
          /\ \A leg \in Kinds, what \in Measures : Booked(Has(s), leg, what) \in Int
      BY <2>2, <2>3 DEF SeriesPast, EntryOf, Has
    <3>3. /\ Has(s).premiumCollected \in Int /\ Has(s).exitPaid \in Int
          /\ Has(s).settlementPaid \in Int
      <4> DEFINE x == Has(s)
      <4>1. /\ Booked(x, "ISSUE", "quote") = x.premiumCollected
            /\ Booked(x, "EXIT", "quote") = x.exitPaid
            /\ Booked(x, "SETTLE", "quote") = x.settlementPaid
        BY DEF Booked
      <4> HIDE DEF x
      <4> QED
        BY <3>2, <4>1 DEF Kinds, Measures, x
    <3>4. Net(Has(s)) \in Int
      BY <3>3 DEF Net
    <3>5. w.out[s] = series[s].outstandingUnits
      BY <2>2, <3>1 DEF Outs
    <3>6. Has(s).outstanding = series[s].outstandingUnits
      <4>1. log = << >> /\ Mirrors(Folded(entities, log), Here)
        BY <1>1 DEF Followed
      <4>2. Mirrors(entities, Here)
        BY <4>1, FoldNothing
      <4>3. Here.series = series /\ Here.samples = samples
        BY DEF Here, View
      <4>4. EntityOf(entities.series[s], s, series[s], samples[s])
        BY <3>1, <4>2, <4>3 DEF Mirrors, SeriesOf
      <4> QED
        BY <4>4 DEF EntityOf, Has
    <3> QED
      BY <3>2, <3>4, <3>5, <3>6
  <2>6. ASSUME NEW s \in C, NEW a \in Accounts
        PROVE  IF <<s, a>> \in DOMAIN entities.balance
               THEN entities.balance[<<s, a>>] = receipts[s][a]
               ELSE receipts[s][a] = 0
    BY <2>2, <2>3 DEF BalancePast, BalanceFor
  <2>7. {o \in AllSeries \X Kinds : /\ <<"StrategyShipped", o>> \in entities.vault.actions
                                    /\ <<"StrategyDocked", o>> \notin entities.vault.actions}
          = {o \in AllSeries \X Kinds : aqua[o[1]][o[2]] # Docked}
    <3>1. ASSUME NEW o \in Orders
          PROVE  /\ <<"StrategyShipped", o>> \in entities.vault.actions
                 /\ <<"StrategyDocked", o>> \notin entities.vault.actions
                 <=> aqua[o[1]][o[2]] # Docked
      BY <2>2 DEF VaultPast, Acted, Live
    <3> QED
      BY <3>1 DEF Orders
  <2>8. balance = entities.vault.totalDeposited - entities.vault.totalWithdrawn
                    + SumFunction([s \in DOMAIN entities.series |->
                          Has(s).premiumCollected - Has(s).exitPaid - Has(s).settlementPaid])
    <3>1. \A s \in C : Net(entities.series[s]) \in Int
      BY <2>5 DEF Has
    <3>2. SumFunction([s \in C |-> Net(entities.series[s])]) = SumFunction(Nets(entities))
      <4> HIDE DEF C
      <4>1. DOMAIN entities.series = C
        BY DEF C
      <4> QED
        BY <2>3, <3>1, <4>1, NetsSum
    <3>3. [s \in C |-> Net(entities.series[s])]
            = [s \in C |-> Has(s).premiumCollected - Has(s).exitPaid - Has(s).settlementPaid]
      BY DEF Net, Has
    <3> DEFINE total == SumFunction(Nets(entities))
    <3>4. Flow(entities) = entities.vault.totalDeposited - entities.vault.totalWithdrawn + total
      BY DEF Flow
    <3>5. balance = Flow(entities)
      <4>1. Cash \in Books /\ Opened(entities)[Cash] = Flow(entities)
        BY DEF Books, Opened
      <4>2. Flow(entities) - balance = 0
        BY <2>1, <4>1 DEF OpenIn
      <4>3. balance \in Int
        BY <1>1 DEF Sound, Ledger
      <4>4. Flow(entities) \in Int
        <5>1. Index = entities
          BY <1>1, FoldNothing DEF Followed, Index
        <5>2. Opened(entities)[Cash] \in Int
          BY <1>1, <4>1, <5>1, OpenedTypes
        <5> QED
          BY <4>1, <5>2
      <4> QED
        BY <4>2, <4>3, <4>4
    <3> QED
      BY <3>2, <3>3, <3>4, <3>5
  <2> QED
    BY <2>4, <2>5, <2>6, <2>7, <2>8 DEF HistoryAddsUp
<1>2. ASSUME Bare PROVE HistoryAddsUp
  <2>1. /\ entities.series = << >> /\ entities.vault = NoVault /\ balance = 0
        /\ aqua = [s \in AllSeries |-> [k \in Kinds |-> Docked]]
    BY <1>2 DEF Bare, NoEntities
  <2>2. /\ DOMAIN << >> = {} /\ NoVault.totalDeposited = 0 /\ NoVault.totalWithdrawn = 0
        /\ NoVault.actions = {}
    BY DEF NoVault
  <2>3. \A o \in AllSeries \X Kinds : aqua[o[1]][o[2]] = Docked
    BY <2>1
  <2> DEFINE f == [s \in DOMAIN entities.series |->
                      Has(s).premiumCollected - Has(s).exitPaid - Has(s).settlementPaid]
  <2>4. SumFunction(f) = 0
    <3>1. DOMAIN f = {}
      BY <2>1, <2>2
    <3> HIDE DEF f
    <3> QED
      BY <3>1, SumOfNothing DEF SumFunction
  <2>5. balance = entities.vault.totalDeposited - entities.vault.totalWithdrawn + SumFunction(f)
    <3> HIDE DEF f
    <3> QED
      BY <2>1, <2>2, <2>4
  <2> QED
    BY <2>1, <2>2, <2>3, <2>5 DEF HistoryAddsUp
<1>3. Sound /\ IndexFollows /\ HistoryKept => HistoryAddsUp
  <2>1. stack # << >> => HistoryAddsUp
    BY DEF HistoryAddsUp
  <2> QED
    BY <1>1, <1>2, <2>1 DEF IndexFollows, HistoryKept
<1> QED
  BY <1>3, SoundAlways, IndexFollowsAlways, HistoryAlways, PTL
=============================================================================

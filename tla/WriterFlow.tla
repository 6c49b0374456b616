----------------------------- MODULE WriterFlow -----------------------------
(***************************************************************************)
(* The writer's transaction flows of the web application                   *)
(* (web/src/lib/tx.ts): an asynchronous function per operation, run by the *)
(* useTxFlow hook of one browser tab against a wallet and a chain.  Every  *)
(* await is a step: the chain, the wallet, the clock and the other tabs of *)
(* the same origin move in between, and a tab may be reloaded, which drops *)
(* the running function but neither the transactions it broadcast nor the  *)
(* localStorage checkpoint of the series flow.                             *)
(*                                                                         *)
(* One writer, one vault, one set of terms: the terms differ only in the   *)
(* start hour the form derives from the clock, so the hour stands for the  *)
(* checkpoint key.  Amounts are in units of collateral.                    *)
(***************************************************************************)
EXTENDS Integers, Sequences, FiniteSetsExt

CONSTANTS
    Tabs,       \* browser tabs of the writer, on one origin
    Sessions,   \* what may be open, a page or "none" for each tab, and what
                \* the vault then has free
    Need,       \* collateral the terms commit (maxSeriesLiability)
    LastHour,   \* bound of the clock
    MaxTxs,     \* bound on the transactions broadcast
    Timeouts,   \* may a wait for a receipt give up
    ReloadAt    \* points of a flow at which the tab may be reloaded

ASSUME SessionsKnown ==
    Sessions \subseteq [page : [Tabs -> {"none", "write", "vault", "pairs"}], free : 0..Need]

ASSUME WriterBounds ==
    /\ Need \in Nat \ {0}
    /\ LastHour \in Nat
    /\ MaxTxs \in Nat
    /\ Timeouts \in BOOLEAN

VARIABLES
    hour,       \* the start hour the form derives from the clock
    chain,      \* the vault on chain, the allowance it has, what was made
    pool,       \* every transaction broadcast, in nonce order
    storage,    \* localStorage: start hour -> broadcast creation, 0 if none
    tab         \* per tab: the flow it runs and what it shows

writerVars == <<hour, chain, pool, storage, tab>>

\* The flows the components of a page start: WriteWizard, the deposit and
\* withdrawal of an existing vault, CreateGroupForm and ExitBufferCard.
FlowsOf(page) ==
    CASE page = "write" -> {"series"}
      [] page = "vault" -> {"deposit", "withdraw"}
      [] page = "pairs" -> {"group", "allocate"}
      [] page = "none"  -> {}

\* The step list each flow renders (the *_PLAN constants).
Plan(kind) ==
    CASE kind \in {"series", "group"} -> {"vault", "approve", "fund", "create"}
      [] kind = "allocate" -> {"approve", "fund", "create"}
      [] kind = "deposit"  -> {"approve", "fund"}
      [] kind = "withdraw" -> {"create"}

\* Phases of a step still in progress; the others are "todo", "confirmed",
\* "skipped", "failed" and "rejected".
Busy == {"preparing", "confirm", "pending"}

\* A tab with no flow running: pc "idle".
NoTab(page, seen) ==
    [page |-> page, pc |-> "idle", flow |-> "none", key |-> 0, topUp |-> -1, deposit |-> 0,
     job |-> "none", tx |-> 0, seen |-> seen, steps |-> <<>>,
     result |-> 0]

WriterInit ==
    /\ hour = 0
    /\ chain \in [vault : BOOLEAN, free : 0..Need, allowed : {0},
                  made : {0}, shown : {0}, lost : {FALSE}, opened : 0..Need]
    /\ chain.opened = chain.free
    /\ ~chain.vault => chain.free = 0
    /\ pool = <<>>
    /\ storage = [h \in 0..LastHour |-> 0]
    /\ \E s \in Sessions :
          chain.free = s.free /\ tab = [t \in Tabs |-> NoTab(s.page[t], 0)]

-----------------------------------------------------------------------------
(* Helpers of a flow: reporting, sending, failing.                         *)

\* useTxFlow's reporter: a key that is not in the plan changes nothing.
ReportPhase(steps, key, phase) ==
    [k \in DOMAIN steps |-> IF k = key THEN phase ELSE steps[k]]

\* The key each transaction is reported under.  The series flow creates its
\* vault through runCreateVault, which reports under its own plan's key.
StepKey(kind, job) ==
    IF job = "vault" /\ kind = "series" THEN "createVault" ELSE job

\* History: a deposit no tab waits for any more may still be mined.
Waits(r) ==
    r.pc \in {"hash", "await"} /\ r.job = "fund" /\ pool[r.tx].status = "sent"

Losing(c, r) == [c EXCEPT !.lost = @ \/ Waits(r)]

Send(r, job) ==
    [r EXCEPT !.pc = "simulate", !.job = job,
              !.steps = ReportPhase(r.steps, StepKey(r.flow, job), "preparing")]

\* The hook's catch: every step still in progress is marked with the error.
Mark(steps, phase) ==
    [k \in DOMAIN steps |-> IF steps[k] \in Busy THEN phase ELSE steps[k]]

Fail(r, phase) ==
    [r EXCEPT !.pc = "idle", !.job = "none",
              !.steps = Mark(r.steps, phase)]

Finish(r, tx) == [r EXCEPT !.pc = "idle", !.job = "none", !.result = tx]

\* What the next step is once the transaction of `job` is confirmed.
AskFree(r)       == [r EXCEPT !.pc = "readFree"]
AskAllowance(r)  == [r EXCEPT !.pc = "allow",
                              !.steps = ReportPhase(r.steps, "approve", "preparing")]
AskCheckpoint(r) == [r EXCEPT !.pc = "checkpoint"]

FundingDone(r) ==
    CASE r.flow = "deposit" -> Finish(r, r.tx)
      [] r.flow = "series"  -> AskCheckpoint(r)
      [] OTHER              -> Send(r, "create")

Proceed(r) ==
    CASE r.job = "vault"   -> AskFree(r)
      [] r.job = "approve" -> Send(r, "fund")
      [] r.job = "fund"    -> FundingDone(r)
      [] r.job = "create"  -> Finish(r, r.tx)

\* The last transaction of a flow, where it takes free collateral out or
\* creates the series.
Spends(kind, job)  == job = "create" /\ kind \in {"allocate", "withdraw"}
Creates(kind, job) == job = "create" /\ kind = "series"

\* Mutant: the deposit is not limited by the allowance.
SucceedsUnapproved(c, kind, job, amount) ==
    CASE job \in {"vault", "approve"} -> TRUE
      [] Spends(kind, job)            -> c.vault /\ c.free >= amount
      [] OTHER                        -> c.vault

\* Would the transaction of `job` succeed in the chain's present state?
\* createVault and approve always do; the deposit pulls an allowance; an
\* allocation and a withdrawal need free collateral.
Succeeds(c, kind, job, amount) ==
    CASE job \in {"vault", "approve"} -> TRUE
      [] job = "fund"                 -> c.vault /\ c.allowed >= amount
      [] Spends(kind, job)            -> c.vault /\ c.free >= amount
      [] OTHER                        -> c.vault

Apply(c, tx) ==
    CASE tx.job = "vault"   -> [c EXCEPT !.vault = TRUE]
      [] tx.job = "approve" -> [c EXCEPT !.allowed = tx.amount]
      [] tx.job = "fund"    -> [c EXCEPT !.allowed = @ - tx.amount,
                                         !.free = @ + tx.amount]
      [] Spends(tx.flow, tx.job)   -> [c EXCEPT !.free = @ - tx.amount]
      [] Creates(tx.flow, tx.job)  -> [c EXCEPT !.made = @ + 1]
      [] OTHER                     -> c

Amount(r, job) == IF job \in {"approve", "fund"} THEN r.deposit ELSE Need

-----------------------------------------------------------------------------
(* Starting a flow.  The hook resets the steps, then calls the function up *)
(* to its first await.                                                     *)

Begin(t, kind) ==
    [NoTab(tab[t].page, tab[t].seen) EXCEPT
        !.flow = kind, !.key = hour,
        !.steps = [k \in Plan(kind) |-> "todo"]]

Open == {t \in Tabs : tab[t].page # "none"}

\* Bounds: with a second tab open, or an hour later, there is one transaction
\* less; with a second tab, one hour less.
Room == Len(pool) + Cardinality(Open) + hour <= MaxTxs
Later == hour < LastHour /\ hour + Cardinality(Open) <= LastHour

CanStart(t, kind) ==
    /\ kind \in FlowsOf(tab[t].page)
    /\ tab[t].pc = "idle"
    /\ Room

AskVault(r) == [r EXCEPT !.pc = "readVault",
                         !.steps = ReportPhase(r.steps, "vault", "preparing")]

\* WriteWizard.submit: the deposit is computed from the vault balance the
\* page last read, 0 until the first read arrives.
TopUp(seen) == IF Need > seen THEN Need - seen ELSE 0

SubmitSeries(t) ==
    /\ CanStart(t, "series")
    /\ tab' = [tab EXCEPT ![t] =
                 AskVault([Begin(t, "series") EXCEPT !.topUp = TopUp(tab[t].seen)])]
    /\ UNCHANGED <<hour, chain, pool, storage>>

\* CreateGroupForm.submit passes no depositAmount.
SubmitGroup(t) ==
    /\ CanStart(t, "group")
    /\ tab' = [tab EXCEPT ![t] = AskVault(Begin(t, "group"))]
    /\ UNCHANGED <<hour, chain, pool, storage>>

SubmitAllocate(t) ==
    /\ CanStart(t, "allocate")
    /\ chain.vault
    /\ tab' = [tab EXCEPT ![t] = AskFree(Begin(t, "allocate"))]
    /\ UNCHANGED <<hour, chain, pool, storage>>

SubmitDeposit(t) ==
    /\ CanStart(t, "deposit")
    /\ chain.vault
    /\ tab' = [tab EXCEPT ![t] =
                 AskAllowance([Begin(t, "deposit") EXCEPT !.deposit = Need])]
    /\ UNCHANGED <<hour, chain, pool, storage>>

SubmitWithdraw(t) ==
    /\ CanStart(t, "withdraw")
    /\ chain.vault
    /\ tab' = [tab EXCEPT ![t] = Send(Begin(t, "withdraw"), "create")]
    /\ UNCHANGED <<hour, chain, pool, storage>>

-----------------------------------------------------------------------------
(* The steps of a running flow.                                            *)

ReadVault(t) ==
    LET r == tab[t] IN
    /\ r.pc = "readVault"
    /\ tab' = [tab EXCEPT ![t] =
                 IF chain.vault
                 THEN AskFree([r EXCEPT !.steps = ReportPhase(r.steps, "vault", "skipped")])
                 ELSE Send(r, "vault")]
    /\ UNCHANGED <<hour, chain, pool, storage>>

\* Mutant: the collateral already free is not counted.
WholeNeed(c) == IF c.free < Need THEN Need ELSE 0

Shortfall(c) == IF Need > c.free THEN Need - c.free ELSE 0

Deposit(r, c) == IF r.topUp # -1 THEN r.topUp ELSE Shortfall(c)

ReadFree(t) ==
    LET r == [tab[t] EXCEPT !.deposit = Deposit(tab[t], chain)]
        s == ReportPhase(ReportPhase(r.steps, "approve", "skipped"), "fund", "skipped")
    IN
    /\ r.pc = "readFree"
    /\ tab' = [tab EXCEPT ![t] =
                 IF r.deposit > 0 THEN AskAllowance(r)
                                  ELSE FundingDone([r EXCEPT !.steps = s])]
    /\ UNCHANGED <<hour, chain, pool, storage>>

\* ensureAllowance: a sufficient allowance skips the approval.
EnsureAllowance(t) ==
    LET r == tab[t] IN
    /\ r.pc = "allow"
    /\ tab' = [tab EXCEPT ![t] =
                 IF chain.allowed >= r.deposit
                 THEN Send([r EXCEPT !.steps = ReportPhase(r.steps, "approve", "skipped")], "fund")
                 ELSE Send(r, "approve")]
    /\ UNCHANGED <<hour, chain, pool, storage>>

Simulate(t) ==
    LET r == tab[t] IN
    /\ r.pc = "simulate"
    /\ tab' = [tab EXCEPT ![t] =
                 IF Succeeds(chain, r.flow, r.job, Amount(r, r.job))
                 THEN [r EXCEPT !.pc = "confirm",
                                !.steps = ReportPhase(r.steps, StepKey(r.flow, r.job), "confirm")]
                 ELSE Fail(r, "failed")]
    /\ UNCHANGED <<hour, chain, pool, storage>>

\* The wallet signs and broadcasts; the page has not seen the hash yet.
Confirm(t) ==
    LET r == tab[t] IN
    /\ r.pc = "confirm"
    /\ Room
    /\ pool' = Append(pool, [flow |-> r.flow, job |-> r.job, key |-> r.key,
                             amount |-> Amount(r, r.job), status |-> "sent"])
    /\ tab' = [tab EXCEPT ![t].pc = "hash", ![t].tx = Len(pool) + 1]
    /\ UNCHANGED <<hour, chain, storage>>

RejectPrompt(t) ==
    /\ tab[t].pc = "confirm"
    /\ tab' = [tab EXCEPT ![t] = Fail(tab[t], "rejected")]
    /\ UNCHANGED <<hour, chain, pool, storage>>

\* Mutant: the checkpoint is only written once the receipt is there.
HashUnsaved(t) ==
    LET r == tab[t] IN
    /\ r.pc = "hash"
    /\ tab' = [tab EXCEPT ![t].pc = "await",
                          ![t].steps = ReportPhase(@, StepKey(r.flow, r.job), "pending")]
    /\ UNCHANGED <<hour, chain, pool, storage>>

\* The hash reaches the page: onHash saves the checkpoint of a creation.
Hash(t) ==
    LET r == tab[t] IN
    /\ r.pc = "hash"
    /\ storage' = IF Creates(r.flow, r.job) THEN [storage EXCEPT ![r.key] = r.tx] ELSE storage
    /\ tab' = [tab EXCEPT ![t].pc = "await",
                          ![t].steps = ReportPhase(@, StepKey(r.flow, r.job), "pending")]
    /\ UNCHANGED <<hour, chain, pool>>

\* A creation that finished clears its checkpoint and is shown as a result.
Shown(r, new) ==
    /\ storage' = IF Creates(r.flow, r.job) THEN [storage EXCEPT ![r.key] = 0] ELSE storage
    /\ chain' = [chain EXCEPT !.shown = IF Creates(r.flow, r.job) THEN @ + 1 ELSE @]

Await(t) ==
    LET r == tab[t]
        s == ReportPhase(r.steps, StepKey(r.flow, r.job), "confirmed")
    IN
    /\ r.pc = "await"
    /\ \/ /\ pool[r.tx].status = "mined"
          /\ tab' = [tab EXCEPT ![t] = Proceed([r EXCEPT !.steps = s])]
          /\ Shown(r, r.tx)
       \/ /\ pool[r.tx].status = "reverted"
          /\ tab' = [tab EXCEPT ![t] = Fail(r, "failed")]
          /\ UNCHANGED <<chain, storage>>
    /\ UNCHANGED <<hour, pool>>

\* Mutant: the wait has no timeout of its own.
GiveUpOnDrop(t) ==
    LET r == tab[t] IN
    /\ Timeouts
    /\ r.pc \in {"await", "recover"}
    /\ pool[r.tx].status = "dropped"
    /\ tab' = [tab EXCEPT ![t] = Fail(r, "failed")]
    /\ UNCHANGED <<hour, chain, pool, storage>>

\* waitForTransactionReceipt gives up; the transaction may still be mined.
GiveUp(t) ==
    LET r == tab[t] IN
    /\ Timeouts
    /\ r.pc \in {"await", "recover"}
    /\ pool[r.tx].status \in {"sent", "dropped"}
    /\ tab' = [tab EXCEPT ![t] = Fail(r, "failed")]
    /\ chain' = Losing(chain, r)
    /\ UNCHANGED <<hour, pool, storage>>

\* The checkpoint of these terms decides whether a creation is sent.
LoadCheckpoint(t) ==
    LET r     == tab[t]
        saved == storage[r.key]
    IN
    /\ r.pc = "checkpoint"
    /\ tab' = [tab EXCEPT ![t] =
                 IF saved = 0 THEN Send(r, "create")
                 ELSE [r EXCEPT !.pc = "recover", !.tx = saved,
                                !.steps = ReportPhase(r.steps, "create", "pending")]]
    /\ UNCHANGED <<hour, chain, pool, storage>>

\* Mutant: what is announced is the checkpoint saved by then.
RecoverStored(t) ==
    LET r == [tab[t] EXCEPT !.job = "create",
                            !.steps = ReportPhase(tab[t].steps, "create", "confirmed")]
    IN
    /\ r.pc = "recover"
    /\ \/ /\ pool[r.tx].status = "mined"
          /\ tab' = [tab EXCEPT ![t] = Finish(r, storage[r.key])]
          /\ Shown(r, r.tx)
       \/ /\ pool[r.tx].status = "reverted"
          /\ tab' = [tab EXCEPT ![t] = Fail(tab[t], "failed")]
          /\ storage' = [storage EXCEPT ![r.key] = 0]
          /\ UNCHANGED chain
    /\ UNCHANGED <<hour, pool>>

Recover(t) ==
    LET r == [tab[t] EXCEPT !.job = "create",
                            !.steps = ReportPhase(tab[t].steps, "create", "confirmed")]
    IN
    /\ r.pc = "recover"
    /\ \/ /\ pool[r.tx].status = "mined"
          /\ tab' = [tab EXCEPT ![t] = Finish(r, r.tx)]
          /\ Shown(r, r.tx)
       \/ /\ pool[r.tx].status = "reverted"
          /\ tab' = [tab EXCEPT ![t] = Fail(tab[t], "failed")]
          /\ storage' = [storage EXCEPT ![r.key] = 0]
          /\ UNCHANGED chain
    /\ UNCHANGED <<hour, pool>>

-----------------------------------------------------------------------------
(* The environment: clock, chain, wallet's pool, page reloads, polling.    *)

\* useWriterVault polls; until then the wizard reads 0.
Refetch(t) ==
    /\ tab[t].page = "write"
    /\ tab' = [tab EXCEPT ![t].seen = chain.free]
    /\ UNCHANGED <<hour, chain, pool, storage>>

NextHour ==
    /\ Later
    /\ \E t \in Tabs : tab[t].page = "write"
    /\ hour' = hour + 1
    /\ UNCHANGED <<chain, pool, storage, tab>>

\* Transactions of one account are mined in nonce order; one may revert for
\* reasons outside the model (gas, a sale end that passed).
InPool(i) == pool[i].status = "sent"
Turn(i)    == InPool(i) /\ \A j \in 1..(i - 1) : ~InPool(j)

Mine(i) ==
    /\ Turn(i)
    /\ Succeeds(chain, pool[i].flow, pool[i].job, pool[i].amount)
    /\ chain' = Apply(chain, pool[i])
    /\ pool' = [pool EXCEPT ![i].status = "mined"]
    /\ UNCHANGED <<hour, storage, tab>>

Revert(i) ==
    /\ Turn(i)
    /\ pool' = [pool EXCEPT ![i].status = "reverted"]
    /\ UNCHANGED <<hour, chain, storage, tab>>

Drop(i) ==
    /\ Timeouts
    /\ Turn(i)
    /\ pool' = [pool EXCEPT ![i].status = "dropped"]
    /\ UNCHANGED <<hour, chain, storage, tab>>

Reload(t) ==
    /\ tab[t].pc \in ReloadAt
    /\ tab' = [tab EXCEPT ![t] = NoTab(tab[t].page, 0)]
    /\ chain' = Losing(chain, tab[t])
    /\ UNCHANGED <<hour, pool, storage>>

TabStep(t) ==
    \/ ReadVault(t) \/ ReadFree(t) \/ EnsureAllowance(t) \/ Simulate(t) \/ Hash(t)
    \/ Await(t) \/ LoadCheckpoint(t) \/ Recover(t)

WriterNext ==
    \/ \E t \in Tabs :
          \/ SubmitSeries(t) \/ SubmitGroup(t) \/ SubmitAllocate(t)
          \/ SubmitDeposit(t) \/ SubmitWithdraw(t)
          \/ ReadVault(t) \/ ReadFree(t) \/ EnsureAllowance(t) \/ Simulate(t) \/ Hash(t)
          \/ Await(t) \/ LoadCheckpoint(t) \/ Recover(t)
          \/ Confirm(t) \/ RejectPrompt(t) \/ GiveUp(t) \/ Refetch(t) \/ Reload(t)
    \/ NextHour
    \/ \E i \in DOMAIN pool : Mine(i) \/ Revert(i) \/ Drop(i)

\* A page's own code runs on and viem's wait ends by itself; nobody is
\* obliged to answer the wallet, to mine a transaction or to press a button.
WriterFairness == \A t \in Tabs : WF_writerVars(TabStep(t)) /\ WF_writerVars(GiveUp(t))

WriterSpec == WriterInit /\ [][WriterNext]_writerVars /\ WriterFairness

-----------------------------------------------------------------------------
(* Properties.                                                             *)

\* tx.ts, the checkpoint of the create flow: "a page reload between 'wallet
\* confirmed' and 'receipt mined' resumes instead of creating a second
\* series".  With one tab open, at most one series exists that no flow has
\* reported yet.
NoSecondSeries == Cardinality(Open) = 1 => chain.made <= chain.shown + 1

\* The same while the form derives the same start hour.
ResumesNotRepeats == hour = 0 => NoSecondSeries

\* runCreateGroup, runAllocateExitBuffer: only the shortfall is taken from the
\* wallet, so deposits never lift the vault's free collateral above what the
\* terms need or what it held, however often a flow fails and is started
\* again in one tab, unless the page stopped waiting for a deposit that was
\* still pending.  (The wizard trusts the balance its page last read instead.)
OnlyShortfallPulled ==
    Cardinality(Open) = 1 /\ (\A t \in Open : tab[t].page = "pairs") /\ ~chain.lost
        => chain.free <= Max({chain.opened, Need})

\* The series a flow announces was mined, under the terms of that flow, also
\* when another tab of the writer saved or cleared the checkpoint meanwhile.
ResultIsReal ==
    \A t \in Tabs : tab[t].result # 0 =>
        /\ pool[tab[t].result].status = "mined"
        /\ tab[t].flow = "series" => pool[tab[t].result].key = tab[t].key

\* useTxFlow's finally: a flow ends, with a result or an error, unless the
\* wallet prompt is never answered, however the chain treats what was sent.
FlowEnds ==
    \A t \in Tabs : tab[t].pc # "idle" ~> tab[t].pc \in {"idle", "confirm"}
=============================================================================

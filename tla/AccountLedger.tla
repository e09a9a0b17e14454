---------------------------- MODULE AccountLedger ----------------------------
(***************************************************************************)
(* The ledger of fills and cash (store.py) against the broker's account. A *)
(* snapshot reads the orders first and the balance last (census); its      *)
(* readers reconcile it later, one at a time and not always in the order   *)
(* of the reads (Executor.reconcile): each order's cumulative fill is      *)
(* booked (apply_cumulative_fill), positions are compared, the account's   *)
(* cash is reconciled (reconcile_account_cash) and the operator's evidence *)
(* about unexplained cash is applied (resolve_cash_adjustments).           *)
(***************************************************************************)
EXTENDS Integers, Sequences, FiniteSetsExt

CONSTANTS Orders,           \* the strategy's orders, as naturals in rowid order
          Instruments, Instrument, Side, Quantity,
          Prices, Fee,      \* what one execution may cost, and its commission
          Capital, Adopted, \* cash and positions when the account was adopted
          MaxReads, MaxBusts, MaxTransfers, MaxEvidence, MaxLives

ASSUME LedgerAssumption ==
    /\ Orders \subseteq Nat /\ IsFiniteSet(Orders) /\ Prices \subseteq Nat \ {0} /\ Fee \in Nat
    /\ Instrument \in [Orders -> Instruments] /\ Side \in [Orders -> {"BUY", "SELL"}]
    /\ Quantity \in [Orders -> Nat \ {0}]
    /\ Capital \in Nat /\ Adopted \in [Instruments -> Nat]

VARIABLES
    whole,        \* the strategy owns the whole account (bootstrap.whole_account)
    exec,         \* executions of each order at the broker
    transfers,    \* deposits and withdrawals so far
    reported,     \* costs in the broker's daily report
    busts,
    reads,        \* snapshots begun
    reading,      \* the snapshot being read
    revs,         \* revision and content of the last observation of each order
    views,        \* complete snapshots not reconciled yet
    engine,       \* the reconciliation under dispatch_lock
    booked,       \* cumulative fill of each order in the ledger
    unsettled,    \* orders with unconfirmed costs (unconfirmed_cost:<id>)
    costsComplete, held, cash, tradeDelta, feeDelta, cashReconciled,
    seen,         \* the last account_cash_observation
    pending,      \* unclassified_cash_adjustments
    applied,      \* cash_adjustment_resolutions
    flows,        \* external_flows
    uncertain,    \* performance_uncertain
    reconciled,
    evidence,     \* cash-reconciliation.json
    lives

broker == <<exec, transfers, reported, busts>>
snapshots == <<reads, reading, revs>>
fills == <<booked, unsettled, costsComplete, held>>
deltas == <<cash, tradeDelta, feeDelta>>
flowsKept == <<pending, applied, flows, uncertain>>
ledgerVars == <<whole, broker, snapshots, views, engine, fills, deltas, cashReconciled, seen,
                flowsKept, reconciled, evidence, lives>>

Unknown == -1
Sign(o) == IF Side[o] = "BUY" THEN 1 ELSE -1
Turnover(fill) == SumFunctionOnSet([o \in Orders |-> Sign(o) * fill[o].notional], Orders)
Charged == SumFunctionOnSet([o \in Orders |-> exec[o].fee], Orders)
Total(items) == SumFunctionOnSet([a \in items |-> a.amount], items)
Latest(items) == Max({a.at : a \in items})

\* The broker's account.
BrokerCash == Capital - Turnover(exec) - Charged + transfers
BrokerHolds(i) ==
    Adopted[i] + SumFunctionOnSet([o \in Orders |-> Sign(o) * exec[o].qty],
                                  {o \in Orders : Instrument[o] = i})

NoView == [orders |-> <<>>, costs |-> 0, known |-> FALSE, cash |-> 0, held |-> <<>>, at |-> 0,
           transfers |-> 0, charged |-> 0, turnover |-> 0]
Idle == [at |-> "idle", view |-> NoView, todo |-> {}]

\* The domains of the variables, where a quantity or a revision is bounded by another.
LedgerTypeOK ==
    /\ whole \in BOOLEAN /\ costsComplete \in BOOLEAN /\ cashReconciled \in BOOLEAN
    /\ uncertain \in BOOLEAN /\ reconciled \in BOOLEAN
    /\ exec \in [Orders -> [qty: Nat, notional: Nat, fee: Nat, settled: BOOLEAN, busted: BOOLEAN]]
    /\ \A o \in Orders : booked[o].qty <= Quantity[o] /\ booked[o].fees >= 0
                         /\ booked[o].rev <= revs[o].n
    /\ unsettled \subseteq Orders /\ engine.todo \subseteq Orders
    /\ held \in [Instruments -> Nat]
    /\ cash >= 0 /\ tradeDelta \in Int /\ feeDelta \in Int
    /\ engine.at \in {"idle", "book", "own", "cash", "evidence"}
    /\ pending \subseteq [at: Nat, amount: Int] /\ flows \subseteq [at: Nat, amount: Int]

LedgerInit ==
    /\ whole \in BOOLEAN
    /\ exec = [o \in Orders |-> [qty |-> 0, notional |-> 0, fee |-> 0, settled |-> FALSE,
                                 busted |-> FALSE]]
    /\ transfers = 0 /\ reported = 0 /\ busts = 0 /\ reads = 0 /\ reading = <<>>
    /\ revs = [o \in Orders |-> [n |-> 0, last |-> <<>>]]
    /\ views = {} /\ engine = Idle
    /\ booked = [o \in Orders |-> [qty |-> 0, notional |-> 0, fees |-> 0, rev |-> 0]]
    /\ unsettled = {} /\ costsComplete = TRUE /\ held = Adopted /\ cash = Capital
    /\ tradeDelta = 0 /\ feeDelta = 0 /\ cashReconciled = whole
    /\ seen = [at |-> 0, costs |-> 0, transfers |-> 0, charged |-> 0, agrees |-> TRUE]
    /\ pending = {} /\ applied = {} /\ flows = {} /\ uncertain = FALSE /\ reconciled = TRUE
    /\ evidence = {} /\ lives = 1

----------------------------------------------------------------------------
(* The broker *)

Execute(o, p) ==
    /\ exec[o].qty < Quantity[o]
    /\ IF Side[o] = "BUY" THEN BrokerCash >= p + Fee ELSE BrokerHolds(Instrument[o]) > 0
    /\ exec' = [exec EXCEPT ![o] = [qty |-> @.qty + 1, notional |-> @.notional + p,
                                    fee |-> @.fee + Fee, settled |-> FALSE, busted |-> FALSE]]
    /\ UNCHANGED <<transfers, reported, busts>>

\* Settlement evidence for an order's executions reaches the operator (attributed account).
Settle(o) ==
    /\ ~whole /\ exec[o].qty > 0 /\ ~exec[o].settled
    /\ exec' = [exec EXCEPT ![o].settled = TRUE]
    /\ UNCHANGED <<transfers, reported, busts>>

\* An execution is canceled; the operator's evidence calls it a correction.
Bust(o, p) ==
    /\ ~whole /\ busts < MaxBusts /\ busts' = busts + 1
    /\ exec[o].qty > 0 /\ exec[o].notional - p \in IF exec[o].qty = 1 THEN {0} ELSE Prices
    /\ Side[o] = "BUY" => BrokerHolds(Instrument[o]) > 0
    /\ exec' = [exec EXCEPT ![o] = [qty |-> @.qty - 1, notional |-> @.notional - p,
                                    fee |-> @.fee - Fee, settled |-> TRUE, busted |-> TRUE]]
    /\ UNCHANGED <<transfers, reported>>

Transfer(amount) ==
    /\ whole /\ transfers = 0 /\ MaxTransfers > 0 /\ BrokerCash + amount >= 0
    /\ transfers' = amount
    /\ UNCHANGED <<exec, reported, busts>>

ReportCosts == whole /\ reported' = Charged /\ UNCHANGED <<exec, transfers, busts>>

BrokerNext ==
    /\ \/ \E o \in Orders, p \in Prices : Execute(o, p) \/ Bust(o, p)
       \/ \E o \in Orders : Settle(o)
       \/ \E amount \in {-1, 2} : Transfer(amount)
       \/ ReportCosts
    /\ UNCHANGED <<whole, snapshots, views, engine, fills, deltas, cashReconciled, seen, flowsKept,
                   reconciled, evidence, lives>>

----------------------------------------------------------------------------
(* _snapshot, _whole_snapshot, census *)

\* A whole-account order has no fees of its own; an attributed one those of its evidence.
Observed(o) ==
    LET e == exec[o] IN
    [qty |-> e.qty, notional |-> e.notional,
     fees |-> IF e.qty = 0 THEN 0 ELSE IF e.settled /\ ~whole THEN e.fee ELSE Unknown,
     correction |-> e.settled /\ e.busted]

\* An observation that differs from the last one gets the next revision.
Revised(o) ==
    IF revs[o].last = Observed(o) THEN revs[o] ELSE [n |-> revs[o].n + 1, last |-> Observed(o)]

\* Orders first, and the daily costs, which may be unavailable.
ReadOrders ==
    /\ reading = <<>> /\ reads < MaxReads /\ Cardinality(views) < 2
    /\ reads' = reads + 1
    /\ revs' = [o \in Orders |-> Revised(o)]
    /\ \E known \in BOOLEAN :
        reading' = [orders |-> [o \in Orders |-> [obs |-> Observed(o), rev |-> Revised(o).n]],
                    costs |-> IF known /\ whole THEN reported ELSE 0, known |-> known /\ whole]
    /\ UNCHANGED <<whole, broker, views, engine, fills, deltas, cashReconciled, seen, flowsKept,
                   reconciled, evidence, lives>>

\* The balance last, "so executions observed above are reflected in positions/cash".
ReadBalance ==
    /\ reading /= <<>> /\ reading' = <<>>
    /\ views' = views \cup
        {[orders |-> reading.orders, costs |-> reading.costs, known |-> reading.known,
          cash |-> BrokerCash, held |-> [i \in Instruments |-> BrokerHolds(i)], at |-> reads,
          transfers |-> transfers, charged |-> Charged, turnover |-> Turnover(exec)]}
    /\ UNCHANGED <<whole, broker, reads, revs, engine, fills, deltas, cashReconciled, seen, flowsKept,
                   reconciled, evidence, lives>>

----------------------------------------------------------------------------
(* Executor.reconcile *)

BeginReconcile ==
    /\ engine.at = "idle"
    /\ \E v \in views : views' = views \ {v} /\ engine' = [at |-> "book", view |-> v, todo |-> Orders]
    /\ UNCHANGED <<whole, broker, snapshots, fills, deltas, cashReconciled, seen, flowsKept,
                   reconciled, evidence, lives>>

\* A read failed: the account is not reconciled until one succeeds.
Incomplete ==
    /\ engine.at = "idle" /\ reading /= <<>> /\ reading' = <<>>
    /\ reconciled' = FALSE /\ cashReconciled' = FALSE
    /\ UNCHANGED <<whole, broker, reads, revs, views, engine, fills, deltas, seen, flowsKept, evidence,
                   lives>>

Current == Min(engine.todo)
Obs == engine.view.orders[Current].obs

Rev == engine.view.orders[Current].rev
Old == booked[Current]

\* Mutant: the revision is not compared.
Fewer == Obs.qty < Old.qty /\ ~Obs.correction

\* An older revision, or fewer executions without a correction, changes nothing.
Ignored == Rev <= Old.rev \/ (Obs.qty < Old.qty /\ ~Obs.correction)

Settlement == Obs.fees /= Unknown /\ Current \in unsettled

\* Unknown fees keep the last confirmed amount.
NewFees == IF Obs.fees = Unknown THEN Old.fees ELSE Obs.fees
Paid == Sign(Current) * (Obs.notional - Old.notional)
Gained == Sign(Current) * (Obs.qty - Old.qty)

\* HumanRequired: amounts changed without evidence, an oversell, an overdraft.
Refused ==
    \/ /\ ~Obs.correction
       /\ \/ Obs.notional < Old.notional
          \/ Obs.qty = Old.qty /\ Obs.notional /= Old.notional
          \/ /\ ~Settlement
             /\ NewFees < Old.fees \/ (Obs.qty = Old.qty /\ NewFees /= Old.fees)
    \/ held[Instrument[Current]] + Gained < 0
    \/ ~whole /\ cash - Paid - (NewFees - Old.fees) < 0

\* Mutant: an order whose costs were confirmed once is never unsettled again.
UnsettledOnce ==
    IF Obs.fees = Unknown /\ Old.qty = 0 THEN unsettled \cup {Current} ELSE
    IF Settlement THEN unsettled \ {Current} ELSE unsettled

Unsettled ==
    IF Obs.fees = Unknown /\ Obs.qty > 0 THEN unsettled \cup {Current} ELSE
    IF Settlement THEN unsettled \ {Current} ELSE unsettled

\* In a whole account cash waits for the balance; otherwise the fill moves it.
BookCash ==
    IF whole THEN /\ tradeDelta' = tradeDelta - Paid
                  /\ feeDelta' = feeDelta + NewFees - Old.fees
                  /\ cashReconciled' = (cashReconciled /\ Gained = 0 /\ Paid = 0 /\ NewFees = Old.fees)
                  /\ UNCHANGED cash
    ELSE cash' = cash - Paid - (NewFees - Old.fees) /\ UNCHANGED <<tradeDelta, feeDelta, cashReconciled>>

\* apply_cumulative_fill, in one transaction.
BookFill ==
    /\ engine.at = "book" /\ engine.todo /= {}
    /\ \/ /\ Ignored
          /\ engine' = [engine EXCEPT !.todo = @ \ {Current}]
          /\ UNCHANGED <<fills, deltas, cashReconciled>>
       \/ /\ ~Ignored /\ Refused
          /\ engine' = Idle
          /\ UNCHANGED <<fills, deltas, cashReconciled>>
       \/ /\ ~Ignored /\ ~Refused
          /\ booked' = [booked EXCEPT ![Current] = [qty |-> Obs.qty, notional |-> Obs.notional,
                                                    fees |-> NewFees, rev |-> Rev]]
          /\ held' = [held EXCEPT ![Instrument[Current]] = @ + Gained]
          /\ unsettled' = Unsettled
          /\ costsComplete' = IF Settlement \/ (Obs.fees = Unknown /\ Obs.qty > 0)
                              THEN Unsettled = {} ELSE costsComplete
          /\ BookCash
          /\ engine' = [engine EXCEPT !.todo = @ \ {Current}]
    /\ UNCHANGED <<whole, broker, snapshots, views, seen, flowsKept, reconciled, evidence, lives>>

\* The snapshot's positions must be those of the ledger.
CheckOwnership ==
    /\ engine.at = "book" /\ engine.todo = {}
    /\ LET ours == engine.view.held = held
       IN /\ reconciled' = ours
          /\ engine' = IF ours THEN [engine EXCEPT !.at = IF whole THEN "cash" ELSE "evidence"] ELSE Idle
    /\ cashReconciled' = FALSE
    /\ UNCHANGED <<whole, broker, snapshots, views, fills, deltas, seen, flowsKept, evidence, lives>>

\* Mutant: any balance is taken.
NeverStale(v) == FALSE

Stale(v) == v.at < seen.at

\* What the booked trades and the reported costs do not explain.
CostDelta(v) == IF v.known THEN v.costs - seen.costs ELSE 0
\* Mutant: the fees booked meanwhile stay in the expected cash only.
ResidualOfTrades(v) == v.cash - (cash + tradeDelta - feeDelta)

Residual(v) == v.cash - (cash + tradeDelta - feeDelta) + CostDelta(v) - feeDelta

\* reconcile_account_cash: an older balance is refused and leaves the account unreconciled.
ReconcileCash ==
    /\ engine.at = "cash"
    /\ LET v == engine.view
           item == {a \in {[at |-> v.at, amount |-> Residual(v)]} : a.amount /= 0}
       IN IF Stale(v)
            THEN /\ reconciled' = FALSE /\ engine' = Idle
                 /\ UNCHANGED <<deltas, cashReconciled, seen, flowsKept>>
            ELSE /\ pending' = pending \cup item /\ uncertain' = (pending' /= {})
                 /\ cash' = v.cash /\ tradeDelta' = 0 /\ feeDelta' = 0
                 /\ cashReconciled' = TRUE
                 /\ seen' = [at |-> v.at, costs |-> IF v.known THEN v.costs ELSE seen.costs,
                             transfers |-> v.transfers, charged |-> v.charged,
                             agrees |-> Turnover(booked) = v.turnover]
                 /\ engine' = [engine EXCEPT !.at = "evidence"]
                 /\ UNCHANGED <<applied, flows, reconciled>>
    /\ UNCHANGED <<whole, broker, snapshots, views, fills, evidence, lives>>

----------------------------------------------------------------------------
(* Evidence about unexplained cash *)

\* The operator writes or rewrites an entry of the file, right or wrong.
WriteEvidence ==
    /\ pending /= {} /\ whole
    /\ \E id \in 1..MaxEvidence, items \in (SUBSET pending) \ {{}},
          kind \in {"CASH_TRANSFER", "INTERNAL_PNL", "BROKER_CORRECTION"}, slip \in {0, 1} :
        LET entry == [id |-> id, items |-> items, kind |-> kind,
                      internal |-> (IF kind = "INTERNAL_PNL" THEN Total(items) ELSE 0) + slip,
                      flow |-> IF kind = "CASH_TRANSFER" THEN Total(items) ELSE 0]
        IN evidence' = {e \in evidence : e.id /= id} \cup {entry} /\ evidence' /= evidence
    /\ UNCHANGED <<whole, broker, snapshots, views, engine, fills, deltas, cashReconciled, seen,
                   flowsKept, reconciled, lives>>

\* Each kind of resolution has to balance.
Balanced(e) ==
    CASE e.kind = "CASH_TRANSFER"     -> e.flow /= 0 /\ e.flow + e.internal = Total(e.items)
      [] e.kind = "INTERNAL_PNL"      -> e.internal = Total(e.items)
      [] e.kind = "BROKER_CORRECTION" -> e.internal = 0 /\ Total(e.items) = 0

Fresh == {e \in evidence : ~\E a \in applied : a.id = e.id}
Reused == \E e \in evidence, a \in applied : a.id = e.id /\ a /= e
FlowsOf(es) == {[at |-> Latest(e.items), amount |-> e.flow] :
                   e \in {x \in es : x.kind = "CASH_TRANSFER"}}

\* Mutant: two entries may explain the same adjustment.
EachHolds == ~Reused /\ \A e \in Fresh : Balanced(e) /\ e.items \subseteq pending

\* Every entry holds, or none is applied.
EvidenceHolds ==
    /\ ~Reused
    /\ \A e \in Fresh : Balanced(e) /\ e.items \subseteq pending
    /\ \A d, e \in Fresh : d /= e => d.items \cap e.items = {}
    /\ \A d, e \in Fresh : d /= e /\ d.kind = "CASH_TRANSFER" /\ e.kind = "CASH_TRANSFER"
                              => Latest(d.items) /= Latest(e.items)
    /\ \A f \in FlowsOf(Fresh) : \A g \in flows : f.at /= g.at

\* resolve_cash_adjustments, after the account was reconciled.
ResolveEvidence ==
    /\ engine.at = "evidence" /\ engine' = Idle
    /\ IF EvidenceHolds /\ Fresh /= {}
         THEN /\ applied' = applied \cup Fresh
              /\ pending' = pending \ UNION {e.items : e \in Fresh}
              /\ flows' = flows \cup FlowsOf(Fresh)
              /\ uncertain' = (pending' /= {})
         ELSE UNCHANGED flowsKept
    /\ UNCHANGED <<whole, broker, snapshots, views, fills, deltas, cashReconciled, seen, reconciled,
                   evidence, lives>>

\* The process dies: snapshots and the reconciliation are gone, the database stays.
LedgerRestart ==
    /\ lives < MaxLives /\ lives' = lives + 1
    /\ reading' = <<>> /\ views' = {} /\ engine' = Idle
    /\ UNCHANGED <<whole, broker, reads, revs, fills, deltas, cashReconciled, seen, flowsKept,
                   reconciled, evidence>>

LedgerNext ==
    \/ BrokerNext \/ ReadOrders \/ ReadBalance \/ Incomplete
    \/ BeginReconcile \/ BookFill \/ CheckOwnership \/ ReconcileCash
    \/ WriteEvidence \/ ResolveEvidence \/ LedgerRestart

LedgerSpec == LedgerInit /\ [][LedgerNext]_ledgerVars

----------------------------------------------------------------------------
(* Properties *)

\* Attributed cash is the capital less every booked execution and its fees, through fills,
\* late settlements and corrections in any order.  (apply_cumulative_fill)
AttributedCash ==
    ~whole => cash = Capital - Turnover(booked)
                        - SumFunctionOnSet([o \in Orders |-> booked[o].fees], Orders)

\* Unexplained cash, classified or not, is what really moved: the transfers seen, less the
\* costs charged and not yet reported; a trade or a reported cost never counts as a flow.
\* (reconcile_account_cash; a buy and a sale executed between the two reads excepted)
OnlyRealFlows ==
    whole /\ seen.agrees =>
        Total(pending) + Total(UNION {e.items : e \in applied})
            = seen.transfers - (seen.charged - seen.costs)

CashExplained == AttributedCash /\ OnlyRealFlows

\* Once costs are complete, every execution booked for the attributed account carries its
\* confirmed fee: partial fills, settlements and corrections may come in any order.
\* (costs_complete, which the finalization of a close relies on)
CostsSettled ==
    ~whole /\ costsComplete => \A o \in Orders : booked[o].fees = Fee * booked[o].qty

\* An adjustment is explained once, and what is explained as transfers is in the external
\* flows; evidence read again, or again after a crash, adds nothing.
\* (resolve_cash_adjustments)
ExplainedOnce ==
    /\ \A a, b \in applied : a /= b => a.id /= b.id /\ a.items \cap b.items = {}
    /\ \A a \in applied : a.items \cap pending = {}
    /\ SumFunctionOnSet([e \in applied |-> e.flow], applied) = Total(flows)

\* A booking is replaced only by a later observation, and executions go back only by a
\* correction, in whatever order snapshots are reconciled.  (apply_cumulative_fill)
NewestBookingWins ==
    [][\A o \in Orders :
        /\ booked'[o] /= booked[o] => booked'[o].rev > booked[o].rev
        /\ booked'[o].qty < booked[o].qty => engine.view.orders[o].obs.correction]_ledgerVars

\* Cash is never set back to an older balance.  (STALE_ACCOUNT_CASH_OBSERVATION)
NewestCashWins == [][whole => seen'.at >= seen.at /\ (cash' /= cash => seen'.at > seen.at)]_ledgerVars
=============================================================================

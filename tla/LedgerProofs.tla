---------------------------- MODULE LedgerProofs ----------------------------
(***************************************************************************)
(* The ledger of AccountLedger for any set of orders, any prices, fees and *)
(* transfers and any number of reads, lives and corrections.  Types says   *)
(* what the records hold; Times that a balance not taken yet is of a time  *)
(* of its own; Costs which fees are confirmed; Explained that none is      *)
(* explained twice; Balances what the fills booked leave of the capital.   *)
(* Together they are inductive.                                            *)
(*                                                                         *)
(* The second half is about the net asset value of NavRisk, for any        *)
(* valuations and transfers and for any order of the threads that record   *)
(* them.  Indices are fractions, compared by cross products.  The walk of  *)
(* performance over the valuations is a recursive function: it exists,     *)
(* since no length is the least without one, and its last index is the     *)
(* index the market gave.  The invariant NavInv says that one transfer at  *)
(* most is not seen, waiting for evidence or explained, that valuations    *)
(* are of different times, and that the high which new risk is compared    *)
(* with is no less than the best verified index.                           *)
(***************************************************************************)
EXTENDS AccountLedger, NavRisk, FiniteSums

Execution == [qty: Nat, notional: Int, fee: Int, settled: BOOLEAN, busted: BOOLEAN]
Observation == [qty: Nat, notional: Int, fees: Int, correction: BOOLEAN]
Row == [obs: Observation, rev: Nat]
Reading == [orders: [Orders -> Row], costs: Int, known: BOOLEAN]
View == [orders: [Orders -> Row], costs: Int, known: BOOLEAN, cash: Int,
         held: [Instruments -> Int], at: Nat, transfers: Int, charged: Int, turnover: Int]
Engine == [at: {"idle", "book", "own", "cash", "evidence"}, view: View \cup {NoView},
           todo: SUBSET Orders]
Fill == [qty: Nat, notional: Int, fees: Int, rev: Nat]
Seen == [at: Nat, costs: Int, transfers: Int, charged: Int, agrees: BOOLEAN]
Adjustment == [at: Nat, amount: Int]

Amounts == cash \in Int /\ tradeDelta \in Int /\ feeDelta \in Int /\ transfers \in Int /\ reported \in Int

Types ==
    /\ whole \in BOOLEAN /\ costsComplete \in BOOLEAN
    /\ exec \in [Orders -> Execution]
    /\ reads \in Nat /\ \A o \in Orders : revs[o].n \in Nat
    /\ reading # <<>> => reading \in Reading
    /\ views \subseteq View
    /\ engine \in Engine /\ (engine.at # "idle" => engine.view \in View)
    /\ booked \in [Orders -> Fill] /\ unsettled \subseteq Orders
    /\ Amounts
    /\ seen \in Seen

\* The least order still to book is one of them.
LEMMA CurrentIn ==
    ASSUME engine.todo # {}, engine.todo \subseteq Orders
    PROVE  Current \in engine.todo
<1>1. IsFiniteSet(engine.todo) /\ engine.todo \subseteq Nat
  BY LedgerAssumption, FS_Subset
<1> DEFINE todo == engine.todo
<1>2. \E m \in todo : \A u \in todo : m <= u
  <2>1. IsFiniteSet(todo) /\ todo # {}
    BY <1>1
  <2>2. todo \subseteq Nat
    BY <1>1
  <2> HIDE DEF todo
  <2>3. todo \subseteq Nat => \E m \in todo : \A u \in todo : m <= u
    BY <2>1, Least
  <2> QED BY <2>2, <2>3
<1> QED
  BY <1>2 DEF Current, Min

LEMMA SignIs == \A o \in Orders : Sign(o) = 1 \/ Sign(o) = -1
BY DEF Sign

\* What the sums over the orders give.
LEMMA TurnoverInt ==
    ASSUME NEW fill, \A o \in Orders : fill[o].notional \in Int
    PROVE  Turnover(fill) \in Int
<1> DEFINE f == [o \in Orders |-> Sign(o) * fill[o].notional]
<1>1. \A o \in Orders : f[o] \in Int
  <2> TAKE o \in Orders
  <2>1. Sign(o) \in Int /\ fill[o].notional \in Int
    BY SignIs
  <2> QED BY <2>1
<1> HIDE DEF f
<1>2. SumFunctionOnSet(f, Orders) \in Int
  BY <1>1, LedgerAssumption, SumInt
<1> QED
  BY <1>2 DEF Turnover, f

LEMMA ChargedInt == ASSUME exec \in [Orders -> Execution] PROVE Charged \in Int
<1> DEFINE f == [o \in Orders |-> exec[o].fee]
<1>1. \A o \in Orders : f[o] \in Int
  BY DEF Execution
<1> HIDE DEF f
<1>2. SumFunctionOnSet(f, Orders) \in Int
  BY <1>1, LedgerAssumption, SumInt
<1> QED
  BY <1>2 DEF Charged, f

LEMMA HoldsInt ==
    ASSUME exec \in [Orders -> Execution], NEW i \in Instruments
    PROVE  BrokerHolds(i) \in Int
<1> DEFINE f == [o \in Orders |-> Sign(o) * exec[o].qty]
           S == {o \in Orders : Instrument[o] = i}
<1>1. \A o \in S : f[o] \in Int
  <2> TAKE o \in S
  <2>1. Sign(o) \in Int /\ exec[o].qty \in Int
    BY SignIs DEF Execution
  <2> QED BY <2>1
<1>2. IsFiniteSet(S)
  BY LedgerAssumption, FS_Subset
<1> HIDE DEF f, S
<1>3. SumFunctionOnSet(f, S) \in Int
  BY <1>1, <1>2, SumInt
<1> QED
  BY <1>3, LedgerAssumption DEF BrokerHolds, f, S

LEMMA BrokerCashInt ==
    ASSUME exec \in [Orders -> Execution], transfers \in Int
    PROVE  BrokerCash \in Int
<1>1. Turnover(exec) \in Int
  <2>1. \A o \in Orders : exec[o].notional \in Int
    BY DEF Execution
  <2> QED BY <2>1, TurnoverInt
<1> QED
  BY <1>1, ChargedInt, LedgerAssumption DEF BrokerCash

\* One fill replaced changes the turnover by the difference.
LEMMA TurnoverStep ==
    ASSUME NEW old, NEW new, NEW o \in Orders,
           \A x \in Orders : old[x].notional \in Int,
           new[o].notional \in Int,
           \A x \in Orders \ {o} : new[x] = old[x]
    PROVE  Turnover(new) = Turnover(old) + Sign(o) * (new[o].notional - old[o].notional)
<1> DEFINE f == [x \in Orders |-> Sign(x) * old[x].notional]
           g == [x \in Orders |-> Sign(x) * new[x].notional]
<1>1. \A x \in Orders : f[x] \in Int
  <2> TAKE x \in Orders
  <2>1. Sign(x) \in Int /\ old[x].notional \in Int
    BY SignIs
  <2> QED BY <2>1
<1>2. \A x \in Orders \ {o} : f[x] = g[x]
  OBVIOUS
<1>3. g[o] \in Int /\ g[o] - f[o] = Sign(o) * (new[o].notional - old[o].notional)
  <2>1. CASE Sign(o) = 1
    BY <2>1
  <2>2. CASE Sign(o) = -1
    BY <2>2
  <2> QED BY <2>1, <2>2, SignIs
<1> HIDE DEF f, g
<1>4. SumFunctionOnSet(g, Orders) = SumFunctionOnSet(f, Orders) + g[o] - f[o]
  <2>1. \A x \in Orders \ {o} : f[x] \in Int /\ f[x] = g[x]
    BY <1>1, <1>2
  <2>2. f[o] \in Int /\ g[o] \in Int /\ IsFiniteSet(Orders)
    BY <1>1, <1>3, LedgerAssumption
  <2> QED BY <2>1, <2>2, SumBut
<1>5. SumFunctionOnSet(f, Orders) \in Int
  BY <1>1, LedgerAssumption, SumInt
<1>6. SumFunctionOnSet(g, Orders)
        = SumFunctionOnSet(f, Orders) + Sign(o) * (new[o].notional - old[o].notional)
  BY <1>1, <1>3, <1>4, <1>5
<1>7. Turnover(new) = SumFunctionOnSet(g, Orders) /\ Turnover(old) = SumFunctionOnSet(f, Orders)
  BY DEF f, g, Turnover
<1> QED
  BY <1>6, <1>7

----------------------------------------------------------------------------
(* Types *)

LEMMA InitTypes == ASSUME LedgerInit PROVE Types
<1> USE LedgerAssumption
<1>1. exec \in [Orders -> Execution]
  BY DEF LedgerInit, Execution
<1>2. engine \in Engine /\ engine.at = "idle"
  BY DEF LedgerInit, Engine, Idle
<1>3. booked \in [Orders -> Fill]
  BY DEF LedgerInit, Fill
<1>4. seen \in Seen
  BY DEF LedgerInit, Seen
<1>5. \A o \in Orders : revs[o].n = 0
  BY DEF LedgerInit
<1> QED
  BY <1>1, <1>2, <1>3, <1>4, <1>5 DEF LedgerInit, Types, Amounts

LEMMA ExecTypes ==
    ASSUME Types, BrokerNext
    PROVE  exec' \in [Orders -> Execution] /\ transfers' \in Int /\ reported' \in Int
<1> USE LedgerAssumption
<1>1. exec \in [Orders -> Execution] /\ transfers \in Int /\ reported \in Int
  BY DEF Types, Amounts
<1>2. ASSUME NEW o \in Orders, NEW e \in Execution, exec' = [exec EXCEPT ![o] = e]
      PROVE  exec' \in [Orders -> Execution]
  BY <1>1, <1>2
<1>3. ASSUME NEW o \in Orders, NEW p \in Prices, Execute(o, p)
      PROVE  exec' \in [Orders -> Execution] /\ UNCHANGED <<transfers, reported>>
  <2> DEFINE x == exec[o]
             e == [qty |-> x.qty + 1, notional |-> x.notional + p, fee |-> x.fee + Fee,
                   settled |-> FALSE, busted |-> FALSE]
  <2>1. x \in Execution
    BY <1>1
  <2>2. e \in Execution
    BY <2>1 DEF Execution
  <2>3. exec' = [exec EXCEPT ![o] = e] /\ UNCHANGED <<transfers, reported>>
    BY <1>3 DEF Execute
  <2> HIDE DEF e
  <2> QED BY <2>2, <2>3, <1>2
<1>4. ASSUME NEW o \in Orders, NEW p \in Prices, Bust(o, p)
      PROVE  exec' \in [Orders -> Execution] /\ UNCHANGED <<transfers, reported>>
  <2> DEFINE x == exec[o]
             e == [qty |-> x.qty - 1, notional |-> x.notional - p, fee |-> x.fee - Fee,
                   settled |-> TRUE, busted |-> TRUE]
  <2>1. x \in Execution /\ x.qty > 0
    BY <1>1, <1>4 DEF Bust
  <2>2. e \in Execution
    BY <2>1 DEF Execution
  <2>3. exec' = [exec EXCEPT ![o] = e] /\ UNCHANGED <<transfers, reported>>
    BY <1>4 DEF Bust
  <2> HIDE DEF e
  <2> QED BY <2>2, <2>3, <1>2
<1>5. ASSUME NEW o \in Orders, Settle(o)
      PROVE  exec' \in [Orders -> Execution] /\ UNCHANGED <<transfers, reported>>
  <2> DEFINE x == exec[o]
             e == [x EXCEPT !.settled = TRUE]
  <2>1. x \in Execution
    BY <1>1
  <2>2. e \in Execution
    BY <2>1 DEF Execution
  <2>3. exec' = [exec EXCEPT ![o] = e] /\ UNCHANGED <<transfers, reported>>
    BY <1>5 DEF Settle
  <2> HIDE DEF e
  <2> QED BY <2>2, <2>3, <1>2
<1>6. ASSUME NEW amount \in {-1, 2}, Transfer(amount)
      PROVE  UNCHANGED <<exec, reported>> /\ transfers' \in Int
  BY <1>6 DEF Transfer
<1>7. ASSUME ReportCosts
      PROVE  UNCHANGED <<exec, transfers>> /\ reported' \in Int
  BY <1>1, <1>7, ChargedInt DEF ReportCosts
<1> QED
  BY <1>1, <1>3, <1>4, <1>5, <1>6, <1>7 DEF BrokerNext

LEMMA ObservedIn ==
    ASSUME Types, NEW o \in Orders
    PROVE  Observed(o) \in Observation /\ Revised(o).n \in Nat
<1> DEFINE e == exec[o]
<1>1. e \in Execution
  BY DEF Types
<1>2. e.qty \in Nat /\ e.notional \in Int /\ e.fee \in Int /\ e.settled \in BOOLEAN /\ e.busted \in BOOLEAN
  BY <1>1 DEF Execution
<1>3. Observed(o) \in Observation
  BY <1>2 DEF Observed, Observation, Unknown
<1> HIDE DEF e
<1>4. Revised(o).n \in Nat
  BY DEF Types, Revised
<1> QED BY <1>3, <1>4

\* One order's fill in the ledger after a step that books: the observation of the current order.
BookedOf(o) == [qty |-> Obs.qty, notional |-> Obs.notional, fees |-> NewFees, rev |-> Rev]

LEMMA ViewOfEngine ==
    ASSUME Types, engine.at = "book", engine.todo # {}
    PROVE  /\ Current \in Orders
           /\ Obs \in Observation /\ Rev \in Nat /\ Old \in Fill
           /\ BookedOf(Current) \in Fill
<1>1. engine \in Engine /\ engine.view \in View
  BY DEF Types
<1>2. Current \in Orders
  BY <1>1, CurrentIn DEF Engine
<1>3. engine.view.orders[Current] \in Row
  BY <1>1, <1>2 DEF View
<1>4. Obs \in Observation /\ Rev \in Nat
  BY <1>3 DEF Row, Obs, Rev
<1>5. Old \in Fill
  BY <1>2 DEF Types, Old
<1>6. NewFees \in Int
  BY <1>4, <1>5 DEF NewFees, Observation, Fill
<1>7. BookedOf(Current) \in Fill
  BY <1>4, <1>6 DEF BookedOf, Fill, Observation
<1> QED BY <1>2, <1>4, <1>5, <1>7

\* What a booking does, whichever order it books.
Booking ==
    /\ ~Ignored
    /\ booked' = [booked EXCEPT ![Current] = BookedOf(Current)]
    /\ unsettled' = Unsettled
    /\ costsComplete' = IF Settlement \/ (Obs.fees = Unknown /\ Obs.qty > 0)
                        THEN Unsettled = {} ELSE costsComplete
    /\ BookCash

LEMMA BookFillIs ==
    ASSUME BookFill
    PROVE  /\ engine.at = "book" /\ engine.todo # {}
           /\ engine' = Idle \/ engine' = [engine EXCEPT !.todo = @ \ {Current}]
           /\ Booking \/ UNCHANGED <<booked, unsettled, costsComplete, cash, tradeDelta, feeDelta>>
           /\ UNCHANGED <<whole, broker, snapshots, views, seen, flowsKept, evidence>>
<1>1. /\ engine.at = "book" /\ engine.todo # {}
      /\ UNCHANGED <<whole, broker, snapshots, views, seen, flowsKept, evidence>>
  BY DEF BookFill
<1>2. CASE Ignored
  BY <1>1, <1>2 DEF BookFill, fills, deltas
<1>3. CASE ~Ignored /\ Refused
  BY <1>1, <1>3 DEF BookFill, fills, deltas
<1>4. CASE ~Ignored /\ ~Refused
  BY <1>1, <1>4 DEF BookFill, Booking, BookedOf
<1> QED BY <1>2, <1>3, <1>4

LEMMA BookingTypes ==
    ASSUME Types, BookFill
    PROVE  /\ engine' \in Engine /\ (engine'.at # "idle" => engine'.view \in View)
           /\ booked' \in [Orders -> Fill] /\ unsettled' \subseteq Orders
           /\ costsComplete' \in BOOLEAN
           /\ cash' \in Int /\ tradeDelta' \in Int /\ feeDelta' \in Int
<1>1. engine.at = "book" /\ engine.todo # {} /\ engine \in Engine /\ engine.view \in View
  BY BookFillIs DEF Types
<1>2. /\ Current \in Orders /\ Obs \in Observation /\ Rev \in Nat /\ Old \in Fill
      /\ BookedOf(Current) \in Fill
  BY <1>1, ViewOfEngine
<1>3. engine' \in Engine /\ (engine'.at # "idle" => engine'.view \in View)
  <2>1. CASE engine' = Idle
    BY <2>1 DEF Idle, Engine
  <2>2. CASE engine' = [engine EXCEPT !.todo = @ \ {Current}]
    BY <2>2, <1>1 DEF Engine
  <2> QED BY <2>1, <2>2, BookFillIs
<1>4. CASE Booking
  <2>1. booked' \in [Orders -> Fill]
    BY <1>2, <1>4 DEF Booking, Types
  <2>2. unsettled' \subseteq Orders /\ costsComplete' \in BOOLEAN
    BY <1>2, <1>4 DEF Booking, Types, Unsettled
  <2>3. Paid \in Int /\ NewFees \in Int /\ Old.fees \in Int
    <3>1. Obs.notional \in Int /\ Old.notional \in Int /\ Obs.fees \in Int /\ Old.fees \in Int
      BY <1>2 DEF Observation, Fill
    <3>2. Sign(Current) \in Int
      BY <1>2, SignIs
    <3> QED BY <3>1, <3>2 DEF Paid, NewFees
  <2>4. cash' \in Int /\ tradeDelta' \in Int /\ feeDelta' \in Int
    BY <2>3, <1>4 DEF Booking, BookCash, Types, Amounts
  <2> QED BY <1>3, <2>1, <2>2, <2>4
<1>5. CASE UNCHANGED <<booked, unsettled, costsComplete, cash, tradeDelta, feeDelta>>
  BY <1>3, <1>5 DEF Types, Amounts
<1> QED BY <1>4, <1>5, BookFillIs

LEMMA ReadOrdersTypes ==
    ASSUME Types, ReadOrders
    PROVE  /\ reads' \in Nat /\ \A o \in Orders : revs'[o].n \in Nat
           /\ reading' \in Reading
<1>1. reads' \in Nat
  BY DEF ReadOrders, Types
<1>2. \A o \in Orders : revs'[o].n \in Nat
  BY ObservedIn DEF ReadOrders
<1>3. PICK known \in BOOLEAN :
        reading' = [orders |-> [o \in Orders |-> [obs |-> Observed(o), rev |-> Revised(o).n]],
                    costs |-> IF known /\ whole THEN reported ELSE 0, known |-> known /\ whole]
  BY DEF ReadOrders
<1> DEFINE rows == [o \in Orders |-> [obs |-> Observed(o), rev |-> Revised(o).n]]
           costs == IF known /\ whole THEN reported ELSE 0
<1>4. rows \in [Orders -> Row]
  BY ObservedIn DEF Row
<1>5. costs \in Int
  BY DEF Types, Amounts
<1>6. reading' = [orders |-> rows, costs |-> costs, known |-> known /\ whole]
  BY <1>3
<1>7. (known /\ whole) \in BOOLEAN
  OBVIOUS
<1> HIDE DEF rows, costs
<1>8. reading' \in Reading
  BY <1>4, <1>5, <1>6, <1>7 DEF Reading
<1> QED BY <1>1, <1>2, <1>8

\* The view a balance completes.
Taken == [orders |-> reading.orders, costs |-> reading.costs, known |-> reading.known,
          cash |-> BrokerCash, held |-> [i \in Instruments |-> BrokerHolds(i)], at |-> reads,
          transfers |-> transfers, charged |-> Charged, turnover |-> Turnover(exec)]

LEMMA TakenIn ==
    ASSUME Types, reading # <<>>
    PROVE  Taken \in View
<1>1. exec \in [Orders -> Execution] /\ transfers \in Int /\ reading \in Reading /\ reads \in Nat
  BY DEF Types, Amounts
<1>2. /\ reading.orders \in [Orders -> Row] /\ reading.costs \in Int
      /\ reading.known \in BOOLEAN
  BY <1>1 DEF Reading
<1>3. BrokerCash \in Int /\ Charged \in Int
  BY <1>1, BrokerCashInt, ChargedInt
<1>4. Turnover(exec) \in Int
  <2>1. \A o \in Orders : exec[o].notional \in Int
    BY <1>1 DEF Execution
  <2> QED BY <2>1, TurnoverInt
<1> DEFINE h == [i \in Instruments |-> BrokerHolds(i)]
<1>5. h \in [Instruments -> Int]
  BY <1>1, HoldsInt
<1>6. Taken = [orders |-> reading.orders, costs |-> reading.costs, known |-> reading.known,
               cash |-> BrokerCash, held |-> h, at |-> reads,
               transfers |-> transfers, charged |-> Charged, turnover |-> Turnover(exec)]
  BY DEF Taken
<1> HIDE DEF h
<1> QED
  BY <1>1, <1>2, <1>3, <1>4, <1>5, <1>6 DEF View

LEMMA TypesStep == ASSUME Types, [LedgerNext]_ledgerVars PROVE Types'
<1>1. CASE BrokerNext
  <2>1. exec' \in [Orders -> Execution] /\ transfers' \in Int /\ reported' \in Int
    BY <1>1, ExecTypes
  <2>2. UNCHANGED <<whole, snapshots, views, engine, fills, deltas, seen>>
    BY <1>1 DEF BrokerNext
  <2> QED BY <2>1, <2>2 DEF Types, Amounts, snapshots, fills, deltas
<1>2. CASE ReadOrders
  <2>1. UNCHANGED <<whole, broker, views, engine, fills, deltas, seen>>
    BY <1>2 DEF ReadOrders
  <2> QED BY <1>2, <2>1, ReadOrdersTypes DEF Types, Amounts, broker, fills, deltas
<1>3. CASE ReadBalance
  <2>1. UNCHANGED <<whole, broker, reads, revs, engine, fills, deltas, seen>> /\ reading' = <<>>
    BY <1>3 DEF ReadBalance
  <2>2. reading # <<>> /\ views' = views \cup {Taken}
    BY <1>3 DEF ReadBalance, Taken
  <2>3. views' \subseteq View
    BY <2>2, TakenIn DEF Types
  <2> QED BY <2>1, <2>3 DEF Types, Amounts, broker, fills, deltas
<1>4. CASE Incomplete
  BY <1>4 DEF Incomplete, Types, Amounts, broker, fills, deltas
<1>5. CASE BeginReconcile
  <2>1. UNCHANGED <<whole, broker, snapshots, fills, deltas, seen>>
    BY <1>5 DEF BeginReconcile
  <2>2. PICK v \in views : views' = views \ {v} /\ engine' = [at |-> "book", view |-> v, todo |-> Orders]
    BY <1>5 DEF BeginReconcile
  <2>3. v \in View
    BY DEF Types
  <2>4. engine' \in Engine /\ engine'.view \in View
    BY <2>2, <2>3 DEF Engine
  <2> QED BY <2>1, <2>2, <2>4 DEF Types, Amounts, broker, snapshots, fills, deltas
<1>6. CASE BookFill
  <2>1. UNCHANGED <<whole, broker, snapshots, views, seen>>
    BY <1>6, BookFillIs
  <2> QED BY <1>6, <2>1, BookingTypes DEF Types, Amounts, broker, snapshots
<1>7. CASE CheckOwnership
  <2>1. UNCHANGED <<whole, broker, snapshots, views, fills, deltas, seen>>
    BY <1>7 DEF CheckOwnership
  <2>2. engine \in Engine /\ engine.view \in View
    BY <1>7 DEF CheckOwnership, Types
  <2>3. engine' \in Engine /\ (engine'.at # "idle" => engine'.view \in View)
    <3>1. CASE engine' = Idle
      BY <3>1 DEF Idle, Engine
    <3>2. CASE engine' = [engine EXCEPT !.at = IF whole THEN "cash" ELSE "evidence"]
      BY <3>2, <2>2 DEF Engine
    <3> QED BY <3>1, <3>2, <1>7 DEF CheckOwnership
  <2> QED BY <2>1, <2>3 DEF Types, Amounts, broker, snapshots, fills, deltas
<1>8. CASE ReconcileCash
  <2>1. UNCHANGED <<whole, broker, snapshots, views, fills>>
    BY <1>8 DEF ReconcileCash
  <2>2. engine \in Engine /\ engine.view \in View /\ seen \in Seen
    BY <1>8 DEF ReconcileCash, Types
  <2>3. CASE Stale(engine.view)
    <3>1. engine' = Idle /\ UNCHANGED <<deltas, seen>>
      BY <1>8, <2>3 DEF ReconcileCash
    <3>2. engine' \in Engine /\ engine'.at = "idle"
      BY <3>1 DEF Idle, Engine
    <3> QED BY <2>1, <3>1, <3>2 DEF Types, Amounts, broker, snapshots, fills, deltas
  <2>4. CASE ~Stale(engine.view)
    <3> DEFINE v == engine.view
    <3>1. /\ cash' = v.cash /\ tradeDelta' = 0 /\ feeDelta' = 0
          /\ seen' = [at |-> v.at, costs |-> IF v.known THEN v.costs ELSE seen.costs,
                      transfers |-> v.transfers, charged |-> v.charged,
                      agrees |-> Turnover(booked) = v.turnover]
          /\ engine' = [engine EXCEPT !.at = "evidence"]
      BY <1>8, <2>4 DEF ReconcileCash
    <3>2. /\ v.cash \in Int /\ v.at \in Nat /\ v.costs \in Int /\ v.transfers \in Int
          /\ v.charged \in Int
      BY <2>2 DEF View
    <3>3. seen.costs \in Int
      BY <2>2 DEF Seen
    <3>4. engine' \in Engine /\ engine'.view \in View
      BY <3>1, <2>2 DEF Engine
    <3>5. seen' \in Seen
      BY <3>1, <3>2, <3>3 DEF Seen
    <3> QED BY <2>1, <3>1, <3>2, <3>4, <3>5 DEF Types, Amounts, broker, snapshots, fills
  <2> QED BY <2>3, <2>4
<1>9. CASE WriteEvidence
  BY <1>9 DEF WriteEvidence, Types, Amounts, broker, snapshots, fills, deltas
<1>10. CASE ResolveEvidence
  <2>1. UNCHANGED <<whole, broker, snapshots, views, fills, deltas, seen>> /\ engine' = Idle
    BY <1>10 DEF ResolveEvidence
  <2>2. engine' \in Engine /\ engine'.at = "idle"
    BY <2>1 DEF Idle, Engine
  <2> QED BY <2>1, <2>2 DEF Types, Amounts, broker, snapshots, fills, deltas
<1>11. CASE LedgerRestart
  <2>1. /\ UNCHANGED <<whole, broker, reads, revs, fills, deltas, seen>>
        /\ engine' = Idle /\ views' = {} /\ reading' = <<>>
    BY <1>11 DEF LedgerRestart
  <2>2. engine' \in Engine /\ engine'.at = "idle"
    BY <2>1 DEF Idle, Engine
  <2> QED BY <2>1, <2>2 DEF Types, Amounts, broker, fills, deltas
<1>12. CASE UNCHANGED ledgerVars
  BY <1>12 DEF ledgerVars, Types, Amounts, broker, snapshots, fills, deltas
<1> QED
  BY <1>1, <1>2, <1>3, <1>4, <1>5, <1>6, <1>7, <1>8, <1>9, <1>10, <1>11, <1>12 DEF LedgerNext

----------------------------------------------------------------------------
(* The times of the balances *)

\* The balances read but not taken have times of their own, none that of the last one taken.
Times ==
    /\ seen.at <= reads
    /\ \A v \in views : v.at <= reads /\ v.at # seen.at
    /\ \A v, w \in views : v.at = w.at => v = w
    /\ reading # <<>> => seen.at < reads /\ \A v \in views : v.at < reads
    /\ engine.at # "idle" => engine.view.at <= reads /\ \A v \in views : v.at # engine.view.at
    /\ engine.at # "idle" /\ reading # <<>> => engine.view.at < reads
    /\ engine.at \in {"book", "cash"} => engine.view.at # seen.at

LEMMA TimesStep == ASSUME Types, Times, [LedgerNext]_ledgerVars PROVE Times'
<1>1. CASE BrokerNext
  BY <1>1 DEF BrokerNext, Times, snapshots
<1>2. CASE ReadOrders
  <2>1. UNCHANGED <<views, engine, seen>> /\ reading = <<>> /\ reads' = reads + 1
    BY <1>2 DEF ReadOrders
  <2>2. seen.at \in Int /\ reads \in Int /\ \A v \in views : v.at \in Int
    BY DEF Types, Seen, View
  <2>3. engine.at # "idle" => engine.view.at \in Int
    BY DEF Types, View
  <2> QED BY <2>1, <2>2, <2>3 DEF Times
<1>3. CASE ReadBalance
  <2>1. UNCHANGED <<reads, engine, seen>> /\ reading' = <<>> /\ reading # <<>>
    BY <1>3 DEF ReadBalance
  <2>2. views' = views \cup {Taken} /\ Taken.at = reads
    BY <1>3 DEF ReadBalance, Taken
  <2>3. seen.at \in Int /\ reads \in Int /\ \A v \in views : v.at \in Int
    BY DEF Types, Seen, View
  <2>4. engine.at # "idle" => engine.view.at \in Int
    BY DEF Types, View
  <2> QED BY <2>1, <2>2, <2>3, <2>4 DEF Times
<1>4. CASE Incomplete
  BY <1>4 DEF Incomplete, Times
<1>5. CASE BeginReconcile
  <2>1. UNCHANGED <<reads, reading, seen>>
    BY <1>5 DEF BeginReconcile, snapshots
  <2>2. PICK v \in views : views' = views \ {v} /\ engine' = [at |-> "book", view |-> v, todo |-> Orders]
    BY <1>5 DEF BeginReconcile
  <2>3. engine'.at = "book" /\ engine'.view = v
    BY <2>2
  <2> QED BY <2>1, <2>2, <2>3 DEF Times
<1>6. CASE BookFill
  <2>1. UNCHANGED <<reads, reading, views, seen>> /\ engine \in Engine /\ engine.at = "book"
    BY <1>6, BookFillIs DEF snapshots, Types
  <2>2. \/ engine'.at = "idle"
        \/ engine'.at = "book" /\ engine'.view = engine.view
    <3>1. CASE engine' = Idle
      BY <3>1 DEF Idle
    <3>2. CASE engine' = [engine EXCEPT !.todo = @ \ {Current}]
      BY <3>2, <2>1 DEF Engine
    <3> QED BY <3>1, <3>2, <1>6, BookFillIs
  <2> QED BY <2>1, <2>2 DEF Times
<1>7. CASE CheckOwnership
  <2>1. UNCHANGED <<reads, reading, views, seen>> /\ engine \in Engine /\ engine.at = "book"
    BY <1>7 DEF CheckOwnership, snapshots, Types
  <2>2. \/ engine'.at = "idle"
        \/ engine'.at \in {"cash", "evidence"} /\ engine'.view = engine.view
    <3>1. CASE engine' = Idle
      BY <3>1 DEF Idle
    <3>2. CASE engine' = [engine EXCEPT !.at = IF whole THEN "cash" ELSE "evidence"]
      BY <3>2, <2>1 DEF Engine
    <3> QED BY <3>1, <3>2, <1>7 DEF CheckOwnership
  <2> QED BY <2>1, <2>2 DEF Times
<1>8. CASE ReconcileCash
  <2>1. UNCHANGED <<reads, reading, views>> /\ engine \in Engine /\ engine.at = "cash"
    BY <1>8 DEF ReconcileCash, snapshots, Types
  <2>2. CASE Stale(engine.view)
    <3>1. engine'.at = "idle" /\ UNCHANGED seen
      BY <1>8, <2>2 DEF ReconcileCash, Idle
    <3> QED BY <2>1, <3>1 DEF Times
  <2>3. CASE ~Stale(engine.view)
    <3>1. engine' = [engine EXCEPT !.at = "evidence"] /\ seen'.at = engine.view.at
      BY <1>8, <2>3 DEF ReconcileCash
    <3>2. engine'.at = "evidence" /\ engine'.view = engine.view
      BY <3>1, <2>1 DEF Engine
    <3> QED BY <2>1, <3>1, <3>2 DEF Times
  <2> QED BY <2>2, <2>3
<1>9. CASE WriteEvidence
  BY <1>9 DEF WriteEvidence, Times, snapshots
<1>10. CASE ResolveEvidence
  <2>1. UNCHANGED <<reads, reading, views, seen>> /\ engine'.at = "idle"
    BY <1>10 DEF ResolveEvidence, Idle, snapshots
  <2> QED BY <2>1 DEF Times
<1>11. CASE LedgerRestart
  <2>1. UNCHANGED <<reads, seen>> /\ engine'.at = "idle" /\ views' = {} /\ reading' = <<>>
    BY <1>11 DEF LedgerRestart, Idle
  <2> QED BY <2>1 DEF Times
<1>12. CASE UNCHANGED ledgerVars
  BY <1>12 DEF ledgerVars, Times, snapshots
<1> QED
  BY <1>1, <1>2, <1>3, <1>4, <1>5, <1>6, <1>7, <1>8, <1>9, <1>10, <1>11, <1>12 DEF LedgerNext

\* The cash of a whole account is set only by a balance read after the last one taken.
LEMMA NewestCashStep ==
    ASSUME Types, Times, [LedgerNext]_ledgerVars
    PROVE  whole => seen'.at >= seen.at /\ (cash' # cash => seen'.at > seen.at)
<1> SUFFICES ASSUME whole PROVE seen'.at >= seen.at /\ (cash' # cash => seen'.at > seen.at)
  OBVIOUS
<1>0. seen.at \in Int
  BY DEF Types, Seen
<1>1. CASE ReconcileCash
  <2>1. CASE Stale(engine.view)
    BY <1>0, <1>1, <2>1 DEF ReconcileCash, deltas
  <2>2. CASE ~Stale(engine.view)
    <3>1. seen'.at = engine.view.at /\ engine.view.at \in Int /\ engine.view.at # seen.at
      BY <1>1, <2>2 DEF ReconcileCash, Times, Types, View
    <3>2. ~(engine.view.at < seen.at)
      BY <2>2 DEF Stale
    <3> QED BY <1>0, <3>1, <3>2
  <2> QED BY <2>1, <2>2
<1>2. CASE BookFill
  <2>1. UNCHANGED <<seen, cash>>
    BY <1>2, BookFillIs DEF Booking, BookCash
  <2> QED BY <1>0, <2>1
<1>3. CASE BrokerNext \/ ReadOrders \/ ReadBalance \/ Incomplete
  <2>1. UNCHANGED <<seen, cash>>
    BY <1>3 DEF BrokerNext, ReadOrders, ReadBalance, Incomplete, deltas
  <2> QED BY <1>0, <2>1
<1>4. CASE BeginReconcile \/ CheckOwnership
  <2>1. UNCHANGED <<seen, cash>>
    BY <1>4 DEF BeginReconcile, CheckOwnership, deltas
  <2> QED BY <1>0, <2>1
<1>5. CASE WriteEvidence \/ ResolveEvidence \/ LedgerRestart
  <2>1. UNCHANGED <<seen, cash>>
    BY <1>5 DEF WriteEvidence, ResolveEvidence, LedgerRestart, deltas
  <2> QED BY <1>0, <2>1
<1>6. CASE UNCHANGED ledgerVars
  <2>1. UNCHANGED <<seen, cash>>
    BY <1>6 DEF ledgerVars, deltas
  <2> QED BY <1>0, <2>1
<1> QED
  BY <1>1, <1>2, <1>3, <1>4, <1>5, <1>6 DEF LedgerNext

\* A booking is replaced only by a later observation, or one that a correction allows.
LEMMA NewestBookingStep ==
    ASSUME Types, [LedgerNext]_ledgerVars
    PROVE  \A o \in Orders :
             /\ booked'[o] # booked[o] => booked'[o].rev > booked[o].rev
             /\ booked'[o].qty < booked[o].qty => engine.view.orders[o].obs.correction
<1>1. CASE BookFill /\ Booking
  <2>1. engine.at = "book" /\ engine.todo # {}
    BY <1>1, BookFillIs
  <2>2. /\ Current \in Orders /\ Rev \in Nat /\ Old \in Fill /\ Obs \in Observation
    BY <2>1, ViewOfEngine
  <2>3. booked' = [booked EXCEPT ![Current] = BookedOf(Current)] /\ ~Ignored
    BY <1>1 DEF Booking
  <2>4. ASSUME NEW o \in Orders, o # Current
        PROVE  booked'[o] = booked[o]
    BY <2>3, <2>4 DEF Types
  <2>5. ASSUME NEW o \in Orders PROVE booked[o].qty \in Nat
    BY DEF Types, Fill
  <2>6. /\ booked'[Current].rev = Rev /\ booked'[Current].qty = Obs.qty
        /\ booked[Current] = Old
    BY <2>2, <2>3 DEF Types, BookedOf, Old
  <2>7. Old.rev \in Nat
    BY <2>2 DEF Fill
  <2>8. Rev > Old.rev /\ (Obs.qty < Old.qty => Obs.correction)
    BY <2>2, <2>3, <2>7 DEF Ignored
  <2>9. Obs = engine.view.orders[Current].obs
    BY DEF Obs
  <2>10. ASSUME NEW o \in Orders
         PROVE  /\ booked'[o] # booked[o] => booked'[o].rev > booked[o].rev
                /\ booked'[o].qty < booked[o].qty => engine.view.orders[o].obs.correction
    <3>1. CASE o # Current
      BY <3>1, <2>4, <2>5
    <3>2. CASE o = Current
      BY <3>2, <2>6, <2>8, <2>9
    <3> QED BY <3>1, <3>2
  <2> QED BY <2>10
<1>2. CASE booked' = booked
  <2>1. \A o \in Orders : booked[o].qty \in Nat
    BY DEF Types, Fill
  <2> QED BY <1>2, <2>1
<1>3. (BookFill /\ Booking) \/ booked' = booked
  <2>1. CASE BookFill
    BY <2>1, BookFillIs
  <2>2. CASE BrokerNext \/ ReadOrders \/ ReadBalance \/ Incomplete
    BY <2>2 DEF BrokerNext, ReadOrders, ReadBalance, Incomplete, fills
  <2>3. CASE BeginReconcile \/ CheckOwnership \/ ReconcileCash
    BY <2>3 DEF BeginReconcile, CheckOwnership, ReconcileCash, fills
  <2>4. CASE WriteEvidence \/ ResolveEvidence \/ LedgerRestart
    BY <2>4 DEF WriteEvidence, ResolveEvidence, LedgerRestart, fills
  <2>5. CASE UNCHANGED ledgerVars
    BY <2>5 DEF ledgerVars, fills
  <2> QED BY <2>1, <2>2, <2>3, <2>4, <2>5 DEF LedgerNext
<1> QED BY <1>1, <1>2, <1>3

----------------------------------------------------------------------------
(* The costs of an attributed account *)

\* An observation states the fee of its executions, or that it is not known.
Stated(obs) == (obs.fees = Unknown /\ obs.qty > 0) \/ obs.fees = Fee * obs.qty

\* An order whose costs are not unsettled carries the fee of every execution booked for it.
Costs ==
    /\ costsComplete <=> unsettled = {}
    /\ ~whole => /\ \A o \in Orders : exec[o].fee = Fee * exec[o].qty
                 /\ reading # <<>> => \A o \in Orders : Stated(reading.orders[o].obs)
                 /\ \A v \in views : \A o \in Orders : Stated(v.orders[o].obs)
                 /\ engine.at # "idle" => \A o \in Orders : Stated(engine.view.orders[o].obs)
                 /\ \A o \in Orders : o \notin unsettled => booked[o].fees = Fee * booked[o].qty

LEMMA FeeOfOne ==
    ASSUME NEW q \in Int
    PROVE  Fee * (q + 1) = Fee * q + Fee /\ Fee * (q - 1) = Fee * q - Fee /\ Fee * 0 = 0
BY LedgerAssumption

\* The broker charges one fee for each execution.
LEMMA FeesOfExecutions ==
    ASSUME Types, BrokerNext, \A o \in Orders : exec[o].fee = Fee * exec[o].qty
    PROVE  \A o \in Orders : exec'[o].fee = Fee * exec'[o].qty
<1>1. exec \in [Orders -> Execution]
  BY DEF Types
<1>2. ASSUME NEW o \in Orders, NEW p \in Prices, Execute(o, p)
      PROVE  \A x \in Orders : exec'[x].fee = Fee * exec'[x].qty
  <2>1. /\ exec'[o].qty = exec[o].qty + 1 /\ exec'[o].fee = exec[o].fee + Fee
        /\ \A x \in Orders \ {o} : exec'[x] = exec[x]
    BY <1>1, <1>2 DEF Execute
  <2>2. exec[o].qty \in Int
    BY <1>1 DEF Execution
  <2>3. exec'[o].fee = Fee * exec'[o].qty
    BY <2>1, <2>2, FeeOfOne
  <2> QED BY <2>1, <2>3
<1>3. ASSUME NEW o \in Orders, NEW p \in Prices, Bust(o, p)
      PROVE  \A x \in Orders : exec'[x].fee = Fee * exec'[x].qty
  <2>1. /\ exec'[o].qty = exec[o].qty - 1 /\ exec'[o].fee = exec[o].fee - Fee
        /\ \A x \in Orders \ {o} : exec'[x] = exec[x]
    BY <1>1, <1>3 DEF Bust
  <2>2. exec[o].qty \in Int
    BY <1>1 DEF Execution
  <2>3. exec'[o].fee = Fee * exec'[o].qty
    BY <2>1, <2>2, FeeOfOne
  <2> QED BY <2>1, <2>3
<1>4. ASSUME NEW o \in Orders, Settle(o)
      PROVE  \A x \in Orders : exec'[x].fee = Fee * exec'[x].qty
  <2>1. /\ exec'[o].qty = exec[o].qty /\ exec'[o].fee = exec[o].fee
        /\ \A x \in Orders \ {o} : exec'[x] = exec[x]
    <3> DEFINE e == [exec[o] EXCEPT !.settled = TRUE]
    <3>1. exec[o] \in Execution
      BY <1>1
    <3>2. e.qty = exec[o].qty /\ e.fee = exec[o].fee
      BY <3>1 DEF Execution
    <3>3. exec' = [exec EXCEPT ![o] = e]
      BY <1>4 DEF Settle
    <3> HIDE DEF e
    <3> QED BY <3>2, <3>3, <1>1
  <2> QED BY <2>1
<1>5. CASE exec' = exec
  BY <1>5
<1>6. ASSUME NEW amount \in {-1, 2}, Transfer(amount) PROVE exec' = exec
  BY <1>6 DEF Transfer
<1>7. ReportCosts => exec' = exec
  BY DEF ReportCosts
<1> QED
  BY <1>2, <1>3, <1>4, <1>5, <1>6, <1>7 DEF BrokerNext

LEMMA ObservedStates ==
    ASSUME Types, ~whole, NEW o \in Orders, exec[o].fee = Fee * exec[o].qty
    PROVE  Stated(Observed(o))
<1> DEFINE e == exec[o]
<1>1. e.qty \in Nat
  BY DEF Types, Execution
<1>2. Observed(o).qty = e.qty
  BY DEF Observed
<1>3. CASE e.qty = 0
  <2>1. Observed(o).fees = 0
    BY <1>3 DEF Observed
  <2> QED BY <1>2, <1>3, <2>1, FeeOfOne DEF Stated
<1>4. CASE e.qty # 0 /\ e.settled
  <2>1. Observed(o).fees = e.fee
    BY <1>4 DEF Observed
  <2> QED BY <1>2, <2>1 DEF Stated
<1>5. CASE e.qty # 0 /\ ~e.settled
  <2>1. Observed(o).fees = Unknown /\ e.qty > 0
    BY <1>1, <1>5 DEF Observed
  <2> QED BY <1>2, <2>1 DEF Stated
<1> QED BY <1>3, <1>4, <1>5

LEMMA BookingCosts ==
    ASSUME Types, Costs, BookFill, Booking
    PROVE  /\ costsComplete' <=> unsettled' = {}
           /\ ~whole => \A o \in Orders : o \notin unsettled' => booked'[o].fees = Fee * booked'[o].qty
<1>1. engine.at = "book" /\ engine.todo # {}
  BY BookFillIs
<1>2. Current \in Orders /\ Obs \in Observation /\ Old \in Fill
  BY <1>1, ViewOfEngine
<1>3. costsComplete' <=> unsettled' = {}
  <2>1. CASE Settlement \/ (Obs.fees = Unknown /\ Obs.qty > 0)
    BY <2>1 DEF Booking
  <2>2. CASE ~Settlement /\ ~(Obs.fees = Unknown /\ Obs.qty > 0)
    BY <2>2 DEF Booking, Unsettled, Costs
  <2> QED BY <2>1, <2>2
<1>4. ASSUME ~whole, NEW o \in Orders, o \notin unsettled'
      PROVE  booked'[o].fees = Fee * booked'[o].qty
  <2>1. booked' = [booked EXCEPT ![Current] = BookedOf(Current)] /\ unsettled' = Unsettled
    BY DEF Booking
  <2>2. CASE o # Current
    <3>1. booked'[o] = booked[o] /\ o \notin unsettled
      BY <1>4, <2>1, <2>2 DEF Types, Unsettled
    <3> QED BY <1>4, <3>1 DEF Costs
  <2>3. CASE o = Current
    <3>1. booked'[o].fees = NewFees /\ booked'[o].qty = Obs.qty
      BY <1>2, <2>1, <2>3 DEF Types, BookedOf
    <3>2. Stated(Obs)
      BY <1>1, <1>2, <1>4 DEF Costs, Obs
    <3>3. ~(Obs.fees = Unknown /\ Obs.qty > 0)
      BY <1>4, <2>1, <2>3 DEF Unsettled
    <3>4. Obs.fees = Fee * Obs.qty
      BY <3>2, <3>3 DEF Stated
    <3>5. Obs.fees # Unknown
      <4>1. Fee * Obs.qty \in Nat
        BY <1>2, LedgerAssumption DEF Observation
      <4> QED BY <3>4, <4>1 DEF Unknown
    <3> QED BY <3>1, <3>4, <3>5 DEF NewFees
  <2> QED BY <2>2, <2>3
<1> QED BY <1>3, <1>4

LEMMA CostsStep == ASSUME Types, Costs, [LedgerNext]_ledgerVars PROVE Costs'
<1>1. CASE BrokerNext
  <2>1. UNCHANGED <<whole, reading, views, engine, booked, unsettled, costsComplete>>
    BY <1>1 DEF BrokerNext, snapshots, fills
  <2>2. ~whole => \A o \in Orders : exec'[o].fee = Fee * exec'[o].qty
    BY <1>1, FeesOfExecutions DEF Costs
  <2> QED BY <2>1, <2>2 DEF Costs
<1>2. CASE ReadOrders
  <2>1. UNCHANGED <<whole, exec, views, engine, booked, unsettled, costsComplete>>
    BY <1>2 DEF ReadOrders, broker, fills
  <2>2. \A o \in Orders : reading'.orders[o].obs = Observed(o)
    BY <1>2 DEF ReadOrders
  <2>3. ~whole => \A o \in Orders : Stated(reading'.orders[o].obs)
    BY <2>2, ObservedStates DEF Costs
  <2> QED BY <2>1, <2>3 DEF Costs
<1>3. CASE ReadBalance
  <2>1. UNCHANGED <<whole, exec, engine, booked, unsettled, costsComplete>> /\ reading' = <<>>
    BY <1>3 DEF ReadBalance, broker, fills
  <2>2. views' = views \cup {Taken} /\ reading # <<>>
    BY <1>3 DEF ReadBalance, Taken
  <2>3. Taken.orders = reading.orders
    BY DEF Taken
  <2> QED BY <2>1, <2>2, <2>3 DEF Costs
<1>4. CASE Incomplete
  BY <1>4 DEF Incomplete, Costs, broker, fills
<1>5. CASE BeginReconcile
  <2>1. UNCHANGED <<whole, exec, reading, booked, unsettled, costsComplete>>
    BY <1>5 DEF BeginReconcile, broker, snapshots, fills
  <2>2. PICK v \in views : views' = views \ {v} /\ engine' = [at |-> "book", view |-> v, todo |-> Orders]
    BY <1>5 DEF BeginReconcile
  <2>3. engine'.view = v
    BY <2>2
  <2> QED BY <2>1, <2>2, <2>3 DEF Costs
<1>6. CASE BookFill
  <2>1. UNCHANGED <<whole, exec, reading, views>> /\ engine \in Engine /\ engine.at = "book"
    BY <1>6, BookFillIs DEF broker, snapshots, Types
  <2>2. engine'.at = "idle" \/ engine'.view = engine.view
    <3>1. CASE engine' = Idle
      BY <3>1 DEF Idle
    <3>2. CASE engine' = [engine EXCEPT !.todo = @ \ {Current}]
      BY <3>2, <2>1 DEF Engine
    <3> QED BY <3>1, <3>2, <1>6, BookFillIs
  <2>3. /\ costsComplete' <=> unsettled' = {}
        /\ ~whole => \A o \in Orders : o \notin unsettled' => booked'[o].fees = Fee * booked'[o].qty
    <3>1. CASE Booking
      BY <1>6, <3>1, BookingCosts
    <3>2. CASE UNCHANGED <<booked, unsettled, costsComplete>>
      BY <3>2 DEF Costs
    <3> QED BY <3>1, <3>2, <1>6, BookFillIs
  <2> QED BY <2>1, <2>2, <2>3 DEF Costs
<1>7. CASE CheckOwnership
  <2>1. /\ UNCHANGED <<whole, exec, reading, views, booked, unsettled, costsComplete>>
        /\ engine \in Engine /\ engine.at = "book"
    BY <1>7 DEF CheckOwnership, broker, snapshots, fills, Types
  <2>2. engine'.at = "idle" \/ engine'.view = engine.view
    <3>1. CASE engine' = Idle
      BY <3>1 DEF Idle
    <3>2. CASE engine' = [engine EXCEPT !.at = IF whole THEN "cash" ELSE "evidence"]
      BY <3>2, <2>1 DEF Engine
    <3> QED BY <3>1, <3>2, <1>7 DEF CheckOwnership
  <2> QED BY <2>1, <2>2 DEF Costs
<1>8. CASE ReconcileCash
  <2>1. /\ UNCHANGED <<whole, exec, reading, views, booked, unsettled, costsComplete>>
        /\ engine \in Engine /\ engine.at = "cash"
    BY <1>8 DEF ReconcileCash, broker, snapshots, fills, Types
  <2>2. engine'.at = "idle" \/ engine'.view = engine.view
    <3>1. engine' = Idle \/ engine' = [engine EXCEPT !.at = "evidence"]
      BY <1>8 DEF ReconcileCash
    <3> QED BY <3>1, <2>1 DEF Idle, Engine
  <2> QED BY <2>1, <2>2 DEF Costs
<1>9. CASE WriteEvidence
  BY <1>9 DEF WriteEvidence, Costs, broker, snapshots, fills
<1>10. CASE ResolveEvidence
  <2>1. /\ UNCHANGED <<whole, exec, reading, views, booked, unsettled, costsComplete>>
        /\ engine'.at = "idle"
    BY <1>10 DEF ResolveEvidence, Idle, broker, snapshots, fills
  <2> QED BY <2>1 DEF Costs
<1>11. CASE LedgerRestart
  <2>1. /\ UNCHANGED <<whole, exec, booked, unsettled, costsComplete>>
        /\ engine'.at = "idle" /\ views' = {} /\ reading' = <<>>
    BY <1>11 DEF LedgerRestart, Idle, broker, fills
  <2> QED BY <2>1 DEF Costs
<1>12. CASE UNCHANGED ledgerVars
  BY <1>12 DEF ledgerVars, Costs, broker, snapshots, fills
<1> QED
  BY <1>1, <1>2, <1>3, <1>4, <1>5, <1>6, <1>7, <1>8, <1>9, <1>10, <1>11, <1>12 DEF LedgerNext

----------------------------------------------------------------------------
(* Adjustments, the evidence that explains them, and the external flows *)

LEMMA TotalInt ==
    ASSUME NEW S, IsFiniteSet(S), S \subseteq Adjustment
    PROVE  Total(S) \in Int
<1> DEFINE f == [a \in S |-> a.amount]
<1>1. \A a \in S : f[a] \in Int
  BY DEF Adjustment
<1> HIDE DEF f
<1>2. SumFunctionOnSet(f, S) \in Int
  BY <1>1, SumInt
<1> QED BY <1>2 DEF f, Total

LEMMA TotalEmpty == Total({}) = 0
BY SumEmpty DEF Total

LEMMA TotalOne ==
    ASSUME NEW a, a.amount \in Int
    PROVE  Total({a}) = a.amount
<1> DEFINE f == [x \in {a} |-> x.amount]
<1>1. f[a] = a.amount
  OBVIOUS
<1> HIDE DEF f
<1>2. SumFunctionOnSet(f, {} \cup {a}) = f[a] + SumFunctionOnSet(f, {})
  <2>1. IsFiniteSet({}) /\ \A z \in {} : f[z] \in Int
    BY FS_EmptySet
  <2>2. a \notin {} /\ f[a] \in Int
    BY <1>1
  <2> QED BY <2>1, <2>2, SumWith
<1>3. SumFunctionOnSet(f, {}) = 0
  BY SumEmpty
<1>4. {} \cup {a} = {a}
  OBVIOUS
<1>5. SumFunctionOnSet(f, {a}) = a.amount
  BY <1>1, <1>2, <1>3, <1>4
<1> QED BY <1>5 DEF f, Total

LEMMA TotalUnion ==
    ASSUME NEW A, NEW B, IsFiniteSet(A), IsFiniteSet(B), A \cap B = {},
           \A a \in A \cup B : a.amount \in Int
    PROVE  Total(A \cup B) = Total(A) + Total(B)
<1> DEFINE S == A \cup B
           f == [x \in S |-> x.amount]
           g == [x \in A |-> x.amount]
           h == [x \in B |-> x.amount]
<1>1. /\ \A x \in S : f[x] \in Int
      /\ \A x \in A : g[x] \in Int /\ g[x] = f[x]
      /\ \A x \in B : h[x] \in Int /\ h[x] = f[x]
  OBVIOUS
<1>2. Total(A \cup B) = SumFunctionOnSet(f, S)
  BY DEF Total
<1>3. Total(A) = SumFunctionOnSet(g, A) /\ Total(B) = SumFunctionOnSet(h, B)
  BY DEF Total
<1>4. SumFunctionOnSet(g, A) = SumFunctionOnSet(f, A)
  <2> HIDE DEF f, g, h, S
  <2> QED BY <1>1, SumSame
<1>5. SumFunctionOnSet(h, B) = SumFunctionOnSet(f, B)
  <2> HIDE DEF f, g, h, S
  <2> QED BY <1>1, SumSame
<1>6. SumFunctionOnSet(f, A \cup B) = SumFunctionOnSet(f, A) + SumFunctionOnSet(f, B)
  <2>1. \A x \in A \cup B : f[x] \in Int
    BY <1>1
  <2> HIDE DEF f, g, h, S
  <2> QED BY <2>1, SumDisjoint
<1> QED
  <2> HIDE DEF f, g, h
  <2> QED BY <1>2, <1>3, <1>4, <1>5, <1>6

\* What a set of entries explains as transfers.
FlowSum(es) == SumFunctionOnSet([e \in es |-> e.flow], es)

LEMMA FlowSumUnion ==
    ASSUME NEW A, NEW B, IsFiniteSet(A), IsFiniteSet(B), A \cap B = {},
           \A e \in A \cup B : e.flow \in Int
    PROVE  FlowSum(A \cup B) = FlowSum(A) + FlowSum(B)
<1> DEFINE S == A \cup B
           f == [x \in S |-> x.flow]
           g == [x \in A |-> x.flow]
           h == [x \in B |-> x.flow]
<1>1. /\ \A x \in S : f[x] \in Int
      /\ \A x \in A : g[x] \in Int /\ g[x] = f[x]
      /\ \A x \in B : h[x] \in Int /\ h[x] = f[x]
  OBVIOUS
<1>2. FlowSum(A \cup B) = SumFunctionOnSet(f, S)
  BY DEF FlowSum
<1>3. FlowSum(A) = SumFunctionOnSet(g, A) /\ FlowSum(B) = SumFunctionOnSet(h, B)
  BY DEF FlowSum
<1>4. SumFunctionOnSet(g, A) = SumFunctionOnSet(f, A)
  <2> HIDE DEF f, g, h, S
  <2> QED BY <1>1, SumSame
<1>5. SumFunctionOnSet(h, B) = SumFunctionOnSet(f, B)
  <2> HIDE DEF f, g, h, S
  <2> QED BY <1>1, SumSame
<1>6. SumFunctionOnSet(f, A \cup B) = SumFunctionOnSet(f, A) + SumFunctionOnSet(f, B)
  <2>1. \A x \in A \cup B : f[x] \in Int
    BY <1>1
  <2> HIDE DEF f, g, h, S
  <2> QED BY <2>1, SumDisjoint
<1> QED
  <2> HIDE DEF f, g, h
  <2> QED BY <1>2, <1>3, <1>4, <1>5, <1>6

\* The flows of entries whose last adjustments differ in time add up to the entries' flows.
LEMMA TotalOfFlows ==
    ASSUME NEW es, IsFiniteSet(es),
           \A e \in es : e.flow \in Int /\ (e.kind # "CASH_TRANSFER" => e.flow = 0),
           \A d, e \in es : d # e /\ d.kind = "CASH_TRANSFER" /\ e.kind = "CASH_TRANSFER"
                               => Latest(d.items) # Latest(e.items)
    PROVE  /\ IsFiniteSet(FlowsOf(es)) /\ \A f \in FlowsOf(es) : f.amount \in Int
           /\ Total(FlowsOf(es)) = FlowSum(es)
<1> DEFINE ts == {x \in es : x.kind = "CASH_TRANSFER"}
           k == [e \in ts |-> [at |-> Latest(e.items), amount |-> e.flow]]
           fs == FlowsOf(es)
           amount == [a \in fs |-> a.amount]
           flow == [e \in es |-> e.flow]
<1>1. fs = {k[e] : e \in ts}
  BY DEF FlowsOf
<1>2. IsFiniteSet(ts)
  BY FS_Subset
<1>3. \A e \in ts : k[e].at = Latest(e.items) /\ k[e].amount = e.flow /\ e \in es
  OBVIOUS
<1>4. \A d, e \in ts : k[d] = k[e] => d = e
  BY <1>3
<1>5. \A e \in ts : flow[e] \in Int /\ k[e] \in fs /\ amount[k[e]] = flow[e]
  BY <1>1, <1>3
<1>6. \A a \in fs : a.amount \in Int
  BY <1>1, <1>3
<1>7. IsFiniteSet(fs)
  <2>1. k \in [ts -> fs] /\ \A z \in fs : \E e \in ts : k[e] = z
    BY <1>1
  <2>2. k \in Surjection(ts, fs)
    BY <2>1 DEF Surjection
  <2> HIDE DEF k, ts, fs
  <2> QED BY <2>2, <1>2, FS_Surjection
<1>8. SumFunctionOnSet(amount, {k[e] : e \in ts}) = SumFunctionOnSet(flow, ts)
  <2> HIDE DEF k, ts, fs, amount, flow
  <2> QED BY <1>2, <1>4, <1>5, SumImage
<1>9. SumFunctionOnSet(flow, ts) = SumFunctionOnSet(flow, es)
  <2>1. ts \in SUBSET es /\ \A e \in es \ ts : flow[e] = 0
    OBVIOUS
  <2>2. \A e \in ts : flow[e] \in Int /\ flow[e] = flow[e]
    BY <1>5
  <2> HIDE DEF k, ts, fs, amount, flow
  <2> QED BY <2>1, <2>2, SumWhere
<1>10. Total(fs) = SumFunctionOnSet(amount, fs) /\ FlowSum(es) = SumFunctionOnSet(flow, es)
  BY DEF Total, FlowSum
<1>11. Total(fs) = FlowSum(es)
  <2> HIDE DEF k, ts, fs, amount, flow
  <2> QED BY <1>1, <1>8, <1>9, <1>10
<1> QED BY <1>6, <1>7, <1>11

Entry(e) ==
    /\ e.items \subseteq Adjustment /\ IsFiniteSet(e.items)
    /\ e.flow \in Int /\ (e.kind # "CASH_TRANSFER" => e.flow = 0)

\* Adjustments are of balances already taken; an written applied keeps its own, and its id.
Explained ==
    /\ IsFiniteSet(pending) /\ pending \subseteq Adjustment
    /\ \A a \in pending : a.at <= seen.at
    /\ IsFiniteSet(evidence) /\ \A e \in evidence : Entry(e)
    /\ \A d, e \in evidence : d.id = e.id => d = e
    /\ IsFiniteSet(applied)
    /\ \A e \in applied : Entry(e) /\ \A a \in e.items : a.at <= seen.at
    /\ IsFiniteSet(flows) /\ \A f \in flows : f.amount \in Int
    /\ ExplainedOnce

\* The adjustment a balance leaves, if any.
Left(v) == {a \in {[at |-> v.at, amount |-> Residual(v)]} : a.amount /= 0}

LEMMA LeftIs ==
    ASSUME Types, Times, ReconcileCash
    PROVE  /\ Left(engine.view) \subseteq Adjustment /\ IsFiniteSet(Left(engine.view))
           /\ Residual(engine.view) \in Int /\ Total(Left(engine.view)) = Residual(engine.view)
           /\ ~Stale(engine.view) => \A a \in Left(engine.view) : a.at > seen.at
           /\ engine.view.at \in Nat /\ seen.at \in Nat
<1> DEFINE v == engine.view
           r == Residual(v)
           a == [at |-> v.at, amount |-> r]
<1>1. v \in View /\ seen \in Seen /\ v.at # seen.at
  BY DEF ReconcileCash, Types, Times
<1>2. v.at \in Nat /\ v.cash \in Int /\ v.costs \in Int /\ seen.at \in Nat /\ seen.costs \in Int
  BY <1>1 DEF View, Seen
<1>3. r \in Int
  BY <1>2 DEF Types, Amounts, Residual, CostDelta
<1>4. a \in Adjustment /\ a.amount = r /\ a.at = v.at
  BY <1>2, <1>3 DEF Adjustment
<1>5. Left(v) = {x \in {a} : x.amount # 0}
  BY DEF Left
<1>6. ~Stale(v) => v.at > seen.at
  BY <1>1, <1>2 DEF Stale
<1> HIDE DEF r, a, v
<1>7. CASE r = 0
  <2>1. Left(v) = {}
    BY <1>4, <1>5, <1>7
  <2> QED BY <1>2, <1>3, <1>7, <2>1, TotalEmpty, FS_EmptySet DEF r, v
<1>8. CASE r # 0
  <2>1. Left(v) = {a}
    BY <1>4, <1>5, <1>8
  <2>2. IsFiniteSet({a})
    BY FS_Singleton
  <2>3. Total({a}) = r
    BY <1>3, <1>4, TotalOne
  <2> QED BY <1>2, <1>3, <1>4, <1>6, <2>1, <2>2, <2>3 DEF r, v
<1> QED BY <1>7, <1>8

LEMMA WriteStep == ASSUME Explained, WriteEvidence PROVE Explained'
<1>1. UNCHANGED <<pending, applied, flows, seen>>
  BY DEF WriteEvidence, flowsKept
<1>2. PICK id \in 1..MaxEvidence, items \in (SUBSET pending) \ {{}},
           kind \in {"CASH_TRANSFER", "INTERNAL_PNL", "BROKER_CORRECTION"}, slip \in {0, 1} :
        evidence' = {e \in evidence : e.id /= id} \cup
           {[id |-> id, items |-> items, kind |-> kind,
             internal |-> (IF kind = "INTERNAL_PNL" THEN Total(items) ELSE 0) + slip,
             flow |-> IF kind = "CASH_TRANSFER" THEN Total(items) ELSE 0]}
  BY DEF WriteEvidence
<1> DEFINE internal == (IF kind = "INTERNAL_PNL" THEN Total(items) ELSE 0) + slip
           flow == IF kind = "CASH_TRANSFER" THEN Total(items) ELSE 0
           written == [id |-> id, items |-> items, kind |-> kind, internal |-> internal, flow |-> flow]
           kept == {e \in evidence : e.id /= id}
<1>3. evidence' = kept \cup {written}
  BY <1>2
<1>4. IsFiniteSet(items) /\ items \subseteq Adjustment
  BY FS_Subset DEF Explained
<1>5. flow \in Int /\ (kind # "CASH_TRANSFER" => flow = 0)
  BY <1>4, TotalInt
<1>6. written.items = items /\ written.flow = flow /\ written.kind = kind /\ written.id = id
  OBVIOUS
<1>7. kept \subseteq evidence /\ \A e \in kept : e.id # id
  OBVIOUS
<1>8. IsFiniteSet(kept)
  <2>1. IsFiniteSet(evidence)
    BY DEF Explained
  <2> HIDE DEF kept
  <2> QED BY <1>7, <2>1, FS_Subset
<1> HIDE DEF internal, flow, written, kept
<1>9. Entry(written)
  BY <1>4, <1>5, <1>6 DEF Entry
<1>10. IsFiniteSet(evidence')
  BY <1>3, <1>8, FS_AddElement
<1>11. \A e \in evidence' : Entry(e)
  BY <1>3, <1>7, <1>9 DEF Explained
<1>12. \A d, e \in evidence' : d.id = e.id => d = e
  BY <1>3, <1>6, <1>7 DEF Explained
<1>13. ExplainedOnce'
  BY <1>1 DEF Explained, ExplainedOnce, Total
<1> QED
  BY <1>1, <1>10, <1>11, <1>12, <1>13 DEF Explained

\* What the adjustments of some entries leave pending, and explain.
ItemsOf(es) == UNION {e.items : e \in es}

LEMMA ItemsFinite ==
    ASSUME NEW es, IsFiniteSet(es), \A e \in es : IsFiniteSet(e.items)
    PROVE  IsFiniteSet(ItemsOf(es))
<1> DEFINE k == [e \in es |-> e.items]
           S == {e.items : e \in es}
<1>1. k \in [es -> S] /\ \A z \in S : \E e \in es : k[e] = z
  OBVIOUS
<1>2. k \in Surjection(es, S)
  BY <1>1 DEF Surjection
<1>3. \A T \in S : IsFiniteSet(T)
  OBVIOUS
<1>4. IsFiniteSet(S)
  <2> HIDE DEF k, S
  <2> QED BY <1>2, FS_Surjection
<1> HIDE DEF k, S
<1>5. IsFiniteSet(UNION S)
  BY <1>3, <1>4, FS_UNION
<1> QED BY <1>5 DEF ItemsOf, S

LEMMA FreshIs ==
    ASSUME Explained, EvidenceHolds
    PROVE  /\ IsFiniteSet(Fresh) /\ \A e \in Fresh : Entry(e) /\ e.items \subseteq pending
           /\ Fresh \cap applied = {}
           /\ \A e \in Fresh : \A a \in applied : e.id # a.id
           /\ \A d, e \in Fresh : d # e => d.id # e.id /\ d.items \cap e.items = {}
<1>1. Fresh \subseteq evidence /\ \A e \in Fresh : \A a \in applied : e.id # a.id
  BY DEF Fresh
<1>2. IsFiniteSet(Fresh)
  BY <1>1, FS_Subset DEF Explained
<1>3. \A e \in Fresh : Entry(e) /\ e.items \subseteq pending
  BY <1>1 DEF Explained, EvidenceHolds
<1>4. Fresh \cap applied = {}
  BY <1>1
<1>5. \A d, e \in Fresh : d # e => d.id # e.id /\ d.items \cap e.items = {}
  BY <1>1 DEF Explained, EvidenceHolds
<1> QED BY <1>1, <1>2, <1>3, <1>4, <1>5

LEMMA ResolveStep ==
    ASSUME Explained, EvidenceHolds, UNCHANGED <<seen, evidence>>,
           applied' = applied \cup Fresh,
           pending' = pending \ ItemsOf(Fresh),
           flows' = flows \cup FlowsOf(Fresh)
    PROVE  Explained'
<1>1. /\ IsFiniteSet(Fresh) /\ \A e \in Fresh : Entry(e) /\ e.items \subseteq pending
      /\ Fresh \cap applied = {}
      /\ \A e \in Fresh : \A a \in applied : e.id # a.id
      /\ \A d, e \in Fresh : d # e => d.id # e.id /\ d.items \cap e.items = {}
  BY FreshIs
<1>2. IsFiniteSet(pending') /\ pending' \subseteq pending
  BY FS_Subset DEF Explained
<1>3. IsFiniteSet(applied')
  BY <1>1, FS_Union DEF Explained
<1>4. /\ \A e \in Fresh : e.flow \in Int /\ (e.kind # "CASH_TRANSFER" => e.flow = 0)
      /\ \A d, e \in Fresh : d # e /\ d.kind = "CASH_TRANSFER" /\ e.kind = "CASH_TRANSFER"
                                => Latest(d.items) # Latest(e.items)
      /\ \A f \in FlowsOf(Fresh) : \A g \in flows : f.at # g.at
  BY <1>1 DEF Entry, EvidenceHolds
<1>5. /\ IsFiniteSet(FlowsOf(Fresh)) /\ \A f \in FlowsOf(Fresh) : f.amount \in Int
      /\ Total(FlowsOf(Fresh)) = FlowSum(Fresh)
  <2> DEFINE es == Fresh
  <2>1. /\ IsFiniteSet(es)
        /\ \A e \in es : e.flow \in Int /\ (e.kind # "CASH_TRANSFER" => e.flow = 0)
        /\ \A d, e \in es : d # e /\ d.kind = "CASH_TRANSFER" /\ e.kind = "CASH_TRANSFER"
                                => Latest(d.items) # Latest(e.items)
    BY <1>1, <1>4
  <2> HIDE DEF es
  <2>2. /\ IsFiniteSet(FlowsOf(es)) /\ \A f \in FlowsOf(es) : f.amount \in Int
        /\ Total(FlowsOf(es)) = FlowSum(es)
    BY <2>1, TotalOfFlows
  <2> QED BY <2>2 DEF es
<1>6. FlowsOf(Fresh) \cap flows = {}
  BY <1>4
<1>7. IsFiniteSet(flows') /\ \A f \in flows' : f.amount \in Int
  BY <1>5, FS_Union DEF Explained
<1>8. Total(flows') = Total(flows) + FlowSum(Fresh)
  <2> DEFINE fs == FlowsOf(Fresh)
  <2>1. /\ IsFiniteSet(flows) /\ IsFiniteSet(fs) /\ flows \cap fs = {}
        /\ \A f \in flows \cup fs : f.amount \in Int
    BY <1>5, <1>6 DEF Explained
  <2> HIDE DEF fs
  <2>2. Total(flows \cup fs) = Total(flows) + Total(fs)
    BY <2>1, TotalUnion
  <2> QED BY <1>5, <2>2 DEF fs
<1>9. FlowSum(applied') = FlowSum(applied) + FlowSum(Fresh)
  <2> DEFINE es == Fresh
  <2>1. /\ IsFiniteSet(applied) /\ IsFiniteSet(es) /\ applied \cap es = {}
        /\ \A e \in applied \cup es : e.flow \in Int
    BY <1>1 DEF Explained, Entry
  <2> HIDE DEF es
  <2>2. FlowSum(applied \cup es) = FlowSum(applied) + FlowSum(es)
    BY <2>1, FlowSumUnion
  <2> QED BY <2>2 DEF es
<1>10. FlowSum(applied) = Total(flows)
  BY DEF Explained, ExplainedOnce, FlowSum
<1>11. FlowSum(applied') = Total(flows')
  BY <1>8, <1>9, <1>10
<1>12. \A a, b \in applied' : a /= b => a.id /= b.id /\ a.items \cap b.items = {}
  <2> TAKE a, b \in applied'
  <2> HAVE a # b
  <2>1. \A x \in applied : x.items \cap pending = {}
    BY DEF Explained, ExplainedOnce
  <2>2. CASE a \in applied /\ b \in applied
    BY <2>2 DEF Explained, ExplainedOnce
  <2>3. CASE a \in Fresh /\ b \in Fresh
    BY <1>1, <2>3
  <2>4. CASE a \in Fresh /\ b \in applied
    BY <1>1, <2>1, <2>4
  <2>5. CASE a \in applied /\ b \in Fresh
    BY <1>1, <2>1, <2>5
  <2> QED BY <2>2, <2>3, <2>4, <2>5
<1>13. \A a \in applied' : a.items \cap pending' = {}
  <2> TAKE a \in applied'
  <2>1. CASE a \in applied
    BY <1>2, <2>1 DEF Explained, ExplainedOnce
  <2>2. CASE a \in Fresh
    BY <2>2 DEF ItemsOf
  <2> QED BY <2>1, <2>2
<1>14. ExplainedOnce'
  BY <1>11, <1>12, <1>13 DEF ExplainedOnce, FlowSum
<1>15. \A e \in applied' : Entry(e) /\ \A a \in e.items : a.at <= seen'.at
  BY <1>1 DEF Explained
<1>16. pending' \subseteq Adjustment /\ \A a \in pending' : a.at <= seen'.at
  BY <1>2 DEF Explained
<1>17. /\ IsFiniteSet(evidence') /\ \A e \in evidence' : Entry(e)
       /\ \A d, e \in evidence' : d.id = e.id => d = e
  BY DEF Explained
<1> QED
  BY <1>2, <1>3, <1>7, <1>14, <1>15, <1>16, <1>17 DEF Explained

LEMMA ReconcileExplained ==
    ASSUME Types, Times, Explained, ReconcileCash
    PROVE  Explained'
<1>1. UNCHANGED <<evidence, applied, flows>>
  BY DEF ReconcileCash, flowsKept
<1>2. CASE Stale(engine.view)
  <2>1. UNCHANGED <<pending, seen>>
    BY <1>2 DEF ReconcileCash, flowsKept
  <2> QED BY <1>1, <2>1 DEF Explained, ExplainedOnce, Total
<1>3. CASE ~Stale(engine.view)
  <2> DEFINE item == Left(engine.view)
             at == engine.view.at
  <2>1. pending' = pending \cup item /\ seen'.at = at
    BY <1>3 DEF ReconcileCash, Left
  <2>2. /\ item \subseteq Adjustment /\ IsFiniteSet(item) /\ at \in Nat /\ seen.at \in Nat
        /\ \A a \in item : a.at > seen.at
    BY <1>3, LeftIs
  <2>3. \A a \in item : a.at = at
    BY DEF Left
  <2>4. at >= seen.at
    BY <1>3, <2>2 DEF Stale
  <2> HIDE DEF item, at
  <2>5. \A e \in applied : \A a \in e.items : a.at \in Nat /\ a.at <= seen.at
    BY DEF Explained, Entry, Adjustment
  <2>6. \A a \in pending : a.at \in Nat /\ a.at <= seen.at
    BY DEF Explained, Adjustment
  <2>7. \A e \in applied : e.items \cap item = {}
    <3> SUFFICES ASSUME NEW e \in applied, NEW a \in e.items, a \in item PROVE FALSE
      OBVIOUS
    <3>1. a.at > seen.at /\ a.at <= seen.at /\ a.at \in Nat
      BY <2>2, <2>5
    <3> QED BY <3>1, <2>2
  <2>8. ExplainedOnce'
    BY <1>1, <2>1, <2>7 DEF Explained, ExplainedOnce, Total
  <2>9. IsFiniteSet(pending') /\ pending' \subseteq Adjustment
    BY <2>1, <2>2, FS_Union DEF Explained
  <2>10. \A a \in pending' : a.at <= seen'.at
    <3> TAKE a \in pending'
    <3>1. CASE a \in pending
      BY <2>1, <2>2, <2>4, <2>6, <3>1
    <3>2. CASE a \in item
      BY <2>1, <2>2, <2>3, <3>2
    <3> QED BY <2>1, <3>1, <3>2
  <2>11. \A e \in applied' : Entry(e) /\ \A a \in e.items : a.at <= seen'.at
    <3> SUFFICES ASSUME NEW e \in applied PROVE Entry(e) /\ \A a \in e.items : a.at <= seen'.at
      BY <1>1
    <3>1. \A a \in e.items : a.at <= seen'.at
      BY <2>1, <2>2, <2>4, <2>5
    <3> QED BY <3>1 DEF Explained
  <2> QED BY <1>1, <2>8, <2>9, <2>10, <2>11 DEF Explained
<1> QED BY <1>2, <1>3

LEMMA ExplainedStep == ASSUME Types, Times, Explained, [LedgerNext]_ledgerVars PROVE Explained'
<1>1. CASE WriteEvidence
  BY <1>1, WriteStep
<1>2. CASE ReconcileCash
  BY <1>2, ReconcileExplained
<1>3. CASE ResolveEvidence
  <2>1. UNCHANGED <<seen, evidence>>
    BY <1>3 DEF ResolveEvidence
  <2>2. CASE EvidenceHolds /\ Fresh /= {}
    <3>1. applied' = applied \cup Fresh /\ pending' = pending \ ItemsOf(Fresh)
          /\ flows' = flows \cup FlowsOf(Fresh)
      BY <1>3, <2>2 DEF ResolveEvidence, ItemsOf
    <3> QED BY <2>1, <2>2, <3>1, ResolveStep
  <2>3. CASE ~(EvidenceHolds /\ Fresh /= {})
    <3>1. UNCHANGED <<pending, applied, flows>>
      BY <1>3, <2>3 DEF ResolveEvidence, flowsKept
    <3> QED BY <2>1, <3>1 DEF Explained, ExplainedOnce, Total
  <2> QED BY <2>2, <2>3
<1>4. CASE UNCHANGED <<pending, applied, flows, evidence, seen>>
  BY <1>4 DEF Explained, ExplainedOnce, Total
<1>5. CASE BookFill
  <2>1. UNCHANGED <<pending, applied, flows, evidence, seen>>
    BY <1>5, BookFillIs DEF flowsKept
  <2> QED BY <2>1, <1>4
<1>6. CASE BrokerNext \/ ReadOrders \/ ReadBalance \/ Incomplete
  <2>1. UNCHANGED <<pending, applied, flows, evidence, seen>>
    BY <1>6 DEF BrokerNext, ReadOrders, ReadBalance, Incomplete, flowsKept
  <2> QED BY <2>1, <1>4
<1>7. CASE BeginReconcile \/ CheckOwnership \/ LedgerRestart
  <2>1. UNCHANGED <<pending, applied, flows, evidence, seen>>
    BY <1>7 DEF BeginReconcile, CheckOwnership, LedgerRestart, flowsKept
  <2> QED BY <2>1, <1>4
<1>8. CASE UNCHANGED ledgerVars
  <2>1. UNCHANGED <<pending, applied, flows, evidence, seen>>
    BY <1>8 DEF ledgerVars, flowsKept
  <2> QED BY <2>1, <1>4
<1> QED
  BY <1>1, <1>2, <1>3, <1>5, <1>6, <1>7, <1>8 DEF LedgerNext

----------------------------------------------------------------------------
(* Cash *)

\* A balance says what the broker's account held when it was read.
Consistent(v) == v.cash = Capital - v.turnover - v.charged + v.transfers

\* The fees booked, and the cash of the ledger before and after the balances.
FeesBooked(fill) == SumFunctionOnSet([o \in Orders |-> fill[o].fees], Orders)

\* What moved without being explained by a booked trade or a reported cost.
Residue == Total(pending) + Total(ItemsOf(applied))

Balances ==
    /\ \A v \in views : Consistent(v)
    /\ engine.at # "idle" => Consistent(engine.view)
    /\ engine.at = "cash" => whole
    /\ ~whole => cash = Capital - Turnover(booked) - FeesBooked(booked)
    /\ whole /\ seen.agrees =>
         cash + tradeDelta + Turnover(booked) = Capital - seen.charged + seen.transfers
    /\ whole => Residue = cash + tradeDelta + Turnover(booked) - Capital + seen.costs

LEMMA FeesStep ==
    ASSUME NEW old, NEW new, NEW o \in Orders,
           \A x \in Orders : old[x].fees \in Int,
           new[o].fees \in Int,
           \A x \in Orders \ {o} : new[x] = old[x]
    PROVE  /\ FeesBooked(new) = FeesBooked(old) + new[o].fees - old[o].fees
           /\ FeesBooked(old) \in Int
<1> DEFINE f == [x \in Orders |-> old[x].fees]
           g == [x \in Orders |-> new[x].fees]
<1>1. \A x \in Orders : f[x] \in Int
  OBVIOUS
<1>2. \A x \in Orders \ {o} : f[x] \in Int /\ f[x] = g[x]
  OBVIOUS
<1>3. f[o] \in Int /\ g[o] \in Int /\ g[o] = new[o].fees /\ f[o] = old[o].fees
  OBVIOUS
<1>4. FeesBooked(new) = SumFunctionOnSet(g, Orders) /\ FeesBooked(old) = SumFunctionOnSet(f, Orders)
  BY DEF FeesBooked
<1>5. IsFiniteSet(Orders)
  BY LedgerAssumption
<1> HIDE DEF f, g
<1>6. SumFunctionOnSet(g, Orders) = SumFunctionOnSet(f, Orders) + g[o] - f[o]
  BY <1>2, <1>3, <1>5, SumBut
<1>7. SumFunctionOnSet(f, Orders) \in Int
  BY <1>1, <1>5, SumInt
<1> QED BY <1>3, <1>4, <1>6, <1>7

\* A booking moves the turnover, and the cash or its delta the other way.
LEMMA BookingMoves ==
    ASSUME Types, BookFill, Booking
    PROVE  /\ Turnover(booked) \in Int /\ Turnover(booked') = Turnover(booked) + Paid /\ Paid \in Int
           /\ FeesBooked(booked) \in Int
           /\ FeesBooked(booked') = FeesBooked(booked) + (NewFees - Old.fees)
           /\ NewFees - Old.fees \in Int
<1>1. engine.at = "book" /\ engine.todo # {}
  BY BookFillIs
<1>2. /\ Current \in Orders /\ Obs \in Observation /\ Rev \in Nat /\ Old \in Fill
      /\ BookedOf(Current) \in Fill
  BY <1>1, ViewOfEngine
<1> DEFINE o == Current
           b == BookedOf(Current)
<1>3. booked' = [booked EXCEPT ![o] = b] /\ b \in Fill /\ o \in Orders
  BY <1>2 DEF Booking
<1>4. b.notional = Obs.notional /\ b.fees = NewFees
  BY DEF BookedOf
<1>5. booked[o] = Old
  BY DEF Old
<1>6. Paid = Sign(o) * (b.notional - booked[o].notional)
  BY <1>4, <1>5 DEF Paid
<1> HIDE DEF o, b
<1>7. /\ booked'[o] = b /\ \A x \in Orders \ {o} : booked'[x] = booked[x]
      /\ \A x \in Orders : booked[x] \in Fill
  BY <1>3 DEF Types
<1>8. /\ \A x \in Orders : booked[x].notional \in Int /\ booked[x].fees \in Int
      /\ b.notional \in Int /\ b.fees \in Int
  BY <1>3, <1>7 DEF Fill
<1>9. Turnover(booked') = Turnover(booked) + Sign(o) * (booked'[o].notional - booked[o].notional)
  BY <1>3, <1>7, <1>8, TurnoverStep
<1>10. Turnover(booked) \in Int
  BY <1>8, TurnoverInt
<1>11. /\ FeesBooked(booked') = FeesBooked(booked) + booked'[o].fees - booked[o].fees
       /\ FeesBooked(booked) \in Int
  BY <1>3, <1>7, <1>8, FeesStep
<1>12. Sign(o) * (b.notional - booked[o].notional) \in Int
  <2>1. Sign(o) \in Int
    BY <1>3, SignIs
  <2> QED BY <1>3, <1>8, <2>1
<1> QED
  BY <1>3, <1>4, <1>5, <1>6, <1>7, <1>8, <1>9, <1>10, <1>11, <1>12

LEMMA ResidueInt == ASSUME Explained PROVE Total(pending) \in Int /\ Total(ItemsOf(applied)) \in Int
<1>1. IsFiniteSet(pending) /\ pending \subseteq Adjustment
  BY DEF Explained
<1>2. IsFiniteSet(applied) /\ \A e \in applied : IsFiniteSet(e.items) /\ e.items \subseteq Adjustment
  BY DEF Explained, Entry
<1>3. IsFiniteSet(ItemsOf(applied)) /\ ItemsOf(applied) \subseteq Adjustment
  BY <1>2, ItemsFinite DEF ItemsOf
<1> QED BY <1>1, <1>3, TotalInt

LEMMA BookBalances == ASSUME Types, Explained, Balances, BookFill PROVE Balances'
<1>1. /\ UNCHANGED <<whole, views, seen, pending, applied>>
      /\ engine.at = "book" /\ engine \in Engine
  BY BookFillIs DEF flowsKept, Types
<1>2. engine'.at = "idle" \/ (engine'.at = "book" /\ engine'.view = engine.view)
  <2>1. CASE engine' = Idle
    BY <2>1 DEF Idle
  <2>2. CASE engine' = [engine EXCEPT !.todo = @ \ {Current}]
    BY <2>2, <1>1 DEF Engine
  <2> QED BY <2>1, <2>2, BookFillIs
<1>3. CASE Booking
  <2>1. /\ Turnover(booked) \in Int /\ Turnover(booked') = Turnover(booked) + Paid /\ Paid \in Int
        /\ FeesBooked(booked) \in Int
        /\ FeesBooked(booked') = FeesBooked(booked) + (NewFees - Old.fees)
        /\ NewFees - Old.fees \in Int
    BY <1>3, BookingMoves
  <2>2. /\ cash \in Int /\ tradeDelta \in Int /\ seen.charged \in Int /\ seen.transfers \in Int
        /\ seen.costs \in Int /\ Capital \in Int
    BY LedgerAssumption DEF Types, Amounts, Seen
  <2>3. Residue' = Residue
    BY <1>1 DEF Residue, Total, ItemsOf
  <2>4. CASE whole
    <3>1. cash' = cash /\ tradeDelta' = tradeDelta - Paid
      BY <1>3, <2>4 DEF Booking, BookCash
    <3>2. cash' + tradeDelta' + Turnover(booked') = cash + tradeDelta + Turnover(booked)
      BY <2>1, <2>2, <3>1
    <3>3. /\ \A v \in views' : Consistent(v)
          /\ engine'.at # "idle" => Consistent(engine'.view)
          /\ engine'.at = "cash" => whole'
      BY <1>1, <1>2 DEF Balances
    <3>4. whole' /\ seen'.agrees =>
            cash' + tradeDelta' + Turnover(booked') = Capital - seen'.charged + seen'.transfers
      BY <1>1, <2>4, <3>2 DEF Balances
    <3>5. Residue = cash + tradeDelta + Turnover(booked) - Capital + seen.costs
      BY <2>4 DEF Balances
    <3>6. Residue' = cash' + tradeDelta' + Turnover(booked') - Capital + seen'.costs
      <4>1. seen' = seen
        BY <1>1
      <4>2. /\ cash' = cash /\ Turnover(booked') \in Int
            /\ tradeDelta' \in Int
        BY <2>1, <2>2, <3>1
      <4> QED BY <2>1, <2>2, <2>3, <3>2, <3>5, <4>1, <4>2
    <3> HIDE DEF Residue, Consistent
    <3> QED BY <1>1, <2>4, <3>3, <3>4, <3>6 DEF Balances
  <2>5. CASE ~whole
    <3>1. cash' = cash - Paid - (NewFees - Old.fees)
      BY <1>3, <2>5 DEF Booking, BookCash
    <3>2. cash = Capital - Turnover(booked) - FeesBooked(booked)
      BY <2>5 DEF Balances
    <3> DEFINE t == Turnover(booked)
               f == FeesBooked(booked)
               p == Paid
               d == NewFees - Old.fees
    <3> HIDE DEF t, f, p, d
    <3>3. cash' = Capital - (t + p) - (f + d)
      <4>1. t \in Int /\ f \in Int /\ p \in Int /\ d \in Int
        BY <2>1 DEF t, f, p, d
      <4>2. cash' = cash - p - d /\ cash = Capital - t - f
        BY <3>1, <3>2 DEF t, f, p, d
      <4> QED BY <4>1, <4>2, <2>2
    <3>4. cash' = Capital - Turnover(booked') - FeesBooked(booked')
      BY <2>1, <3>3 DEF t, f, p, d
    <3>5. /\ \A v \in views' : Consistent(v)
          /\ engine'.at # "idle" => Consistent(engine'.view)
          /\ engine'.at = "cash" => whole'
      BY <1>1, <1>2 DEF Balances
    <3> QED BY <1>1, <2>5, <3>4, <3>5 DEF Balances
  <2> QED BY <2>4, <2>5 DEF Types
<1>4. CASE UNCHANGED <<booked, unsettled, costsComplete, cash, tradeDelta, feeDelta>>
  <2>1. UNCHANGED <<cash, tradeDelta, booked>>
    BY <1>4
  <2>2. Residue' = Residue
    BY <1>1 DEF Residue, Total, ItemsOf
  <2>3. Turnover(booked') = Turnover(booked) /\ FeesBooked(booked') = FeesBooked(booked)
    BY <2>1
  <2> QED BY <1>1, <1>2, <2>1, <2>2, <2>3 DEF Balances
<1> QED BY <1>3, <1>4, BookFillIs

LEMMA CashBalances ==
    ASSUME Types, Times, Explained, Balances, ReconcileCash
    PROVE  Balances'
<1>1. /\ UNCHANGED <<whole, views, booked, applied>>
      /\ engine.at = "cash" /\ engine \in Engine /\ engine.view \in View /\ whole
  BY DEF ReconcileCash, fills, flowsKept, Types, Balances
<1>2. CASE Stale(engine.view)
  <2>1. UNCHANGED <<cash, tradeDelta, seen, pending>> /\ engine'.at = "idle"
    BY <1>2 DEF ReconcileCash, flowsKept, deltas, Idle
  <2>2. Residue' = Residue
    BY <1>1, <2>1 DEF Residue, Total, ItemsOf
  <2>3. Turnover(booked') = Turnover(booked)
    BY <1>1
  <2> QED BY <1>1, <2>1, <2>2, <2>3 DEF Balances
<1>3. CASE ~Stale(engine.view)
  <2> DEFINE v == engine.view
             item == Left(v)
             r == Residual(v)
             t == Turnover(booked)
  <2>1. /\ pending' = pending \cup item
        /\ cash' = v.cash /\ tradeDelta' = 0
        /\ seen' = [at |-> v.at, costs |-> IF v.known THEN v.costs ELSE seen.costs,
                    transfers |-> v.transfers, charged |-> v.charged,
                    agrees |-> Turnover(booked) = v.turnover]
        /\ engine' = [engine EXCEPT !.at = "evidence"]
    BY <1>3 DEF ReconcileCash, Left
  <2>2. engine'.at = "evidence" /\ engine'.view = v
    BY <1>1, <2>1 DEF Engine
  <2>3. /\ item \subseteq Adjustment /\ IsFiniteSet(item) /\ r \in Int /\ Total(item) = r
        /\ \A a \in item : a.at > seen.at
        /\ seen.at \in Nat
    BY <1>3, LeftIs
  <2>4. /\ v.cash \in Int /\ v.costs \in Int /\ v.transfers \in Int /\ v.charged \in Int
        /\ v.turnover \in Int
    BY <1>1 DEF View
  <2>5. seen.costs \in Int /\ cash \in Int /\ tradeDelta \in Int /\ feeDelta \in Int /\ Capital \in Int
    BY LedgerAssumption DEF Types, Amounts, Seen
  <2>6. t \in Int
    <3>1. \A o \in Orders : booked[o].notional \in Int
      BY DEF Types, Fill
    <3> QED BY <3>1, TurnoverInt
  <2>7. r = v.cash - cash - tradeDelta + CostDelta(v)
    BY <2>4, <2>5 DEF Residual, CostDelta
  <2>8. seen'.costs = seen.costs + CostDelta(v)
    BY <2>1, <2>4, <2>5 DEF CostDelta
  <2>9. CostDelta(v) \in Int
    BY <2>4, <2>5 DEF CostDelta
  <2>10. Total(pending') = Total(pending) + r
    <3>1. pending \cap item = {}
      <4> SUFFICES ASSUME NEW a \in pending, a \in item PROVE FALSE
        OBVIOUS
      <4>1. a.at \in Nat /\ a.at <= seen.at /\ a.at > seen.at
        BY <2>3 DEF Explained, Adjustment
      <4> QED BY <4>1, <2>3
    <3>2. IsFiniteSet(pending) /\ \A a \in pending \cup item : a.amount \in Int
      BY <2>3 DEF Explained, Adjustment
    <3> HIDE DEF item, r
    <3>3. Total(pending \cup item) = Total(pending) + Total(item)
      BY <2>3, <3>1, <3>2, TotalUnion
    <3> QED BY <2>1, <2>3, <3>3
  <2>11. ItemsOf(applied') = ItemsOf(applied)
    BY <1>1
  <2>12. Residue = cash + tradeDelta + t - Capital + seen.costs
    BY <1>1 DEF Balances
  <2>13. Residue' = Residue + r
    BY <2>3, <2>10, <2>11, ResidueInt DEF Residue
  <2>14. Consistent(v)
    BY <1>1 DEF Balances
  <2> HIDE DEF item, r, t
  <2>15. Residue' = cash' + tradeDelta' + t - Capital + seen'.costs
    BY <2>1, <2>4, <2>5, <2>6, <2>7, <2>8, <2>9, <2>12, <2>13
  <2>16. seen'.agrees => cash' + tradeDelta' + t = Capital - seen'.charged + seen'.transfers
    <3> SUFFICES ASSUME seen'.agrees
                 PROVE  cash' + tradeDelta' + t = Capital - seen'.charged + seen'.transfers
      OBVIOUS
    <3>1. t = v.turnover /\ seen'.charged = v.charged /\ seen'.transfers = v.transfers
      BY <2>1 DEF t
    <3> QED BY <2>1, <2>4, <2>5, <2>6, <2>14, <3>1 DEF Consistent
  <2>17. Turnover(booked') = t
    BY <1>1 DEF t
  <2> QED BY <1>1, <2>2, <2>14, <2>15, <2>16, <2>17 DEF Balances
<1> QED BY <1>2, <1>3

LEMMA ResolveBalances ==
    ASSUME Types, Explained, Balances, ResolveEvidence
    PROVE  Balances'
<1>1. UNCHANGED <<whole, views, booked, cash, tradeDelta, seen>> /\ engine'.at = "idle"
  BY DEF ResolveEvidence, fills, deltas, Idle
<1>2. Residue' = Residue
  <2>1. CASE EvidenceHolds /\ Fresh /= {}
    <3> DEFINE items == ItemsOf(Fresh)
               rest == pending \ items
               old == ItemsOf(applied)
    <3>1. pending' = rest /\ applied' = applied \cup Fresh
      BY <2>1 DEF ResolveEvidence, ItemsOf
    <3>2. IsFiniteSet(Fresh) /\ \A e \in Fresh : Entry(e) /\ e.items \subseteq pending
      BY <2>1, FreshIs
    <3>3. items \subseteq pending
      BY <3>2 DEF ItemsOf
    <3>4. ItemsOf(applied') = old \cup items
      BY <3>1 DEF ItemsOf
    <3>5. old \cap items = {}
      <4>1. \A e \in applied : e.items \cap pending = {}
        BY DEF Explained, ExplainedOnce
      <4>2. old \cap pending = {}
        BY <4>1 DEF ItemsOf
      <4> HIDE DEF items, old
      <4> QED BY <3>3, <4>2
    <3>6. IsFiniteSet(items) /\ IsFiniteSet(rest) /\ items \subseteq Adjustment
      BY <3>3, FS_Subset DEF Explained
    <3>7. IsFiniteSet(old) /\ old \subseteq Adjustment
      <4>1. IsFiniteSet(applied) /\ \A e \in applied : IsFiniteSet(e.items) /\ e.items \subseteq Adjustment
        BY DEF Explained, Entry
      <4> QED BY <4>1, ItemsFinite DEF ItemsOf
    <3>8. rest \subseteq Adjustment /\ rest \cap items = {} /\ rest \cup items = pending
      <4>1. pending \subseteq Adjustment
        BY DEF Explained
      <4> HIDE DEF items
      <4> QED BY <3>3, <4>1
    <3> HIDE DEF items, rest, old
    <3>9. Total(rest \cup items) = Total(rest) + Total(items)
      <4>1. \A a \in rest \cup items : a.amount \in Int
        BY <3>6, <3>8 DEF Adjustment
      <4> QED BY <3>6, <3>8, <4>1, TotalUnion
    <3>10. Total(old \cup items) = Total(old) + Total(items)
      <4>1. \A a \in old \cup items : a.amount \in Int
        BY <3>6, <3>7 DEF Adjustment
      <4> QED BY <3>5, <3>6, <3>7, <4>1, TotalUnion
    <3>11. Total(rest) \in Int /\ Total(items) \in Int /\ Total(old) \in Int
      BY <3>6, <3>7, <3>8, TotalInt
    <3>12. Residue = Total(rest \cup items) + Total(old)
      BY <3>8 DEF Residue, old
    <3>13. Residue' = Total(rest) + Total(old \cup items)
      BY <3>1, <3>4 DEF Residue
    <3> QED BY <3>9, <3>10, <3>11, <3>12, <3>13
  <2>2. CASE ~(EvidenceHolds /\ Fresh /= {})
    <3>1. UNCHANGED <<pending, applied>>
      BY <2>2 DEF ResolveEvidence, flowsKept
    <3> QED BY <3>1 DEF Residue, Total, ItemsOf
  <2> QED BY <2>1, <2>2
<1>3. Turnover(booked') = Turnover(booked) /\ FeesBooked(booked') = FeesBooked(booked)
  BY <1>1
<1> QED BY <1>1, <1>2, <1>3 DEF Balances

\* A step that leaves the ledger's cash, bookings and adjustments alone.
LEMMA CashStays ==
    ASSUME Balances, UNCHANGED <<whole, cash, tradeDelta, booked, seen, pending, applied>>,
           \A v \in views' : Consistent(v),
           engine'.at # "idle" => Consistent(engine'.view),
           engine'.at = "cash" => whole
    PROVE  Balances'
<1>1. Residue' = Residue
  BY DEF Residue, Total, ItemsOf
<1>2. Turnover(booked') = Turnover(booked) /\ FeesBooked(booked') = FeesBooked(booked)
  OBVIOUS
<1> QED BY <1>1, <1>2 DEF Balances

LEMMA BalancesStep ==
    ASSUME Types, Times, Explained, Balances, [LedgerNext]_ledgerVars
    PROVE  Balances'
<1>0. /\ \A v \in views : Consistent(v)
      /\ engine.at # "idle" => Consistent(engine.view)
      /\ engine.at = "cash" => whole
  BY DEF Balances
<1>1. CASE BookFill
  BY <1>1, BookBalances
<1>2. CASE ReconcileCash
  BY <1>2, CashBalances
<1>3. CASE ResolveEvidence
  BY <1>3, ResolveBalances
<1>4. CASE ReadBalance
  <2>1. UNCHANGED <<whole, cash, tradeDelta, booked, seen, pending, applied, engine>>
    BY <1>4 DEF ReadBalance, fills, deltas, flowsKept
  <2>2. views' = views \cup {Taken}
    BY <1>4 DEF ReadBalance, Taken
  <2>3. Taken.cash = BrokerCash /\ Taken.turnover = Turnover(exec)
        /\ Taken.charged = Charged /\ Taken.transfers = transfers
    BY DEF Taken
  <2>4. Consistent(Taken)
    BY <2>3 DEF Consistent, BrokerCash
  <2> QED BY <1>0, <2>1, <2>2, <2>4, CashStays
<1>5. CASE BeginReconcile
  <2>1. UNCHANGED <<whole, cash, tradeDelta, booked, seen, pending, applied>>
    BY <1>5 DEF BeginReconcile, fills, deltas, flowsKept
  <2>2. PICK v \in views : views' = views \ {v} /\ engine' = [at |-> "book", view |-> v, todo |-> Orders]
    BY <1>5 DEF BeginReconcile
  <2>3. engine'.at = "book" /\ engine'.view = v
    BY <2>2
  <2> QED BY <1>0, <2>1, <2>2, <2>3, CashStays
<1>6. CASE CheckOwnership
  <2>1. /\ UNCHANGED <<whole, cash, tradeDelta, booked, seen, pending, applied, views>>
        /\ engine \in Engine /\ engine.at = "book"
    BY <1>6 DEF CheckOwnership, fills, deltas, flowsKept, Types
  <2>2. \/ engine'.at = "idle"
        \/ engine'.at = "cash" /\ whole /\ engine'.view = engine.view
        \/ engine'.at = "evidence" /\ engine'.view = engine.view
    <3>1. CASE engine' = Idle
      BY <3>1 DEF Idle
    <3>2. CASE engine' = [engine EXCEPT !.at = IF whole THEN "cash" ELSE "evidence"]
      BY <3>2, <2>1 DEF Engine
    <3> QED BY <3>1, <3>2, <1>6 DEF CheckOwnership
  <2> QED BY <1>0, <2>1, <2>2, CashStays
<1>7. CASE LedgerRestart
  <2>1. /\ UNCHANGED <<whole, cash, tradeDelta, booked, seen, pending, applied>>
        /\ views' = {} /\ engine'.at = "idle"
    BY <1>7 DEF LedgerRestart, fills, deltas, flowsKept, Idle
  <2> QED BY <2>1, CashStays
<1>8. CASE UNCHANGED <<whole, cash, tradeDelta, booked, seen, pending, applied, views, engine>>
  BY <1>0, <1>8, CashStays
<1>9. CASE BrokerNext \/ ReadOrders \/ Incomplete \/ WriteEvidence
  <2>1. UNCHANGED <<whole, cash, tradeDelta, booked, seen, pending, applied, views, engine>>
    BY <1>9 DEF BrokerNext, ReadOrders, Incomplete, WriteEvidence, fills, deltas, flowsKept
  <2> QED BY <2>1, <1>8
<1>10. CASE UNCHANGED ledgerVars
  <2>1. UNCHANGED <<whole, cash, tradeDelta, booked, seen, pending, applied, views, engine>>
    BY <1>10 DEF ledgerVars, fills, deltas, flowsKept
  <2> QED BY <2>1, <1>8
<1> QED
  BY <1>1, <1>2, <1>3, <1>4, <1>5, <1>6, <1>7, <1>9, <1>10 DEF LedgerNext

----------------------------------------------------------------------------
(* The theorems *)

LedgerInv == Types /\ Times /\ Costs /\ Explained /\ Balances

LEMMA ZeroSum ==
    ASSUME NEW f, \A o \in Orders : f[o] = 0
    PROVE  SumFunctionOnSet(f, Orders) = 0
<1> DEFINE g == [x \in {} |-> 0]
<1>1. {} \in SUBSET Orders /\ IsFiniteSet(Orders)
  BY LedgerAssumption
<1>2. /\ \A x \in {} : g[x] \in Int /\ f[x] = g[x]
      /\ \A x \in Orders \ {} : f[x] = 0
  OBVIOUS
<1> HIDE DEF g
<1>3. SumFunctionOnSet(g, {}) = SumFunctionOnSet(f, Orders)
  BY <1>1, <1>2, SumWhere
<1> QED BY <1>3, SumEmpty

LEMMA InitInv == ASSUME LedgerInit PROVE LedgerInv
<1>1. Types
  BY InitTypes
<1>2. Times
  BY LedgerAssumption DEF LedgerInit, Times, Idle
<1>3. Costs
  BY FeeOfOne DEF LedgerInit, Costs, Idle
<1>4. Total(pending) = 0 /\ ItemsOf(applied) = {} /\ FlowSum(applied) = 0 /\ Total(flows) = 0
  <2>1. pending = {} /\ applied = {} /\ flows = {}
    BY DEF LedgerInit
  <2>2. FlowSum({}) = 0
    BY SumEmpty DEF FlowSum
  <2> QED BY <2>1, <2>2, TotalEmpty DEF ItemsOf
<1>5. Explained
  <2>1. pending = {} /\ applied = {} /\ flows = {} /\ evidence = {}
    BY DEF LedgerInit
  <2>2. ExplainedOnce
    BY <1>4, <2>1 DEF ExplainedOnce, FlowSum
  <2> QED BY <2>1, <2>2, FS_EmptySet DEF Explained
<1>6. Turnover(booked) = 0 /\ FeesBooked(booked) = 0
  <2> DEFINE f == [o \in Orders |-> Sign(o) * booked[o].notional]
             g == [o \in Orders |-> booked[o].fees]
  <2>1. \A o \in Orders : booked[o].notional = 0 /\ booked[o].fees = 0
    BY DEF LedgerInit
  <2>2. \A o \in Orders : f[o] = 0 /\ g[o] = 0
    <3> TAKE o \in Orders
    <3>1. Sign(o) * 0 = 0
      BY SignIs
    <3> QED BY <2>1, <3>1
  <2>3. Turnover(booked) = SumFunctionOnSet(f, Orders) /\ FeesBooked(booked) = SumFunctionOnSet(g, Orders)
    BY DEF Turnover, FeesBooked
  <2> HIDE DEF f, g
  <2> QED BY <2>2, <2>3, ZeroSum
<1>7. Balances
  <2>1. /\ views = {} /\ engine.at = "idle" /\ cash = Capital /\ tradeDelta = 0
        /\ seen.charged = 0 /\ seen.transfers = 0 /\ seen.costs = 0
    BY DEF LedgerInit, Idle
  <2>2. Residue = 0
    BY <1>4, TotalEmpty DEF Residue
  <2> QED BY <1>6, <2>1, <2>2, LedgerAssumption DEF Balances
<1> QED BY <1>1, <1>2, <1>3, <1>5, <1>7 DEF LedgerInv

LEMMA InvStep == ASSUME LedgerInv, [LedgerNext]_ledgerVars PROVE LedgerInv'
BY TypesStep, TimesStep, CostsStep, ExplainedStep, BalancesStep DEF LedgerInv

LEMMA InvAlways == LedgerSpec => []LedgerInv
BY InitInv, InvStep, PTL DEF LedgerSpec

\* The cash of an attributed account is the capital less every booked execution and its fees;
\* that of a whole account differs from what its trades and reported costs explain by what
\* really moved, whatever was executed, read, lost and reconciled in between.
\* (apply_cumulative_fill, reconcile_account_cash, resolve_cash_adjustments)
THEOREM LedgerExplainsCash == LedgerSpec => []CashExplained
<1>1. ASSUME LedgerInv PROVE CashExplained
  <2>1. AttributedCash
    BY <1>1 DEF LedgerInv, Balances, AttributedCash, FeesBooked
  <2>2. OnlyRealFlows
    <3> SUFFICES ASSUME whole /\ seen.agrees
                 PROVE  Total(pending) + Total(ItemsOf(applied))
                          = seen.transfers - (seen.charged - seen.costs)
      BY DEF OnlyRealFlows, ItemsOf
    <3> DEFINE k == Turnover(booked)
    <3>1. k \in Int
      <4>1. \A o \in Orders : booked[o].notional \in Int
        BY <1>1 DEF LedgerInv, Types, Fill
      <4> QED BY <4>1, TurnoverInt
    <3>2. /\ cash \in Int /\ tradeDelta \in Int /\ Capital \in Int
          /\ seen.transfers \in Int /\ seen.charged \in Int /\ seen.costs \in Int
      BY <1>1, LedgerAssumption DEF LedgerInv, Types, Amounts, Seen
    <3>3. /\ cash + tradeDelta + k = Capital - seen.charged + seen.transfers
          /\ Residue = cash + tradeDelta + k - Capital + seen.costs
      BY <1>1 DEF LedgerInv, Balances
    <3> HIDE DEF k
    <3>4. Residue = seen.transfers - (seen.charged - seen.costs)
      BY <3>1, <3>2, <3>3
    <3> QED BY <3>4 DEF Residue
  <2> QED BY <2>1, <2>2 DEF CashExplained
<1> QED BY <1>1, InvAlways, PTL

\* Once costs are complete, every execution booked for an attributed account carries its fee.
\* (costs_complete)
THEOREM CostsAreSettled == LedgerSpec => []CostsSettled
<1>1. ASSUME LedgerInv PROVE CostsSettled
  BY <1>1 DEF LedgerInv, Costs, CostsSettled
<1> QED BY <1>1, InvAlways, PTL

\* An adjustment is explained once, and what is explained as transfers is in the flows.
\* (resolve_cash_adjustments)
THEOREM AdjustedOnce == LedgerSpec => []ExplainedOnce
<1>1. ASSUME LedgerInv PROVE ExplainedOnce
  BY <1>1 DEF LedgerInv, Explained
<1> QED BY <1>1, InvAlways, PTL

\* A booking is replaced only by a later observation, and executions go back only by a
\* correction, in whatever order snapshots are reconciled.  (apply_cumulative_fill)
THEOREM NewestBooking == LedgerSpec => NewestBookingWins
<1>1. ASSUME LedgerInv, [LedgerNext]_ledgerVars
      PROVE  [\A o \in Orders :
                /\ booked'[o] /= booked[o] => booked'[o].rev > booked[o].rev
                /\ booked'[o].qty < booked[o].qty => engine.view.orders[o].obs.correction]_ledgerVars
  BY <1>1, NewestBookingStep DEF LedgerInv
<1> QED BY <1>1, InvAlways, PTL DEF LedgerSpec, NewestBookingWins

\* Cash is never set back to an older balance.  (STALE_ACCOUNT_CASH_OBSERVATION)
THEOREM NewestCash == LedgerSpec => NewestCashWins
<1>1. ASSUME LedgerInv, [LedgerNext]_ledgerVars
      PROVE  [whole => seen'.at >= seen.at /\ (cash' /= cash => seen'.at > seen.at)]_ledgerVars
  BY <1>1, NewestCashStep DEF LedgerInv
<1> QED BY <1>1, InvAlways, PTL DEF LedgerSpec, NewestCashWins

-----------------------------------------------------------------------------
(* The net asset value: fractions *)

Fraction == [n: Nat, d: Nat \ {0}]

LEMMA MulMonotone ==
    ASSUME NEW a \in Nat, NEW b \in Nat, NEW k \in Nat, a <= b
    PROVE  a * k <= b * k
  OBVIOUS

LEMMA MulCancel ==
    ASSUME NEW a \in Nat, NEW b \in Nat, NEW k \in Nat \ {0}, a * k <= b * k
    PROVE  a <= b
  <1> SUFFICES ASSUME b + 1 <= a PROVE FALSE
    OBVIOUS
  <1>1. (b + 1) * k <= a * k
    BY MulMonotone
  <1>2. (b + 1) * k = b * k + k
    OBVIOUS
  <1>3. a * k \in Nat /\ b * k \in Nat
    OBVIOUS
  <1> QED BY <1>1, <1>2, <1>3

LEMMA FractionIs ==
    ASSUME NEW x \in Fraction
    PROVE  x.n \in Nat /\ x.d \in Nat /\ x.d # 0
  BY DEF Fraction

\* Cross products, of a fraction of the second with one of the third.
LEMMA CrossTrans ==
    ASSUME NEW a \in Nat, NEW b \in Nat \ {0}, NEW c \in Nat, NEW d \in Nat \ {0}, NEW e \in Nat, NEW f \in Nat \ {0},
           a * d <= c * b, c * f <= e * d
    PROVE  a * f <= e * b
  <1>1. (a * d) * f <= (c * b) * f
    <2>1. a * d \in Nat /\ c * b \in Nat
      OBVIOUS
    <2> QED BY <2>1, MulMonotone
  <1>2. (c * f) * b <= (e * d) * b
    <2>1. c * f \in Nat /\ e * d \in Nat
      OBVIOUS
    <2> QED BY <2>1, MulMonotone
  <1>3. /\ (a * d) * f = (a * f) * d /\ (c * b) * f = (c * f) * b /\ (e * d) * b = (e * b) * d
        /\ a * f \in Nat /\ e * b \in Nat /\ (a * f) * d \in Nat /\ (c * f) * b \in Nat /\ (e * b) * d \in Nat
    OBVIOUS
  <1>4. (a * f) * d <= (e * b) * d
    BY <1>1, <1>2, <1>3
  <1> QED BY <1>3, <1>4, MulCancel

LEMMA AtMostTrans ==
    ASSUME NEW x \in Fraction, NEW y \in Fraction, NEW z \in Fraction, AtMost(x, y), AtMost(y, z)
    PROVE  AtMost(x, z)
  <1>1. x.n * y.d <= y.n * x.d /\ y.n * z.d <= z.n * y.d
    BY DEF AtMost
  <1>2. /\ x.n \in Nat /\ y.n \in Nat /\ z.n \in Nat
        /\ x.d \in Nat \ {0} /\ y.d \in Nat \ {0} /\ z.d \in Nat \ {0}
    BY FractionIs
  <1>3. x.n * z.d <= z.n * x.d
    BY <1>1, <1>2, CrossTrans, Zenon
  <1> QED BY <1>3 DEF AtMost

\* The larger of two is one of them, and below neither.
LEMMA LargerIs ==
    ASSUME NEW x \in Fraction, NEW y \in Fraction
    PROVE  /\ Larger(x, y) \in Fraction
           /\ AtMost(x, Larger(x, y)) /\ AtMost(y, Larger(x, y))
  <1> DEFINE l == x.n * y.d
             r == y.n * x.d
  <1>1. l \in Nat /\ r \in Nat /\ x.n * x.d <= x.n * x.d /\ y.n * y.d <= y.n * y.d
    BY FractionIs
  <1>2. (AtMost(x, y) <=> l <= r) /\ (AtMost(y, x) <=> r <= l)
    BY DEF AtMost
  <1>3. AtMost(x, x) /\ AtMost(y, y)
    BY <1>1 DEF AtMost
  <1> HIDE DEF l, r
  <1>4. AtMost(x, y) \/ AtMost(y, x)
    BY <1>1, <1>2
  <1> QED BY <1>3, <1>4 DEF Larger

\* What fell below a part of the high fell below that part of a higher one.
LEMMA FellFurther ==
    ASSUME NEW x \in Fraction, NEW y \in Fraction, NEW z \in Fraction, Fell(x, y), AtMost(y, z)
    PROVE  Fell(x, z)
  <1> DEFINE a == 10 * x.n
             c == 9 * y.n
             e == 9 * z.n
  <1>1. /\ a \in Nat /\ c \in Nat /\ e \in Nat
        /\ x.d \in Nat \ {0} /\ y.d \in Nat \ {0} /\ z.d \in Nat \ {0}
    BY FractionIs
  <1>2. a * y.d <= c * x.d
    BY DEF Fell
  <1>3. c * z.d <= e * y.d
    <2>1. y.n * z.d <= z.n * y.d
      BY DEF AtMost
    <2>2. y.n * z.d \in Nat /\ z.n * y.d \in Nat /\ y.n \in Nat /\ z.n \in Nat
      BY FractionIs
    <2>3. c * z.d = 9 * (y.n * z.d) /\ e * y.d = 9 * (z.n * y.d)
      BY <1>1, <2>2
    <2> HIDE DEF c, e
    <2> QED BY <2>1, <2>2, <2>3
  <1>4. a * z.d <= e * x.d
    <2> HIDE DEF a, c, e
    <2> QED BY <1>1, <1>2, <1>3, CrossTrans, Zenon
  <1> QED BY <1>4 DEF Fell

LEMMA RatioIs ==
    ASSUME NEW x \in Fraction, NEW a \in Nat, NEW b \in Nat \ {0}
    PROVE  Ratio(x, a, b) \in Fraction
  <1>1. x.n * a \in Nat /\ x.d * b \in Nat
    BY FractionIs
  <1>2. x.d * b # 0
    BY FractionIs
  <1> QED BY <1>1, <1>2 DEF Ratio, Fraction

LEMMA OneIs == One \in Fraction
  BY DEF One, Fraction

-----------------------------------------------------------------------------
(* Points *)

Point == [at: Nat, nav: Int, exact: BOOLEAN, completed: BOOLEAN]
First == [at |-> 0, nav |-> Start, exact |-> TRUE, completed |-> FALSE]

\* Valuations at different times, since the adoption.
Valued(ps) ==
    /\ IsFiniteSet(ps) /\ ps \subseteq Point /\ First \in ps
    /\ \A p, q \in ps : p.at = q.at => p = q

LEMMA StartIs == Start \in Nat /\ Start # 0
  BY NavAssumption

LEMMA EarliestIs ==
    ASSUME NEW ps, Valued(ps)
    PROVE  Earliest(ps) = First
  <1> DEFINE E(p) == p \in ps /\ \A q \in ps : p.at <= q.at
  <1>1. E(First)
    BY DEF Valued, First, Point
  <1>2. Earliest(ps) = CHOOSE p \in ps : \A q \in ps : p.at <= q.at
    BY DEF Earliest
  <1>3. E(Earliest(ps))
    BY <1>1, <1>2
  <1>4. Earliest(ps).at = 0
    <2>1. Earliest(ps).at <= 0 /\ Earliest(ps).at \in Nat
      BY <1>1, <1>3 DEF Valued, First, Point
    <2> QED BY <2>1
  <1> QED BY <1>1, <1>3, <1>4 DEF Valued, First

LEMMA NewestIs ==
    ASSUME NEW ps, Valued(ps)
    PROVE  Newest(ps) \in ps /\ Newest(ps) \in Point /\ \A q \in ps : q.at <= Newest(ps).at
  <1> DEFINE T == {p.at : p \in ps}
             at == [p \in ps |-> p.at]
  <1>1. IsFiniteSet(T) /\ T # {} /\ T \subseteq Nat
    <2>1. at \in Surjection(ps, T)
      BY DEF Surjection
    <2>2. T \subseteq Nat /\ T # {}
      BY DEF Valued, Point
    <2> HIDE DEF T, at
    <2> QED BY <2>1, <2>2, FS_Surjection DEF Valued
  <1>2. \E m \in T : \A u \in T : u <= m
    <2> HIDE DEF T
    <2> QED BY <1>1, Greatest
  <1>3. PICK p \in ps : \A q \in ps : q.at <= p.at
    BY <1>2
  <1> QED BY <1>3 DEF Newest, Valued

\* What performance() requires of the flows and the points of the period.
LEMMA ExactLinked ==
    ASSUME NEW ps, Valued(ps), RiskExact(ps), \A f \in navFlows : f.at \in Nat
    PROVE  Linked(ps, navFlows) /\ ~unclassified
  <1>1. CASE Cardinality(ps) = 1
    <2>1. ps = {First}
      <3>1. \E x : ps = {x}
        BY <1>1, FS_Singleton DEF Valued
      <3> QED BY <3>1 DEF Valued
    <2>2. Earliest(ps) = First /\ Newest(ps) = First
      BY <2>1, EarliestIs, NewestIs
    <2>3. During(navFlows, ps) = {}
      <3>1. During(navFlows, ps) = {f \in navFlows : 0 < f.at /\ f.at <= 0}
        BY <2>2 DEF During, First
      <3>2. \A f \in navFlows : f.at \in Nat /\ ~(0 < f.at /\ f.at <= 0)
        OBVIOUS
      <3> QED BY <3>1, <3>2
    <2>4. First.nav > 0
      BY StartIs DEF First
    <2>5. \A p \in ps : p.nav > 0
      BY <2>1, <2>4
    <2>6. Linked(ps, navFlows)
      BY <2>3, <2>5 DEF Linked
    <2> QED BY <2>6 DEF RiskExact
  <1> QED BY <1>1 DEF RiskExact

-----------------------------------------------------------------------------
(* The walk, from moment to moment *)

Flow == [at: Nat \ {0}, amount: Int, before: Int, after: Int]

Begun == [index |-> One, top |-> One, anchor |-> One, nav |-> Start]
At(ps, fs, t) == {e \in Events(ps, fs) : e.at = t}
Step(ps, fs, acc, t) == IF At(ps, fs, t) = {} THEN acc ELSE After(acc, CHOOSE e \in At(ps, fs, t) : TRUE)
Walks(w, ps, fs, n) == w = [t \in 0..n |-> IF t = 0 THEN Begun ELSE Step(ps, fs, w[t - 1], t)]
Course(ps, fs, n) == CHOOSE w : Walks(w, ps, fs, n)

LEMMA WalksAt ==
    ASSUME NEW w, NEW ps, NEW fs, NEW n \in Nat, Walks(w, ps, fs, n), NEW t \in 0..n
    PROVE  w[t] = IF t = 0 THEN Begun ELSE Step(ps, fs, w[t - 1], t)
  <1> DEFINE e(k) == IF k = 0 THEN Begun ELSE Step(ps, fs, w[k - 1], k)
  <1>1. w = [k \in 0..n |-> e(k)]
    BY DEF Walks
  <1> HIDE DEF e
  <1>2. w[t] = e(t)
    BY <1>1
  <1> QED BY <1>2 DEF e

\* The recursive function exists: the least length without one would extend a shorter one.
LEMMA CourseExists ==
    ASSUME NEW ps, NEW fs, NEW n \in Nat
    PROVE  Walks(Course(ps, fs, n), ps, fs, n)
  <1> DEFINE Walked(m) == \E w : Walks(w, ps, fs, m)
             B == {m \in 0..n : ~Walked(m)}
  <1>1. SUFFICES Walked(n)
    BY <1>1 DEF Course
  <1> SUFFICES ASSUME B # {} PROVE FALSE
    OBVIOUS
  <1>2. PICK m \in B : \A k \in B : m <= k
    <2>1. B \subseteq 0..n /\ IsFiniteSet(0..n)
      BY FS_Interval
    <2>2. B \subseteq Nat /\ B # {} /\ IsFiniteSet(B)
      BY <2>1, FS_Subset
    <2> HIDE DEF B
    <2> QED BY <2>2, Least
  <1>3. m \in 0..n /\ ~Walked(m)
    OBVIOUS
  <1>4. CASE m = 0
    <2> DEFINE w == [t \in 0..m |-> Begun]
    <2>1. \A t \in 0..m : t = 0
      BY <1>4
    <2>2. w = [t \in 0..m |-> IF t = 0 THEN Begun ELSE Step(ps, fs, w[t - 1], t)]
      <3>1. w = [t \in 0..m |-> Begun]
        OBVIOUS
      <3> HIDE DEF w
      <3> QED BY <2>1, <3>1
    <2> HIDE DEF w
    <2>3. Walks(w, ps, fs, m)
      BY <2>2 DEF Walks
    <2> QED BY <1>3, <2>3
  <1>5. CASE m # 0
    <2>1. m - 1 \in 0..n /\ m \in Nat /\ ~(m <= m - 1)
      BY <1>3, <1>5
    <2>2. PICK v : Walks(v, ps, fs, m - 1)
      BY <1>2, <2>1
    <2> DEFINE w == [t \in 0..m |-> IF t = m THEN Step(ps, fs, v[m - 1], m) ELSE v[t]]
               e(t) == IF t = 0 THEN Begun ELSE Step(ps, fs, w[t - 1], t)
    <2>3. ASSUME NEW t \in 0..m PROVE w[t] = e(t)
      <3>1. CASE t = m
        <4>1. m - 1 \in 0..m /\ m - 1 # m
          BY <2>1
        <4>2. w[t] = Step(ps, fs, v[m - 1], m) /\ w[m - 1] = v[m - 1]
          BY <3>1, <4>1
        <4> HIDE DEF w
        <4> QED BY <1>5, <3>1, <4>2
      <3>2. CASE t # m
        <4>1. t \in 0..(m - 1) /\ m - 1 \in Nat /\ (t # 0 => t - 1 \in 0..m /\ t - 1 # m)
          BY <1>5, <2>1, <3>2
        <4>2. v[t] = IF t = 0 THEN Begun ELSE Step(ps, fs, v[t - 1], t)
          BY <2>2, <4>1, WalksAt
        <4>3. w[t] = v[t] /\ (t # 0 => w[t - 1] = v[t - 1])
          BY <3>2, <4>1
        <4> HIDE DEF w
        <4> QED BY <4>2, <4>3
      <3> QED BY <3>1, <3>2
    <2>4. w = [t \in 0..m |-> w[t]]
      OBVIOUS
    <2> HIDE DEF w
    <2>5. w = [t \in 0..m |-> IF t = 0 THEN Begun ELSE Step(ps, fs, w[t - 1], t)]
      BY <2>3, <2>4
    <2>6. Walks(w, ps, fs, m)
      BY <2>5 DEF Walks
    <2> QED BY <1>3, <2>6
  <1> QED BY <1>4, <1>5

LEMMA WalkIs ==
    ASSUME NEW ps, Valued(ps), NEW fs
    PROVE  Walk(ps, fs) = Course(ps, fs, Newest(ps).at)[Newest(ps).at]
  <1> DEFINE last == Newest(ps).at
             W == CHOOSE walk : walk = [t \in Earliest(ps).at..last |->
                      IF t = Earliest(ps).at
                        THEN [index |-> One, top |-> One, anchor |-> One, nav |-> Earliest(ps).nav]
                        ELSE IF {e \in Events(ps, fs) : e.at = t} = {} THEN walk[t - 1]
                        ELSE After(walk[t - 1], CHOOSE e \in {e \in Events(ps, fs) : e.at = t} : TRUE)]
  <1>1. Walk(ps, fs) = W[last]
    BY DEF Walk
  <1>2. Earliest(ps).at = 0 /\ Earliest(ps).nav = Start
    BY EarliestIs DEF First
  <1>3. W = Course(ps, fs, last)
    BY <1>2 DEF Course, Walks, Step, At, Begun
  <1> QED BY <1>1, <1>3

\* At most one flow, of which both valuations are linked.
Single(fs) == fs = {} \/ \E f \in Flow : fs = {f}

\* What is before the moment t in the walk: the anchor is the beginning or the flow.
Anchored(fs, t, acc) ==
    \/ /\ \A f \in fs : t < f.at
       /\ acc.anchor = One /\ acc.nav = Start
    \/ \E f \in fs : f.at <= t /\ acc.anchor = Ratio(One, f.before, Start) /\ acc.nav = f.after

Going(acc) ==
    /\ acc.index \in Fraction /\ acc.top \in Fraction /\ acc.anchor \in Fraction /\ acc.nav \in Nat \ {0}
    /\ AtMost(acc.index, acc.top)

\* The values of an event.
LEMMA EventsAt ==
    ASSUME NEW ps, Valued(ps), NEW fs, Single(fs), Linked(ps, fs), NEW t \in Nat, 0 < t, t <= Newest(ps).at,
           NEW e \in At(ps, fs, t)
    PROVE  \/ /\ e.flow /\ \E f \in fs : f.at = t /\ e.before = f.before /\ e.after = f.after
              /\ e.before \in Nat /\ e.after \in Nat \ {0}
           \/ /\ ~e.flow /\ \A f \in fs : f.at # t
              /\ \E p \in ps : p.at = t /\ e.before = p.nav
              /\ e.before \in Nat
  <1>1. Earliest(ps).at = 0 /\ Newest(ps).at \in Nat
    BY EarliestIs, NewestIs DEF First, Point
  <1>2. \A f \in fs : f \in Flow
    BY DEF Single
  <1>3. \A f \in fs : f.at = t => f \in During(fs, ps)
    BY <1>1, <1>2 DEF During
  <1>4. e \in Events(ps, fs) /\ e.at = t
    BY DEF At
  <1>5. CASE e \in {[at |-> f.at, before |-> f.before, after |-> f.after, flow |-> TRUE] : f \in During(fs, ps)}
    <2>1. PICK f \in During(fs, ps) : e = [at |-> f.at, before |-> f.before, after |-> f.after, flow |-> TRUE]
      BY <1>5
    <2>2. f \in fs /\ f \in Flow
      BY <1>2 DEF During
    <2>3. f.before >= 0 /\ f.after > 0
      BY DEF Linked
    <2>4. e.flow /\ f.at = t /\ e.before = f.before /\ e.after = f.after
      BY <1>4, <2>1
    <2>5. f.before \in Nat /\ f.after \in Nat \ {0}
      BY <2>2, <2>3 DEF Flow
    <2> QED BY <2>2, <2>4, <2>5
  <1>6. CASE e \in {[at |-> p.at, before |-> p.nav, after |-> p.nav, flow |-> FALSE] :
                      p \in {q \in ps : q.at > Earliest(ps).at /\ \A f \in During(fs, ps) : f.at /= q.at}}
    <2>1. PICK p \in {q \in ps : q.at > Earliest(ps).at /\ \A f \in During(fs, ps) : f.at /= q.at} :
              e = [at |-> p.at, before |-> p.nav, after |-> p.nav, flow |-> FALSE]
      BY <1>6
    <2>2. p \in ps /\ p \in Point /\ p.nav > 0
      BY <2>1 DEF Linked, Valued
    <2>3. ~e.flow /\ p.at = t /\ e.before = p.nav
      BY <1>4, <2>1
    <2>4. \A f \in fs : f.at # t
      BY <1>3, <2>1, <2>3
    <2>5. p.nav \in Nat
      BY <2>2 DEF Point
    <2> QED BY <2>2, <2>3, <2>4, <2>5
  <1> QED BY <1>4, <1>5, <1>6 DEF Events

LEMMA FlowEvent ==
    ASSUME NEW ps, Valued(ps), NEW fs, Single(fs), NEW f \in fs, f.at <= Newest(ps).at
    PROVE  At(ps, fs, f.at) # {}
  <1>1. Earliest(ps).at = 0 /\ f \in Flow
    BY EarliestIs DEF First, Single
  <1>2. f \in During(fs, ps)
    BY <1>1 DEF During, Flow
  <1> DEFINE e == [at |-> f.at, before |-> f.before, after |-> f.after, flow |-> TRUE]
  <1>3. e \in Events(ps, fs) /\ e.at = f.at
    BY <1>2 DEF Events
  <1> QED BY <1>3 DEF At

\* Each step of the walk keeps its anchor and its high.
LEMMA StepKeeps ==
    ASSUME NEW ps, Valued(ps), NEW fs, Single(fs), Linked(ps, fs), NEW t \in Nat, 0 < t, t <= Newest(ps).at,
           NEW acc, Going(acc), Anchored(fs, t - 1, acc)
    PROVE  Going(Step(ps, fs, acc, t)) /\ Anchored(fs, t, Step(ps, fs, acc, t))
  <1>1. \A f \in fs : f \in Flow /\ f.at \in Nat
    BY DEF Single, Flow
  <1>2. \A f \in fs : \A g \in fs : f = g
    BY DEF Single
  <1>3. CASE At(ps, fs, t) = {}
    <2>1. Step(ps, fs, acc, t) = acc
      BY <1>3 DEF Step
    <2>2. \A f \in fs : f.at # t
      BY <1>3, FlowEvent
    <2>3. Anchored(fs, t, acc)
      <3>1. \A f \in fs : (t - 1 < f.at => t < f.at) /\ (f.at <= t - 1 => f.at <= t)
        BY <1>1, <2>2
      <3> QED BY <3>1 DEF Anchored
    <2> QED BY <2>1, <2>3
  <1>4. CASE At(ps, fs, t) # {}
    <2> DEFINE e == CHOOSE e \in At(ps, fs, t) : TRUE
               x == Ratio(acc.anchor, e.before, acc.nav)
               a == After(acc, e)
    <2>1. Step(ps, fs, acc, t) = a
      BY <1>4 DEF Step
    <2>2. e \in At(ps, fs, t)
      BY <1>4
    <2> HIDE DEF e
    <2>3. \/ /\ e.flow /\ \E f \in fs : f.at = t /\ e.before = f.before /\ e.after = f.after
             /\ e.before \in Nat /\ e.after \in Nat \ {0}
          \/ /\ ~e.flow /\ \A f \in fs : f.at # t
             /\ e.before \in Nat
      BY <2>2, EventsAt
    <2>4. x \in Fraction
      BY <2>3, RatioIs DEF Going
    <2>5. /\ a.index = x /\ a.top = Larger(acc.top, x)
          /\ a.anchor = IF e.flow THEN x ELSE acc.anchor
          /\ a.nav = IF e.flow THEN e.after ELSE acc.nav
      BY DEF After
    <2>6. Larger(acc.top, x) \in Fraction /\ AtMost(x, Larger(acc.top, x))
      BY <2>4, LargerIs DEF Going
    <2> HIDE DEF x, a
    <2>7. Going(a)
      BY <2>3, <2>4, <2>5, <2>6 DEF Going
    <2>8. Anchored(fs, t, a)
      <3>1. CASE e.flow
        <4>1. PICK f \in fs : f.at = t /\ e.before = f.before /\ e.after = f.after
          BY <2>3, <3>1
        <4>2. ~(\E g \in fs : g.at <= t - 1)
          BY <1>1, <1>2, <4>1
        <4>3. acc.anchor = One /\ acc.nav = Start
          BY <4>2 DEF Anchored
        <4>4. x = Ratio(One, f.before, Start)
          BY <4>1, <4>3 DEF x
        <4> QED BY <2>5, <3>1, <4>1, <4>4 DEF Anchored
      <3>2. CASE ~e.flow
        <4>1. \A f \in fs : (t - 1 < f.at => t < f.at) /\ (f.at <= t - 1 => f.at <= t)
          BY <1>1, <2>3, <3>2
        <4> QED BY <2>5, <3>2, <4>1 DEF Anchored
      <3> QED BY <3>1, <3>2
    <2> QED BY <2>1, <2>7, <2>8
  <1> QED BY <1>3, <1>4

LEMMA CourseKeeps ==
    ASSUME NEW ps, Valued(ps), NEW fs, Single(fs), Linked(ps, fs), NEW t \in 0..Newest(ps).at
    PROVE  LET w == Course(ps, fs, Newest(ps).at)
           IN  Going(w[t]) /\ Anchored(fs, t, w[t])
  <1> DEFINE n == Newest(ps).at
             w == Course(ps, fs, n)
             Kept(k) == Going(w[k]) /\ Anchored(fs, k, w[k])
             B == {k \in 0..n : ~Kept(k)}
  <1>1. n \in Nat
    BY NewestIs DEF Point
  <1>2. Walks(w, ps, fs, n)
    BY <1>1, CourseExists
  <1> HIDE DEF w
  <1>3. B = {}
    <2> SUFFICES ASSUME B # {} PROVE FALSE
      OBVIOUS
    <2>1. PICK m \in B : \A k \in B : m <= k
      <3>1. B \subseteq 0..n
        OBVIOUS
      <3> HIDE DEF B, n
      <3>2. IsFiniteSet(0..n)
        BY <1>1, FS_Interval
      <3>3. IsFiniteSet(B)
        BY <3>1, <3>2, FS_Subset
      <3>4. B \subseteq Nat /\ B # {}
        BY <1>1, <3>1
      <3> QED BY <3>3, <3>4, Least
    <2>2. m \in 0..n /\ ~Kept(m)
      OBVIOUS
    <2>3. w[m] = IF m = 0 THEN Begun ELSE Step(ps, fs, w[m - 1], m)
      BY <1>1, <1>2, <2>2, WalksAt
    <2>4. Going(Begun) /\ Anchored(fs, 0, Begun)
      <3>1. AtMost(One, One)
        BY DEF AtMost, One
      <3>2. Going(Begun)
        BY <3>1, OneIs, StartIs DEF Going, Begun
      <3>3. \A f \in fs : 0 < f.at
        BY DEF Single, Flow
      <3>4. Anchored(fs, 0, Begun)
        BY <3>3 DEF Anchored, Begun
      <3> QED BY <3>2, <3>4
    <2>5. m # 0
      BY <2>2, <2>3, <2>4
    <2>6. m - 1 \in 0..n /\ m \in Nat /\ 0 < m /\ m <= n /\ ~(m <= m - 1)
      BY <1>1, <2>2, <2>5
    <2>7. Kept(m - 1)
      BY <2>1, <2>6
    <2>8. Going(Step(ps, fs, w[m - 1], m)) /\ Anchored(fs, m, Step(ps, fs, w[m - 1], m))
      BY <2>6, <2>7, StepKeeps
    <2> QED BY <2>2, <2>3, <2>5, <2>8
  <1>4. Kept(t)
    BY <1>3
  <1> QED BY <1>4 DEF w

\* The walk of verified points has an index and a high.
LEMMA WalkGoes ==
    ASSUME NEW ps, Valued(ps), NEW fs, Single(fs), Linked(ps, fs)
    PROVE  Going(Walk(ps, fs))
  <1>1. Newest(ps).at \in Nat
    BY NewestIs DEF Point
  <1>2. Newest(ps).at \in 0..Newest(ps).at
    BY <1>1
  <1> QED BY <1>2, WalkIs, CourseKeeps

\* Its index at a valuation later than any flow is that of the anchor.
LEMMA WalkIndex ==
    ASSUME NEW ps, Valued(ps), NEW fs, Single(fs), Linked(ps, fs), NEW p \in ps, p.at > 0,
           \A q \in ps : q.at <= p.at, \A f \in fs : f.at < p.at
    PROVE  \E acc : Anchored(fs, p.at - 1, acc) /\ Walk(ps, fs).index = Ratio(acc.anchor, p.nav, acc.nav)
  <1> DEFINE n == p.at
             w == Course(ps, fs, n)
             e == CHOOSE e \in At(ps, fs, n) : TRUE
  <1>1. Newest(ps) = p /\ n \in Nat
    <2>1. Newest(ps) \in ps /\ p.at <= Newest(ps).at /\ Newest(ps).at <= p.at
      BY NewestIs
    <2>2. p.at \in Nat /\ Newest(ps).at \in Nat
      BY NewestIs DEF Valued, Point
    <2> QED BY <2>1, <2>2 DEF Valued
  <1>2. n \in 0..n /\ n - 1 \in 0..n /\ n # 0 /\ 0 < n
    BY <1>1
  <1>3. w[n] = Step(ps, fs, w[n - 1], n) /\ Walk(ps, fs) = w[n]
    <2>1. Walks(w, ps, fs, n)
      BY <1>1, CourseExists
    <2> HIDE DEF w
    <2>2. w[n] = Step(ps, fs, w[n - 1], n)
      BY <1>1, <1>2, <2>1, WalksAt
    <2> QED BY <1>1, <2>2, WalkIs DEF w
  <1>4. Anchored(fs, n - 1, w[n - 1])
    BY <1>1, <1>2, CourseKeeps
  <1>5. At(ps, fs, n) # {}
    <2> DEFINE v == [at |-> p.at, before |-> p.nav, after |-> p.nav, flow |-> FALSE]
    <2>1. \A f \in During(fs, ps) : f.at /= p.at
      BY <1>1 DEF During, Single, Flow
    <2>2. p.at > Earliest(ps).at
      BY EarliestIs DEF First
    <2>3. v \in Events(ps, fs) /\ v.at = n
      BY <2>1, <2>2 DEF Events
    <2> QED BY <2>3 DEF At
  <1>6. e \in At(ps, fs, n)
    BY <1>5
  <1>7. Step(ps, fs, w[n - 1], n) = After(w[n - 1], e)
    BY <1>5 DEF Step
  <1> HIDE DEF e, w
  <1>8. e.before = p.nav
    <2>1. \A f \in fs : f.at # n
      BY <1>1 DEF Single, Flow
    <2>2. \E q \in ps : q.at = n /\ e.before = q.nav
      BY <1>1, <1>2, <1>6, <2>1, EventsAt
    <2> QED BY <2>2 DEF Valued
  <1>9. Walk(ps, fs).index = Ratio(w[n - 1].anchor, p.nav, w[n - 1].nav)
    BY <1>3, <1>7, <1>8 DEF After
  <1> QED BY <1>4, <1>9

-----------------------------------------------------------------------------
(* The invariant *)

\* The owner's transfer as the ledger has observed it.
SeenFlow(f) == /\ f \in Flow /\ f.at < now
               /\ truth = [anchor |-> Ratio(One, f.before, Start), nav |-> f.after]

\* One transfer at most: not seen, waiting for evidence, or explained.
Transferred ==
    \/ /\ navFlows = {} /\ unexplained = <<>> /\ ~unclassified
       /\ truth = [anchor |-> One, nav |-> Start]
    \/ /\ unseen = 0 /\ navFlows = {} /\ unclassified
       /\ \E f : unexplained = <<f>> /\ SeenFlow(f)
    \/ /\ unseen = 0 /\ unexplained = <<>> /\ ~unclassified
       /\ \E f : navFlows = {f} /\ SeenFlow(f)

Domains ==
    /\ now \in Nat \ {0} /\ worth \in Int /\ unseen \in Int
    /\ closing \in [at: Nat, moved: Int, done: BOOLEAN] /\ closing.at < now

\* What the gateway to new risk compares with is no less than the best verified index.
Marked == high \in Fraction /\ best \in Fraction /\ AtMost(best, high)

NavInv ==
    /\ Domains /\ Transferred
    /\ Valued(points) /\ \A p \in points : p.at < now
    /\ Marked

LEMMA InitNav == NavInit => NavInv
  <1> SUFFICES ASSUME NavInit PROVE NavInv
    OBVIOUS
  <1>1. Domains /\ Transferred
    BY StartIs DEF NavInit, Domains, Transferred
  <1>2. points = {First}
    BY DEF NavInit, First
  <1>3. First \in Point /\ First.at = 0
    BY StartIs DEF First, Point
  <1>4. Valued(points) /\ \A p \in points : p.at < now
    <2>1. IsFiniteSet(points)
      BY <1>2, FS_Singleton
    <2> QED BY <1>2, <1>3, <2>1 DEF Valued, NavInit
  <1>5. Marked
    BY OneIs DEF Marked, NavInit, AtMost, One
  <1> QED BY <1>1, <1>4, <1>5 DEF NavInv

LEMMA ObserveKeeps ==
    ASSUME Domains, Transferred, Observe, now' = now + 1, navFlows' = navFlows
    PROVE  Transferred' /\ worth' \in Int /\ unseen' \in Int
  <1>1. CASE unseen = 0
    <2>1. UNCHANGED <<worth, unseen, unclassified, unexplained, version, truth>>
      BY <1>1 DEF Observe
    <2>2. \A f : SeenFlow(f) => SeenFlow(f)'
      BY <2>1 DEF SeenFlow, Flow, Domains
    <2> QED BY <2>1, <2>2 DEF Transferred, Domains
  <1>2. CASE unseen # 0
    <2>0. PICK f : f = [at |-> now, amount |-> unseen, before |-> worth, after |-> worth + unseen]
      OBVIOUS
    <2>1. /\ worth' = worth + unseen /\ unseen' = 0 /\ unexplained' = <<f>> /\ unclassified'
          /\ truth' = [truth EXCEPT !.anchor = TrueIndex, !.nav = worth + unseen]
      BY <1>2, <2>0 DEF Observe
    <2>2. navFlows = {} /\ truth = [anchor |-> One, nav |-> Start]
      BY <1>2 DEF Transferred
    <2>3. truth' = [anchor |-> Ratio(One, worth, Start), nav |-> worth + unseen]
      BY <2>1, <2>2 DEF TrueIndex
    <2>4. f \in Flow /\ f.before = worth /\ f.after = worth + unseen /\ f.at = now
      BY <2>0 DEF Domains, Flow
    <2>5. SeenFlow(f)'
      BY <2>3, <2>4 DEF SeenFlow, Domains
    <2> QED BY <2>1, <2>2, <2>5 DEF Transferred, Domains
  <1> QED BY <1>1, <1>2

\* Time alone.
LEMMA WaitKeeps ==
    ASSUME Domains, Transferred, now' = now + 1,
           UNCHANGED <<unseen, unclassified, unexplained, navFlows, truth>>
    PROVE  Transferred'
  <1>1. \A f : SeenFlow(f) => SeenFlow(f)'
    BY DEF SeenFlow, Flow, Domains
  <1> QED BY <1>1 DEF Transferred

LEMMA FlowsKnown ==
    ASSUME Transferred
    PROVE  Single(navFlows) /\ \A f \in navFlows : f \in Flow /\ f.at \in Nat /\ f.at < now
  BY DEF Transferred, SeenFlow, Single, Flow

\* A point that is recorded, and what it makes of the risk index.
LEMMA RecordKeeps ==
    ASSUME NavInv, NEW point \in Point, 0 < point.at, point.at <= now, RecordPoint(point)
    PROVE  /\ Valued(points') /\ \A p \in points' : p.at <= now
           /\ high' \in Fraction /\ AtMost(high, high')
           /\ ~riskUnverified' =>
                LET ps == Verified(Recorded(point))
                IN  /\ point.exact /\ Valued(ps) /\ Linked(ps, navFlows) /\ ~unclassified
                    /\ Going(Walk(ps, navFlows))
                    /\ high' = Larger(high, Walk(ps, navFlows).top)
                    /\ drawdownPaused' = (drawdownPaused \/ Fell(Walk(ps, navFlows).index, high'))
  <1> DEFINE same == {p \in points : p.at = point.at}
             all  == Recorded(point)
             ps   == Verified(all)
             walk == Walk(ps, navFlows)
  <1>1. /\ points' = all /\ riskUnverified' = (~point.exact \/ ~RiskExact(ps))
        /\ IF RiskExact(ps)
             THEN /\ high' = Larger(high, walk.top)
                  /\ drawdownPaused' = (drawdownPaused \/ Fell(walk.index, Larger(high, walk.top)))
             ELSE UNCHANGED <<high, drawdownPaused>>
    BY DEF RecordPoint
  <1>2. all = points \/ all = (points \ same) \cup {point}
    BY DEF Recorded
  <1>3. Valued(points) /\ (\A p \in points : p.at < now) /\ now \in Nat /\ high \in Fraction /\ Transferred
    BY DEF NavInv, Domains, Marked
  <1>4. Valued((points \ same) \cup {point})
    <2>1. IsFiniteSet((points \ same) \cup {point})
      BY <1>3, FS_Subset, FS_AddElement DEF Valued
    <2>2. First \in points \ same
      BY <1>3 DEF Valued, First
    <2>3. \A p, q \in (points \ same) \cup {point} : p.at = q.at => p = q
      BY <1>3 DEF Valued
    <2> QED BY <1>3, <2>1, <2>2, <2>3 DEF Valued
  <1>5. Valued(all) /\ \A p \in all : p.at <= now
    <2>1. \A p \in points : p.at \in Nat /\ p.at <= now
      BY <1>3 DEF Valued, Point
    <2> QED BY <1>2, <1>3, <1>4, <2>1
  <1> HIDE DEF same, all
  <1>6. Valued(ps)
    <2>1. ps \subseteq all /\ First \in ps
      BY <1>5 DEF Verified, Valued, First
    <2>2. IsFiniteSet(ps)
      BY <1>5, <2>1, FS_Subset DEF Valued
    <2> QED BY <1>5, <2>1, <2>2 DEF Valued
  <1>7. Single(navFlows) /\ \A f \in navFlows : f.at \in Nat
    BY <1>3, FlowsKnown
  <1> HIDE DEF ps
  <1>8. CASE RiskExact(ps)
    <2>1. Linked(ps, navFlows) /\ ~unclassified
      BY <1>6, <1>7, <1>8, ExactLinked
    <2>2. Going(walk)
      BY <1>6, <1>7, <2>1, WalkGoes
    <2>3. Larger(high, walk.top) \in Fraction /\ AtMost(high, Larger(high, walk.top))
      BY <1>3, <2>2, LargerIs DEF Going
    <2> HIDE DEF walk
    <2>4. /\ high' = Larger(high, walk.top)
          /\ drawdownPaused' = (drawdownPaused \/ Fell(walk.index, high'))
      BY <1>1, <1>8
    <2> QED BY <1>1, <1>5, <1>6, <2>1, <2>2, <2>3, <2>4 DEF walk, ps, all
  <1>9. CASE ~RiskExact(ps)
    <2>1. high' = high /\ riskUnverified'
      BY <1>1, <1>9
    <2>2. AtMost(high, high)
      BY <1>3, FractionIs DEF AtMost
    <2> QED BY <1>1, <1>3, <1>5, <2>1, <2>2
  <1> QED BY <1>8, <1>9

\* A verified valuation of now has the index that the market gave.
LEMMA IndexTrue ==
    ASSUME NavInv, NEW ps, Valued(ps), Linked(ps, navFlows), ~unclassified, NEW p \in ps,
           p.at = now, p.nav = worth, \A q \in ps : q.at <= now
    PROVE  Walk(ps, navFlows).index = TrueIndex
  <1>1. now \in Nat /\ 0 < now /\ Transferred
    BY DEF NavInv, Domains
  <1>2. Single(navFlows) /\ \A f \in navFlows : f \in Flow /\ f.at \in Nat /\ f.at < now
    BY <1>1, FlowsKnown
  <1>3. PICK acc : /\ Anchored(navFlows, now - 1, acc)
                   /\ Walk(ps, navFlows).index = Ratio(acc.anchor, worth, acc.nav)
    BY <1>1, <1>2, WalkIndex
  <1>4. acc.anchor = truth.anchor /\ acc.nav = truth.nav
    <2>1. CASE navFlows = {} /\ truth = [anchor |-> One, nav |-> Start]
      BY <1>3, <2>1 DEF Anchored
    <2>2. CASE \E f : navFlows = {f} /\ SeenFlow(f)
      <3>1. PICK f : navFlows = {f} /\ SeenFlow(f)
        BY <2>2
      <3>2. f.at \in Nat /\ f.at < now /\ ~(now - 1 < f.at)
        BY <1>1, <1>2, <3>1
      <3>3. acc.anchor = Ratio(One, f.before, Start) /\ acc.nav = f.after
        BY <1>3, <3>1, <3>2 DEF Anchored
      <3>4. truth.anchor = Ratio(One, f.before, Start) /\ truth.nav = f.after
        BY <3>1 DEF SeenFlow
      <3> QED BY <3>3, <3>4
    <2> QED BY <1>1, <2>1, <2>2 DEF Transferred
  <1> QED BY <1>3, <1>4 DEF TrueIndex

\* record_nav keeps the high no less than the best, and pauses below it.
LEMMA RecordNowKeeps ==
    ASSUME NavInv, RecordNow
    PROVE  /\ Valued(points') /\ (\A p \in points' : p.at <= now) /\ Marked'
           /\ ~riskUnverified' /\ Fell(TrueIndex, best) => drawdownPaused'
  <1>1. PICK fresh \in BOOLEAN :
            RecordPoint([at |-> now, nav |-> worth, exact |-> fresh /\ ~unclassified, completed |-> FALSE])
    BY DEF RecordNow
  <1>2. PICK point : point = [at |-> now, nav |-> worth, exact |-> fresh /\ ~unclassified, completed |-> FALSE]
    OBVIOUS
  <1> DEFINE ps   == Verified(Recorded(point))
             walk == Walk(ps, navFlows)
  <1>3. /\ now \in Nat /\ 0 < now /\ worth \in Int /\ Valued(points) /\ (\A p \in points : p.at < now)
        /\ high \in Fraction /\ best \in Fraction /\ AtMost(best, high)
    BY DEF NavInv, Domains, Marked
  <1>4. point \in Point /\ point.at = now /\ point.nav = worth /\ RecordPoint(point)
    BY <1>1, <1>2, <1>3 DEF Point
  <1>5. /\ Valued(points') /\ \A p \in points' : p.at <= now
        /\ high' \in Fraction /\ AtMost(high, high')
        /\ ~riskUnverified' =>
              /\ point.exact /\ Valued(ps) /\ Linked(ps, navFlows) /\ ~unclassified
              /\ Going(walk) /\ high' = Larger(high, walk.top)
              /\ drawdownPaused' = (drawdownPaused \/ Fell(walk.index, high'))
    BY <1>3, <1>4, RecordKeeps
  <1>6. best' = IF riskUnverified' THEN best ELSE Larger(best, TrueIndex)
    BY DEF RecordNow
  <1>7. AtMost(best, high')
    BY <1>3, <1>5, AtMostTrans
  <1>8. CASE riskUnverified'
    BY <1>3, <1>5, <1>6, <1>7, <1>8 DEF Marked
  <1>9. CASE ~riskUnverified'
    <2>1. point \in ps /\ \A q \in ps : q.at <= now
      <3>1. \A p \in points : p.at \in Nat /\ p.at # now /\ p.at <= now
        BY <1>3 DEF Valued, Point
      <3>2. Recorded(point) = points \cup {point}
        BY <1>4, <3>1 DEF Recorded
      <3> QED BY <1>3, <1>4, <1>5, <1>9, <3>1, <3>2 DEF Verified
    <2> HIDE DEF ps
    <2>2. walk.index = TrueIndex
      BY <1>4, <1>5, <1>9, <2>1, IndexTrue
    <2> HIDE DEF walk
    <2>3. TrueIndex \in Fraction /\ walk.top \in Fraction /\ AtMost(TrueIndex, walk.top)
      BY <1>5, <1>9, <2>2 DEF Going
    <2>4. AtMost(walk.top, high')
      BY <1>3, <1>5, <1>9, <2>3, LargerIs
    <2>5. AtMost(TrueIndex, high')
      BY <1>5, <2>3, <2>4, AtMostTrans
    <2>6. best' \in Fraction /\ AtMost(best', high')
      BY <1>3, <1>6, <1>7, <1>9, <2>3, <2>5, LargerIs DEF Larger
    <2>7. Fell(TrueIndex, best) => Fell(TrueIndex, high')
      BY <1>3, <1>5, <1>7, <2>3, FellFurther
    <2>8. drawdownPaused' = (drawdownPaused \/ Fell(walk.index, high'))
      BY <1>5, <1>9
    <2>9. Marked'
      BY <1>5, <2>6 DEF Marked
    <2> QED BY <1>5, <2>2, <2>7, <2>8, <2>9
  <1> QED BY <1>8, <1>9

-----------------------------------------------------------------------------
(* The invariant, step by step *)

LEMMA DomainsKept ==
    ASSUME NavInv, now' = now + 1, worth' \in Int, unseen' \in Int,
           closing' \in [at: Nat, moved: Int, done: BOOLEAN], closing'.at <= now
    PROVE  Domains'
  BY DEF NavInv, Domains

\* The valuations that were there.
LEMMA PointsKept ==
    ASSUME NavInv, now' = now + 1, UNCHANGED <<points, high, best>>
    PROVE  Valued(points') /\ (\A p \in points' : p.at < now') /\ Marked'
  <1>1. \A p \in points : p.at \in Nat /\ p.at < now /\ now \in Nat
    BY DEF NavInv, Domains, Valued, Point
  <1> QED BY <1>1 DEF NavInv, Marked

LEMMA NewPointsKept ==
    ASSUME NavInv, now' = now + 1, Valued(points'), \A p \in points' : p.at <= now
    PROVE  \A p \in points' : p.at < now'
  BY DEF NavInv, Domains, Valued, Point

LEMMA ClosingIs ==
    ASSUME Domains
    PROVE  /\ closing.at \in Nat /\ closing.at < now /\ closing.moved \in Int /\ now \in Nat
           /\ \A m \in Int : [closing EXCEPT !.moved = @ + m] \in [at: Nat, moved: Int, done: BOOLEAN]
           /\ [closing EXCEPT !.done = TRUE] \in [at: Nat, moved: Int, done: BOOLEAN]
           /\ [closing EXCEPT !.done = TRUE].at = closing.at
           /\ \A m \in Int : [closing EXCEPT !.moved = @ + m].at = closing.at
  <1> DEFINE C == [at: Nat, moved: Int, done: BOOLEAN]
  <1>1. closing \in C /\ closing.at \in Nat /\ closing.moved \in Int /\ closing.at < now /\ now \in Nat
    BY DEF Domains
  <1>2. ASSUME NEW m \in Int
        PROVE  [closing EXCEPT !.moved = @ + m] \in C /\ [closing EXCEPT !.moved = @ + m].at = closing.at
    <2>1. closing.moved + m \in Int
      BY <1>1
    <2> QED BY <1>1, <2>1
  <1>3. [closing EXCEPT !.done = TRUE] \in C /\ [closing EXCEPT !.done = TRUE].at = closing.at
    BY <1>1
  <1> QED BY <1>1, <1>2, <1>3

\* A step that only observes, or not even that.
LEMMA ObservingKeeps ==
    ASSUME NavInv, now' = now + 1, UNCHANGED <<navFlows, points, high, closing, best>>,
           Observe \/ UNCHANGED <<worth, unseen, unclassified, unexplained, truth>>
    PROVE  NavInv'
  <1>1. Domains /\ Transferred /\ closing.at <= now
    BY ClosingIs DEF NavInv
  <1>2. Transferred' /\ worth' \in Int /\ unseen' \in Int
    <2>1. CASE Observe
      BY <1>1, <2>1, ObserveKeeps
    <2>2. CASE UNCHANGED <<worth, unseen, unclassified, unexplained, truth>>
      <3>1. worth \in Int /\ unseen \in Int
        BY <1>1 DEF Domains
      <3> QED BY <1>1, <2>2, <3>1, WaitKeeps
    <2> QED BY <2>1, <2>2
  <1>3. Domains'
    BY <1>1, <1>2, DomainsKept DEF Domains
  <1> QED BY <1>2, <1>3, PointsKept DEF NavInv

LEMMA RecordingKeeps ==
    ASSUME NavInv, now' = now + 1, RecordNow,
           UNCHANGED <<worth, unseen, unclassified, unexplained, navFlows, closing, truth>>
    PROVE  NavInv'
  <1>1. Domains /\ Transferred /\ closing.at <= now /\ worth \in Int /\ unseen \in Int
    BY ClosingIs DEF NavInv, Domains
  <1>2. Transferred'
    BY <1>1, WaitKeeps
  <1>3. Domains'
    BY <1>1, DomainsKept DEF Domains
  <1>4. Valued(points') /\ (\A p \in points' : p.at < now') /\ Marked'
    BY RecordNowKeeps, NewPointsKept
  <1> QED BY <1>2, <1>3, <1>4 DEF NavInv

LEMMA MovesKeep == ASSUME NavInv, MarketMoves PROVE NavInv'
  <1>1. /\ now' = now + 1 /\ UNCHANGED <<unseen, unclassified, unexplained, navFlows, points, high, truth, best>>
        /\ Domains /\ Transferred
    BY DEF MarketMoves, Tick, NavInv
  <1>2. PICK m \in Moves : worth' = worth + m /\ closing' = [closing EXCEPT !.moved = @ + m]
    BY DEF MarketMoves
  <1>3. m \in Int /\ worth' \in Int /\ unseen' \in Int
    BY <1>1, <1>2, NavAssumption DEF Domains
  <1>4. Domains'
    BY <1>1, <1>2, <1>3, ClosingIs, DomainsKept
  <1>5. Transferred'
    BY <1>1, WaitKeeps
  <1> QED BY <1>1, <1>4, <1>5, PointsKept DEF NavInv

LEMMA TransferKeeps == ASSUME NavInv, OwnerTransfers PROVE NavInv'
  <1>1. /\ now' = now + 1
        /\ UNCHANGED <<worth, unclassified, unexplained, navFlows, points, high, closing, truth, best>>
        /\ Domains /\ Transferred /\ navFlows = {} /\ ~unclassified /\ unseen' \in Deposits
    BY DEF OwnerTransfers, Tick, NavInv
  <1>2. unseen' \in Int /\ worth' \in Int
    BY <1>1, NavAssumption DEF Domains
  <1>3. Domains'
    BY <1>1, <1>2, ClosingIs, DomainsKept DEF Domains
  <1>4. Transferred'
    BY <1>1 DEF Transferred
  <1> QED BY <1>1, <1>3, <1>4, PointsKept DEF NavInv

LEMMA CloseKeeps == ASSUME NavInv, SessionCloses PROVE NavInv'
  <1>1. /\ now' = now + 1 /\ closing' = [at |-> now, moved |-> 0, done |-> FALSE]
        /\ UNCHANGED <<worth, unseen, unclassified, unexplained, navFlows, points, high, truth, best>>
        /\ Domains /\ Transferred
    BY DEF SessionCloses, Tick, NavInv
  <1>2. Domains'
    BY <1>1, DomainsKept DEF Domains
  <1>3. Transferred'
    BY <1>1, WaitKeeps
  <1> QED BY <1>1, <1>2, <1>3, PointsKept DEF NavInv

LEMMA ExplainKeeps == ASSUME NavInv, Explain PROVE NavInv'
  <1>1. /\ now' = now + 1 /\ unexplained # <<>> /\ navFlows' = navFlows \cup {Head(unexplained)}
        /\ unexplained' = <<>> /\ unclassified' = FALSE
        /\ UNCHANGED <<worth, unseen, points, high, closing, truth, best>>
        /\ Domains /\ Transferred
    BY DEF Explain, Tick, NavInv
  <1>2. PICK f : unexplained = <<f>> /\ SeenFlow(f) /\ navFlows = {} /\ unseen = 0
    BY <1>1 DEF Transferred
  <1>3. navFlows' = {f}
    BY <1>1, <1>2
  <1>4. SeenFlow(f)'
    BY <1>1, <1>2 DEF SeenFlow, Flow, Domains
  <1>5. Transferred'
    BY <1>1, <1>2, <1>3, <1>4 DEF Transferred
  <1>6. Domains'
    BY <1>1, ClosingIs, DomainsKept DEF Domains
  <1> QED BY <1>1, <1>5, <1>6, PointsKept DEF NavInv

LEMMA FinalizeKeeps == ASSUME NavInv, Finalize PROVE NavInv'
  <1>1. /\ now' = now + 1 /\ Observe /\ UNCHANGED <<navFlows, best>> /\ closing.at > 0
        /\ Domains /\ Transferred /\ Marked
    BY DEF Finalize, Tick, NavInv
  <1>2. Transferred' /\ worth' \in Int /\ unseen' \in Int
    BY <1>1, ObserveKeeps
  <1>3. CASE unclassified'
    <2>1. UNCHANGED <<points, high, closing>>
      BY <1>3 DEF Finalize
    <2> QED BY <1>1, <2>1, ObservingKeeps
  <1>4. CASE ~unclassified'
    <2>1. PICK point : point = [at |-> closing.at, nav |-> worth - closing.moved, exact |-> TRUE, completed |-> TRUE]
      OBVIOUS
    <2>2. RecordPoint(point) /\ closing' = [closing EXCEPT !.done = TRUE]
      BY <1>4, <2>1 DEF Finalize
    <2>3. point \in Point /\ point.at = closing.at /\ 0 < point.at /\ point.at <= now
      BY <1>1, <2>1, ClosingIs DEF Domains, Point
    <2>4. /\ Valued(points') /\ (\A p \in points' : p.at <= now)
          /\ high' \in Fraction /\ AtMost(high, high')
      BY <2>2, <2>3, RecordKeeps
    <2>5. Marked'
      BY <1>1, <2>4, AtMostTrans DEF Marked
    <2>6. Domains'
      BY <1>1, <1>2, <2>2, ClosingIs, DomainsKept
    <2> QED BY <1>1, <1>2, <2>4, <2>5, <2>6, NewPointsKept DEF NavInv
  <1> QED BY <1>3, <1>4

LEMMA NextNav == NavInv /\ [NavNext]_navVars => NavInv'
  <1> SUFFICES ASSUME NavInv, [NavNext]_navVars PROVE NavInv'
    OBVIOUS
  <1>1. CASE MonitorReconciles \/ ResumeReconciles
    BY <1>1, ObservingKeeps DEF MonitorReconciles, ResumeReconciles, Tick
  <1>2. CASE MonitorEnds
    BY <1>2, ObservingKeeps DEF MonitorEnds, Tick
  <1>3. CASE PreflightEntry
    BY <1>3, ObservingKeeps DEF PreflightEntry, Tick
  <1>4. CASE Pause \/ ResumeCommits \/ SizeEntry \/ PlanEntry \/ SendEntry
    BY <1>4, ObservingKeeps DEF Pause, ResumeCommits, SizeEntry, PlanEntry, SendEntry, Tick
  <1>5. CASE MonitorRecords \/ ResumeRecords
    BY <1>5, RecordingKeeps DEF MonitorRecords, ResumeRecords, Tick
  <1>6. CASE UNCHANGED navVars
    BY <1>6 DEF navVars, NavInv, Domains, Transferred, SeenFlow, Marked
  <1> QED BY <1>1, <1>2, <1>3, <1>4, <1>5, <1>6, MovesKeep, TransferKeeps, CloseKeeps, ExplainKeeps, FinalizeKeeps
          DEF NavNext

\* What the risk index is compared with stays no less than the best verified valuation.
LEMMA NavAlways == NavSpec => []NavInv
  BY InitNav, NextNav, PTL DEF NavSpec

\* After a tick recorded a verified index, a loss of ten percent against the best verified
\* valuation has paused new risk, whatever the deposits, withdrawals, missing valuations and
\* late closes in between.  (record_nav, performance, DrawdownCircuit)
THEOREM LossesPause == NavSpec => LossPauses
  <1>1. ASSUME NavInv, [NavNext]_navVars
        PROVE  [monitor' = "recorded" /\ monitor = "reconciled" /\ ~riskUnverified' /\ Fell(TrueIndex, best)
                  => drawdownPaused']_navVars
    <2> SUFFICES ASSUME NavNext, monitor' = "recorded", monitor = "reconciled", ~riskUnverified',
                        Fell(TrueIndex, best)
                 PROVE  drawdownPaused'
      BY <1>1
    <2>1. MonitorRecords
      BY DEF NavNext, MarketMoves, OwnerTransfers, SessionCloses, Explain, MonitorReconciles, MonitorEnds,
             Finalize, Pause, ResumeReconciles, ResumeRecords, ResumeCommits, SizeEntry, PlanEntry,
             PreflightEntry, SendEntry
    <2>2. RecordNow
      BY <2>1 DEF MonitorRecords
    <2> QED BY <1>1, <2>2, RecordNowKeeps
  <1> QED BY <1>1, NavAlways, PTL DEF NavSpec, LossPauses
=============================================================================

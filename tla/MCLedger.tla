------------------------------ MODULE MCLedger ------------------------------
(***************************************************************************)
(* Small instances of the ledger and of the net asset value. The two keep  *)
(* separate state; a behaviour runs one part: the ledger, the valuations   *)
(* ("nav") or the entries they allow. A scenario of the ledger says which  *)
(* orders execute, how often the account is read, whether evidence is      *)
(* written, and whether the process may die.                               *)
(***************************************************************************)
EXTENDS AccountLedger, NavRisk, TLC

CONSTANT A

VARIABLES part, scenario

MCOrders == {1, 2}
MCInstrument == [o \in MCOrders |-> A]
MCSide == (1 :> "BUY") @@ (2 :> "SELL")
MCQuantity == (1 :> 2) @@ (2 :> 1)
MCAdopted == (A :> 1)
MCMoves == {-1, 1}
MCDeposits == {-3, 4}

Case(w, orders, most, n, evid, dies) ==
    [whole |-> w, orders |-> orders, most |-> most, reads |-> n, evidence |-> evid, dies |-> dies]

Scenarios ==
    {Case(FALSE, {1}, 2, 3, 0, FALSE),       \* partial fills, settlements, corrections
     Case(FALSE, {1, 2}, 1, 2, 0, FALSE),    \* a purchase and a sale
     Case(TRUE, {1}, 1, 2, 2, FALSE),        \* a trade, a transfer and evidence
     Case(TRUE, {1}, 1, 3, 0, TRUE),         \* three balances, in any order
     Case(TRUE, {1, 2}, 1, 2, 0, FALSE),
     Case(TRUE, {}, 1, 3, 2, TRUE)}          \* evidence again, and after a crash

\* The first share of an attributed account costs 1; with a trade, a death goes with a
\* withdrawal and evidence with a deposit.  While the engine reconciles, only the process may die.
Allowed ==
    /\ \A o \in Orders : exec'[o].qty <= (IF o \in scenario.orders THEN scenario.most ELSE 0)
    /\ \A o \in Orders : exec'[o].notional <= exec'[o].qty + (IF scenario.orders = {1} THEN 1 ELSE 0)
    /\ reads' <= scenario.reads
    /\ \A o \in Orders : exec'[o].qty = 1 /\ exec'[o].notional > 1 => busts' > 0 \/ whole
    /\ scenario.orders /= {} =>
        /\ scenario.dies => transfers' <= 0
        /\ scenario.evidence > 0 => transfers' >= 0
    /\ scenario.evidence = 0 => evidence' = {}
    /\ \A e \in evidence' : e.id <= scenario.evidence
    /\ scenario.dies \/ lives' = 1
    /\ engine.at /= "idle" => UNCHANGED <<broker, evidence>> /\ (reading' = reading \/ lives' /= lives)

MCInit ==
    /\ LedgerInit /\ NavInit
    /\ part \in {"ledger", "nav", "entries"} /\ scenario \in Scenarios
    /\ whole = scenario.whole
    /\ part /= "ledger" => scenario = Case(TRUE, {}, 1, 3, 2, TRUE)

MCNext ==
    /\ \/ part = "ledger" /\ LedgerNext /\ Allowed /\ UNCHANGED navVars
       \/ part = "nav" /\ NavNext /\ review' = review /\ UNCHANGED ledgerVars
       \/ part = "entries" /\ NavNext /\ now' < MaxClock /\ closing'.moved = 0 /\ UNCHANGED ledgerVars
    /\ UNCHANGED <<part, scenario>>

MCSpec == MCInit /\ [][MCNext]_<<ledgerVars, navVars, part, scenario>>

\* The entries alone.
EntriesOnly == MCInit /\ part = "entries" /\ [][MCNext]_<<ledgerVars, navVars, part, scenario>>
=============================================================================

----------------------------- MODULE PaperLedger -----------------------------
(***************************************************************************)
(* One arm of a replay (evaluation.py): the orders, cash, holdings and     *)
(* statistics of PaperLedger, and the events of _run that move them. The   *)
(* program is one thread that handles an event to its end; what reviews    *)
(* and protection decide, which differs between the arms, is a choice      *)
(* here, and so is whether the net asset value fell too far.               *)
(***************************************************************************)
EXTENDS Integers, Sequences, FiniteSetsExt, Functions

CONSTANTS Symbols,
          Capital,                \* initial_capital
          Limit, Asks, Bids,      \* limit of an entry; prices after slippage, of buys and sells
          RatePart, MinFee, TaxPart,   \* commission is a part of the gross, at least MinFee
          TransmissionDelay, CancelDelay, Life,
          Sizes,                  \* what a quote has for buys and for sells
          MaxQuantity, MaxOrders, MaxTime, MaxSplits   \* bounds

\* Amounts are exact (Decimal), and a sale pays its own costs.
ASSUME PaperAssumption ==
    /\ {Capital, Limit, MinFee, TransmissionDelay, CancelDelay, Life, MaxQuantity,
        MaxOrders, MaxTime, MaxSplits} \cup Asks \cup Bids \subseteq Nat
    /\ {RatePart, TaxPart} \subseteq Nat \ {0}
    /\ \A p \in Asks \cup Bids : p % RatePart = 0
    /\ \A p \in Bids : p % TaxPart = 0 /\ p > MinFee + p \div TaxPart /\ p > p \div RatePart + p \div TaxPart
    /\ TransmissionDelay < Life
    /\ Sizes \subseteq [{"BUY", "SELL"} -> Nat]

VARIABLES
    book,     \* the ledger
    clock,    \* the time of the event
    event,    \* what is left to do of the event, and for which instruments
    splits

paperVars == <<book, clock, event, splits>>

NoTime == -1
NoHolding == [qty |-> 0, thesis |-> 0]
NoStats == [spent |-> 0, bought |-> 0, got |-> 0, sold |-> 0]
Ended == [at |-> "idle", left |-> {}]

PaperInit ==
    /\ book = [cash |-> Capital, orders |-> <<>>, holds |-> [s \in Symbols |-> NoHolding],
               stats |-> [t \in 1..MaxOrders |-> NoStats],   \* a thesis has the number of its entry
               paused |-> FALSE, tripped |-> FALSE, unresolved |-> FALSE, halted |-> {}]
    /\ clock = 0 /\ event = Ended /\ splits = 0

----------------------------------------------------------------------------
(* Orders and reservations *)

Working(o) == o.status \in {"PENDING", "PARTIAL", "CANCEL_REQUESTED"}
Unfilled(o) == o.qty - o.filled
OpenOf(b, side, symbols) ==
    {i \in DOMAIN b.orders : Working(b.orders[i]) /\ b.orders[i].side = side /\ b.orders[i].symbol \in symbols}

\* The commission of so much of an order.
Fee(gross) == IF gross = 0 THEN 0 ELSE Max({gross \div RatePart, MinFee})

\* Mutant: the minimum is due for every partial fill.
FeePerFill(o, gross) == Fee(gross)

\* What a fill adds to the commission of its order.
FeeDue(o, gross) == Fee(o.gross + gross) - o.charged

\* pending_entries: the rest at its limit, with the fee of the whole order less what was charged.
ReservedFor(o) == Unfilled(o) * Limit + Max({Fee(o.gross + Unfilled(o) * Limit) - o.charged, 0})
Reserved(b) ==
    SumFunctionOnSet([i \in DOMAIN b.orders |-> ReservedFor(b.orders[i])], OpenOf(b, "BUY", Symbols))

Ordered(b, side, s, n) ==
    [side |-> side, symbol |-> s, qty |-> n, filled |-> 0, gross |-> 0, charged |-> 0, status |-> "PENDING",
     asked |-> FALSE, ack |-> NoTime, eligible |-> clock + TransmissionDelay,
     expires |-> IF side = "BUY" THEN clock + Life ELSE NoTime,
     thesis |-> IF side = "BUY" THEN Len(b.orders) + 1 ELSE b.holds[s].thesis]

Submitted(b, o) == [b EXCEPT !.orders = Append(@, o)]

\* request_cancel: a request without an acknowledgement waits for one.
Cancelled(b, chosen, ack) ==
    [b EXCEPT !.orders = [i \in DOMAIN @ |->
        IF i \in chosen /\ Working(@[i])
          THEN [@[i] EXCEPT !.status = "CANCEL_REQUESTED", !.asked = TRUE, !.ack = ack]
          ELSE @[i]]]

\* advance: an acknowledgement counts before the expiry.
Advanced(b, at) ==
    LET Now(o) == CASE ~Working(o)                           -> o
                    [] Working(o) /\ o.ack \in 0..at         -> [o EXCEPT !.status = "CANCELLED"]
                    [] Working(o) /\ o.ack \notin 0..at      ->
                         IF o.expires \in 0..at THEN [o EXCEPT !.status = "EXPIRED"] ELSE o
    IN [b EXCEPT !.orders = [i \in DOMAIN @ |-> Now(@[i])]]

----------------------------------------------------------------------------
(* Fills *)

\* _fill: a first fill of an entry opens its holding and its statistics.
Bought(b, o, n, paid) ==
    LET first == b.holds[o.symbol].qty = 0
        stats == IF first THEN NoStats ELSE b.stats[o.thesis]
    IN [b EXCEPT !.cash = @ - paid,
                 !.holds[o.symbol] = [qty |-> @.qty + n, thesis |-> IF first THEN o.thesis ELSE @.thesis],
                 !.stats[o.thesis] = [stats EXCEPT !.spent = @ + paid, !.bought = @ + n]]

Sold(b, o, n, received) ==
    LET held  == b.holds[o.symbol]
        stats == b.stats[o.thesis]
    IN [b EXCEPT !.cash = @ + received,
                 !.holds[o.symbol] = IF held.qty = n THEN NoHolding ELSE [held EXCEPT !.qty = @ - n],
                 !.stats[o.thesis] = [stats EXCEPT !.got = @ + received, !.sold = @ + n]]

\* The order after n of it were filled for gross; a requested cancel stays requested.
Counted(o, n, gross) ==
    [o EXCEPT !.filled = @ + n, !.gross = @ + gross, !.charged = Fee(o.gross + gross),
              !.status = IF o.filled + n = o.qty THEN "FILLED"
                         ELSE IF o.asked THEN "CANCEL_REQUESTED" ELSE "PARTIAL"]

\* One order of process_quote; a fill the ledger cannot carry aborts the replay.
Fill(state, i, quote) ==
    LET o     == state.book.orders[i]
        buys  == o.side = "BUY"
        price == IF buys THEN quote.ask ELSE quote.bid
        n     == Min({Unfilled(o), state.size[o.side]})
        gross == n * price
        fee   == FeeDue(o, gross)
        b     == [state.book EXCEPT !.orders[i] = Counted(o, n, gross)]
        meets   == Working(o) /\ o.symbol = quote.symbol /\ quote.at >= o.eligible /\ n > 0 /\ (buys => price <= Limit)
        carried == IF buys THEN gross + fee <= b.cash ELSE n <= b.holds[o.symbol].qty
    IN IF state.aborted \/ ~meets THEN state
       ELSE IF ~carried THEN [state EXCEPT !.aborted = TRUE]
       ELSE [state EXCEPT
                !.book = IF buys THEN Bought(b, o, n, gross + fee)
                         ELSE Sold(b, o, n, gross - fee - gross \div TaxPart),
                !.size[o.side] = @ - n]

\* A quote that was seen, or that the session, the venue or a halt does not allow, fills nothing.
Filled(b, quote) ==
    LET start == [book |-> b, size |-> quote.size, aborted |-> FALSE]
        after[i \in 0..Len(b.orders)] == IF i = 0 THEN start ELSE Fill(after[i - 1], i, quote)
    IN IF quote.usable /\ quote.symbol \notin b.halted THEN after[Len(b.orders)] ELSE start

----------------------------------------------------------------------------
(* The events of _run, in the order of their times; each one advances the ledger first *)

\* The next event is at this time.
Starts(at) == event.at = "idle" /\ at \in clock..MaxTime /\ clock' = at

Leads(where, symbols) == event' = IF symbols = {} THEN Ended ELSE [at |-> where, left |-> symbols]

Quotes == [symbol : Symbols, ask : Asks, bid : Bids, at : clock..MaxTime, usable : BOOLEAN,
           size : Sizes]

QuoteEvent ==
    \E quote \in Quotes :
        LET filled == Filled(Advanced(book, quote.at), quote)
        IN /\ Starts(quote.at) /\ book' = filled.book
           /\ Leads(IF filled.aborted THEN "aborted" ELSE "risk", {quote.symbol})
    /\ UNCHANGED splits

Pausing(b, at) ==
    LET entries == {i \in OpenOf(b, "BUY", Symbols) : b.orders[i].status /= "CANCEL_REQUESTED"}
    IN Cancelled([b EXCEPT !.paused = TRUE], entries, at + CancelDelay)

\* _risk_observation; the monitor of concentrations only advises.
RiskObservation ==
    /\ event.at = "risk"
    /\ \E complete, fell \in BOOLEAN :
        LET tripped == book.tripped \/ (complete /\ ~book.unresolved /\ fell)
            b       == [book EXCEPT !.tripped = tripped]
        IN book' = Advanced(IF complete /\ ~book.unresolved /\ tripped THEN Pausing(b, clock) ELSE b, clock)
    /\ Leads("protect", event.left)
    /\ UNCHANGED <<clock, splits>>

\* Mutant: an exit does not wait for the cancels of the entries.
NotAwaited(b, entries) == FALSE

Awaited(b, entries) == \E i \in entries : b.orders[i].status = "CANCEL_REQUESTED"

\* _protect, with what evaluate_exit decides.
ProtectedBook(b, s, plan) ==
    LET entries == OpenOf(b, "BUY", {s})
        asking  == {i \in entries : ~b.orders[i].asked}
        asked   == IF entries = {} THEN b ELSE Advanced(Cancelled(b, asking, clock + CancelDelay), clock)
    IN IF plan = "keep" THEN b
       ELSE IF plan = "cancel" \/ Awaited(asked, entries) \/ OpenOf(b, "SELL", {s}) /= {} THEN asked
       ELSE Submitted(asked, Ordered(asked, "SELL", s, asked.holds[s].qty))

Protect ==
    /\ event.at = "protect"
    /\ \E s \in event.left, plan \in {"keep", "cancel", "sell"} :
        /\ book.holds[s].qty = 0 \/ book.unresolved => plan = "keep"
        /\ plan = "sell" => s \notin book.halted /\ Len(book.orders) < MaxOrders
        /\ book' = ProtectedBook(book, s, plan)
        /\ Leads("protect", event.left \ {s})
    /\ UNCHANGED <<clock, splits>>

Timer ==
    \E at \in clock..MaxTime :
        /\ Starts(at) /\ book' = Advanced(book, at)
        /\ Leads("protect", {s \in Symbols : book.holds[s].qty > 0})
        /\ UNCHANGED splits

ReviewEvent ==
    \E at \in clock..MaxTime :
        /\ Starts(at) /\ book' = Advanced(book, at) /\ Leads("review", Symbols)
        /\ UNCHANGED splits

\* _review and submit, for a candidate whose gates and size allow it.
EnterOne ==
    /\ event.at = "review"
    /\ \E s \in event.left, n \in 1..MaxQuantity :
        /\ ~book.paused /\ ~book.unresolved /\ Len(book.orders) < MaxOrders
        /\ book.holds[s].qty = 0 /\ OpenOf(book, "BUY", {s}) = {}
        /\ Reserved(book) + n * Limit + Fee(n * Limit) <= book.cash
        /\ book' = Submitted(book, Ordered(book, "BUY", s, n))
        /\ Leads("review", event.left \ {s})
    /\ UNCHANGED <<clock, splits>>

\* The rest of the candidates are refused; a judgement may invalidate what is held.
ReviewEnds ==
    /\ event.at = "review" /\ \E s \in SUBSET Symbols : Leads("protect", s)
    /\ UNCHANGED <<book, clock, splits>>

\* corporate_action, confirmed or not.
Split(b, s) ==
    IF OpenOf(b, "BUY", {s}) \cup OpenOf(b, "SELL", {s}) /= {} THEN [b EXCEPT !.unresolved = TRUE]
    ELSE LET stats == b.stats[b.holds[s].thesis]
         IN [b EXCEPT !.holds[s].qty = 2 * @,
                      !.stats[b.holds[s].thesis] = [stats EXCEPT !.bought = 2 * @, !.sold = 2 * @]]

Dividend(b, s) ==
    [b EXCEPT !.cash = @ + b.holds[s].qty, !.stats[b.holds[s].thesis].got = @ + b.holds[s].qty]

CorporateAction ==
    \E at \in clock..MaxTime, s \in Symbols :
        LET b    == Advanced(book, at)
            held == b.holds[s].qty > 0
        IN /\ Starts(at) /\ Leads("idle", {})
           /\ \/ book' \in {[b EXCEPT !.halted = @ \cup {s}], [b EXCEPT !.halted = @ \ {s}]} /\ UNCHANGED splits
              \/ held /\ splits < MaxSplits /\ splits' = splits + 1 /\ book' \in {Split(b, s), Dividend(b, s)}
              \/ /\ held /\ UNCHANGED splits
                 /\ book' \in {[b EXCEPT !.unresolved = TRUE, !.halted = h] : h \in {b.halted, b.halted \cup {s}}}

\* cancel_request and cancel_ack, which the timeline gives for one order.
CancelEvent ==
    \E at \in clock..MaxTime, i \in DOMAIN book.orders :
        /\ Starts(at) /\ Leads("idle", {})
        /\ \/ book' = Cancelled(Advanced(book, at), {i}, NoTime)
           \/ book' = Advanced([Advanced(book, at) EXCEPT !.orders[i].ack = at], at)
        /\ UNCHANGED splits

\* A holding without a verified mark leaves the arm unresolved; a loss pauses it.
SessionClose ==
    \E at \in clock..MaxTime, marked, lost \in BOOLEAN :
        LET b    == Advanced(book, at)
            held == \E s \in Symbols : b.holds[s].qty > 0
            seen == [b EXCEPT !.unresolved = @ \/ (held /\ ~marked)]
        IN /\ Starts(at) /\ Leads("idle", {})
           /\ book' = IF lost THEN Pausing(seen, at) ELSE seen
           /\ UNCHANGED splits

PaperNext ==
    \/ QuoteEvent \/ RiskObservation \/ Protect \/ Timer \/ ReviewEvent \/ EnterOne \/ ReviewEnds
    \/ CorporateAction \/ CancelEvent \/ SessionClose

PaperSpec == PaperInit /\ [][PaperNext]_paperVars

----------------------------------------------------------------------------
(* Properties *)

\* Whatever is open can be filled in full: the entries from the arm's own cash at their limits,
\* with the fees that are still due, the exits from what is held.  So no fill, in whatever
\* order partial fills, cancels, expiries and dividends come, aborts the replay.
\* (PaperLedger.submit, pending_entries, _fill)
OpenOrdersCovered ==
    /\ event.at /= "aborted" /\ Reserved(book) <= book.cash
    /\ \A s \in Symbols :
        SumFunctionOnSet([i \in DOMAIN book.orders |-> Unfilled(book.orders[i])], OpenOf(book, "SELL", {s}))
            <= book.holds[s].qty

\* The arm's cash and quantities are those its theses account for, so that realized and
\* unrealized profit together are the change of its net asset value: no fill after an exit,
\* no split between fills and no later thesis of the instrument is forgotten.  (_fill, _run)
BooksBalance ==
    /\ book.cash = Capital + SumFunctionOnSet([t \in 1..MaxOrders |-> book.stats[t].got - book.stats[t].spent],
                                          1..MaxOrders)
    /\ \A t \in 1..MaxOrders :
        book.stats[t].bought - book.stats[t].sold =
            SumFunctionOnSet([s \in Symbols |-> book.holds[s].qty], {s \in Symbols : book.holds[s].thesis = t})
=============================================================================

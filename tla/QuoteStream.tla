----------------------------- MODULE QuoteStream -----------------------------
(***************************************************************************)
(* The stream of quotes (adapters/kis_stream.py): one connection, one      *)
(* thread that subscribes and receives, and threads that change the wanted *)
(* tickers (ExternalRuntime._subscribe_quotes) or ask for a quote. Each    *)
(* ticker has a feed of trades and, while registrations are left, one of   *)
(* order books.                                                            *)
(***************************************************************************)
EXTENDS Integers, FiniteSets

CONSTANTS Tickers,      \* as naturals, in the order of their codes
          Protected,    \* tickers of holdings and working orders
          Slots,        \* registrations the provider allows
          MaxAge,       \* the age of a quote that may be used
          MaxClock, MaxLinks   \* bounds: moments and connections told apart

ASSUME StreamAssumption ==
    /\ Tickers \subseteq Nat /\ IsFiniteSet(Tickers) /\ Protected \subseteq Tickers
    /\ Slots \in Nat /\ MaxAge \in Nat /\ MaxClock \in Nat /\ MaxLinks \in Nat

VARIABLES
    now,
    targets,
    active, bookActive,
    cache, books,      \* the last trade and the last book of each ticker, if any
    latest,            \* the last time of a trade seen, if any
    errors,            \* "none", "stale" or "invalid", for each ticker
    connected, closed,
    link,              \* connections so far
    change,            \* the registration sent and not acknowledged
    wantedSince,       \* the moment a ticker last became a target
    given             \* the last quote given, and when

feeds == <<cache, books, latest, errors>>
regs == <<active, bookActive, change>>
streamVars == <<now, targets, regs, feeds, connected, closed, link, wantedSince, given>>

Trades == "H0STCNT0"
Books == "H0STASP0"
NoChange == [op |-> "none", ticker |-> 0, feed |-> Trades]
Empty == [t \in Tickers |-> {}]
Clean == [t \in Tickers |-> "none"]

StreamInit ==
    /\ now = 0 /\ targets = {} /\ active = {} /\ bookActive = {} /\ change = NoChange
    /\ cache = Empty /\ books = Empty /\ latest = Empty /\ errors = Clean
    /\ connected = FALSE /\ closed = FALSE /\ link = 0
    /\ wantedSince = [t \in Tickers |-> 0] /\ given = {}

Tick ==
    /\ now < MaxClock /\ now' = now + 1
    /\ UNCHANGED <<targets, regs, feeds, connected, closed, link, wantedSince, given>>

----------------------------------------------------------------------------
(* _subscribe_quotes, replace *)

\* Too many tickers: the protected ones only, or none.
Wanted(candidates) ==
    LET all == Protected \cup candidates
    IN IF Cardinality(all) <= Slots THEN all
       ELSE IF Cardinality(Protected) <= Slots THEN Protected ELSE {}

Kept(f, ts, nothing) == [t \in Tickers |-> IF t \in ts THEN f[t] ELSE nothing]

\* Mutant: books are kept for a ticker that is not wanted.
BooksStay(ts) == books
BooksOf(ts) == Kept(books, ts, {})

\* Outside the session nothing is wanted (open: the exchange is in session).
Replace(candidates, open) ==
    /\ ~closed
    /\ LET ts == IF open THEN Wanted(candidates) ELSE {}
       IN /\ ts /= targets /\ targets' = ts
          /\ cache' = Kept(cache, ts, {}) /\ latest' = Kept(latest, ts, {})
          /\ errors' = Kept(errors, ts, "none") /\ books' = BooksOf(ts)
          /\ wantedSince' = [t \in Tickers |-> IF t \in ts \ targets THEN now ELSE wantedSince[t]]
    /\ UNCHANGED <<now, regs, connected, closed, link, given>>

----------------------------------------------------------------------------
(* The receiving thread: _run, _change, _receive *)

OpenLink ==
    /\ ~closed /\ ~connected /\ targets /= {} /\ link < MaxLinks
    /\ connected' = TRUE /\ link' = link + 1
    /\ UNCHANGED <<now, targets, regs, feeds, closed, wantedSince, given>>

\* The slots trades leave are for the books of the first tickers.
BookTargets ==
    {t \in targets : Cardinality({u \in targets : u <= t}) <= Slots - Cardinality(targets)}

Pick(op, feed, ts) ==
    \E t \in ts : (\A u \in ts : t <= u) /\ change' = [op |-> op, ticker |-> t, feed |-> feed]

\* Mutant: new trades are registered before old ones are removed.
NextAddsFirst ==
    LET removed == active \ targets added == targets \ active
        removedBooks == bookActive \ BookTargets addedBooks == BookTargets \ bookActive
    IN \/ added /= {} /\ Pick("1", Trades, added)
       \/ added = {} /\ removedBooks /= {} /\ Pick("2", Books, removedBooks)
       \/ added = {} /\ removedBooks = {} /\ removed /= {} /\ Pick("2", Trades, removed)
       \/ added = {} /\ removedBooks = {} /\ removed = {} /\ addedBooks /= {} /\ Pick("1", Books, addedBooks)

\* Books give way first, then trades no longer wanted; then come new trades, new books last.
NextChange ==
    LET removed == active \ targets added == targets \ active
        removedBooks == bookActive \ BookTargets addedBooks == BookTargets \ bookActive
    IN \/ removedBooks /= {} /\ Pick("2", Books, removedBooks)
       \/ removedBooks = {} /\ removed /= {} /\ Pick("2", Trades, removed)
       \/ removedBooks = {} /\ removed = {} /\ added /= {} /\ Pick("1", Trades, added)
       \/ removedBooks = {} /\ removed = {} /\ added = {} /\ addedBooks /= {} /\ Pick("1", Books, addedBooks)

Change ==
    /\ connected /\ change = NoChange /\ NextChange
    /\ UNCHANGED <<now, targets, active, bookActive, feeds, connected, closed, link, wantedSince,
                   given>>

Acknowledge ==
    /\ connected /\ change /= NoChange /\ change' = NoChange
    /\ LET t == change.ticker
           with(set) == IF change.op = "1" THEN set \cup {t} ELSE set \ {t}
           gone(f) == IF change.op = "2" THEN [f EXCEPT ![t] = {}] ELSE f
       IN IF change.feed = Trades
            THEN /\ active' = with(active) /\ cache' = gone(cache) /\ latest' = gone(latest)
                 /\ UNCHANGED <<bookActive, books>>
            ELSE /\ bookActive' = with(bookActive) /\ books' = gone(books)
                 /\ UNCHANGED <<active, cache, latest>>
    /\ UNCHANGED <<now, targets, errors, connected, closed, link, wantedSince, given>>

\* A registered ticker, also before its acknowledgement; others end the connection (Lose).
Expected(t, feed) ==
    \/ t \in IF feed = Trades THEN active ELSE bookActive
    \/ change = [op |-> "1", ticker |-> t, feed |-> feed]

Packet(stamp) == [stamp |-> stamp, received |-> now, link |-> link]
Stale(stamp) == now - stamp > MaxAge
Later(a, b) == IF a > b THEN a ELSE b

\* A trade that is old, out of order or outside the regular session takes the quote away.
ReceiveTrade(t, stamp, regular) ==
    /\ connected /\ Expected(t, Trades) /\ stamp <= now
    /\ IF t \notin targets THEN UNCHANGED <<cache, latest, errors>>
       ELSE IF regular /\ ~Stale(stamp) /\ (\A seen \in latest[t] : stamp >= seen)
         THEN /\ cache' = [cache EXCEPT ![t] = {Packet(stamp)}]
              /\ latest' = [latest EXCEPT ![t] = {stamp}]
              /\ errors' = [errors EXCEPT ![t] = "none"]
         ELSE /\ cache' = [cache EXCEPT ![t] = {}]
              /\ latest' = IF regular /\ Stale(stamp)
                             THEN [latest EXCEPT ![t] = IF @ = {} THEN {stamp}
                                                        ELSE {Later(stamp, seen) : seen \in @}]
                             ELSE latest
              /\ errors' = [errors EXCEPT ![t] = IF regular /\ Stale(stamp) THEN "stale" ELSE "invalid"]
    /\ UNCHANGED <<now, targets, regs, books, connected, closed, link, wantedSince, given>>

\* Books are kept in their own order.
ReceiveBook(t, stamp) ==
    /\ connected /\ Expected(t, Books) /\ stamp <= now
    /\ t \in targets /\ \A b \in books[t] : stamp >= b.stamp
    /\ books' = [books EXCEPT ![t] = {Packet(stamp)}]
    /\ UNCHANGED <<now, targets, regs, cache, latest, errors, connected, closed, link, wantedSince,
                   given>>

\* _reset: after a lost connection, a wrong frame, or no acknowledgement in time.
Lose ==
    /\ connected /\ connected' = FALSE
    /\ active' = {} /\ bookActive' = {} /\ change' = NoChange
    /\ cache' = Empty /\ latest' = Empty /\ errors' = Clean /\ books' = Empty
    /\ UNCHANGED <<now, targets, closed, link, wantedSince, given>>

Close ==
    /\ ~closed /\ closed' = TRUE /\ connected' = FALSE
    /\ active' = {} /\ bookActive' = {} /\ change' = NoChange
    /\ cache' = Empty /\ latest' = Empty /\ errors' = Clean /\ books' = Empty
    /\ UNCHANGED <<now, targets, link, wantedSince, given>>

----------------------------------------------------------------------------
(* quote *)

Fresh(p) == now - p.stamp <= MaxAge /\ now - p.received <= MaxAge

Give(t, p) == given' = {[ticker |-> t, packet |-> p, at |-> now]}

\* A fresh book answers, unless the trades show that the session is not regular; then the
\* last trade, which is dropped when it has become old.
Quote(t) ==
    /\ ~closed /\ t \in targets /\ connected /\ t \in active
    /\ LET book == {b \in books[t] : t \in bookActive /\ errors[t] /= "invalid" /\ Fresh(b)}
       IN \/ \E b \in book : Give(t, b) /\ UNCHANGED <<cache, errors>>
          \/ book = {} /\ \E p \in cache[t] :
                IF Fresh(p) THEN Give(t, p) /\ UNCHANGED <<cache, errors>>
                ELSE /\ cache' = [cache EXCEPT ![t] = {}]
                     /\ errors' = [errors EXCEPT ![t] = "stale"]
                     /\ UNCHANGED given
    /\ UNCHANGED <<now, targets, regs, books, latest, connected, closed, link, wantedSince>>

StreamNext ==
    \/ Tick \/ OpenLink \/ Change \/ Acknowledge \/ Lose \/ Close
    \/ \E candidates \in SUBSET Tickers, open \in BOOLEAN : Replace(candidates, open)
    \/ \E t \in Tickers, stamp \in 0..MaxClock :
        ReceiveBook(t, stamp) \/ \E regular \in BOOLEAN : ReceiveTrade(t, stamp, regular)
    \/ \E t \in Tickers : Quote(t)

StreamSpec == StreamInit /\ [][StreamNext]_streamVars

----------------------------------------------------------------------------
(* Properties *)

\* The provider never holds more registrations than it allows, counting a removal only when
\* it is acknowledged, however the wanted tickers change meanwhile.  (_run)
RegistrationsHeld ==
    Cardinality(active) + Cardinality(bookActive) + (IF change.op = "1" THEN 1 ELSE 0) <= Slots

\* A quote that is given was received over the connection that stands, after the ticker was
\* last asked for, and is no older than allowed: nothing of a lost connection, or of a ticker
\* that was dropped and wanted again, comes back.  (quote, replace, _reset)
QuoteOfThisSession ==
    [][given' /= given =>
        \A q \in given' : /\ q.packet.link = link
                           /\ q.packet.received >= wantedSince[q.ticker]
                           /\ now - q.packet.stamp <= MaxAge]_streamVars
=============================================================================

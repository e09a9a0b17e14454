--------------------------- MODULE OrderExecution ---------------------------
(***************************************************************************)
(* The only path on which the trading engine changes broker orders:        *)
(* Executor (execution.py) over the durable ledger (store.py), called by   *)
(* the monitor loop, by protect(), by reviews and by the operator commands *)
(* (application.py), against a broker that fills, loses answers, cancels   *)
(* late and reports incomplete or stale accounts (runtime.py).             *)
(*                                                                         *)
(* Threads share two locks.  dispatch_lock is the variable dispatchLock.   *)
(* store.lock is held across several steps only between the final check    *)
(* and the broker's answer (execution.py:129-146), so it is derived: see   *)
(* StoreFree.  Every other transaction is one action.                      *)
(*                                                                         *)
(* account_version is read only to be compared with the version an intent  *)
(* was built from; "fresh" holds exactly when the two are still equal.     *)
(***************************************************************************)
EXTENDS Integers, FiniteSets, Functions

CONSTANTS
    Threads,            \* the engine's threads that reach the executor
    Reviewers,          \* those that run reviews, and submit entries
    Monitors,           \* those that run the monitor tick, protect() or /resume
    Intents,            \* OrderIntents; an intent's id is derived from its plan
    Buys,               \* the intents with side BUY; the others are SELL
    Instruments,
    Instrument,         \* [Intents -> Instruments]
    Quantity,           \* [Intents -> Nat \ {0}]
    Price,              \* cash moved per share filled, costs included
    UnitReserve,        \* reserve_cash per share of a BUY, 0 for a SELL
    InitialCash,
    InitialHoldings,    \* [Instruments -> Nat]
    BrokerEchoesIntent, \* snapshots carry verified_client_intent_id
    SessionEnds,        \* the broker may expire open orders
    MaxCrashes,         \* bound: process deaths
    MaxLateFills,       \* bound: fills reported for an order already canceled
    None                \* no thread, no intent

ASSUME SetsAssumption ==
    /\ None \notin Threads \cup Intents
    /\ Reviewers \subseteq Threads /\ Monitors \subseteq Threads
    /\ Buys \subseteq Intents
    /\ IsFiniteSet(Intents)    \* the rows of a table
ASSUME FunctionsAssumption ==
    /\ Instrument \in [Intents -> Instruments]
    /\ Quantity \in [Intents -> Nat \ {0}]
    /\ Price \in [Intents -> Nat]
    /\ UnitReserve \in [Intents -> Nat]
    /\ InitialHoldings \in [Instruments -> Nat]
ASSUME CashAssumption ==
    /\ InitialCash \in Nat
    \* size_entry reserves at least the capped price and its costs
    /\ \A i \in Buys : UnitReserve[i] >= Price[i]
    /\ \A i \in Intents \ Buys : UnitReserve[i] = 0
ASSUME EnvironmentAssumption ==
    /\ BrokerEchoesIntent \in BOOLEAN
    /\ SessionEnds \in BOOLEAN
    /\ MaxCrashes \in Nat
    /\ MaxLateFills \in Nat

VARIABLES
    row,            \* the intents table; state NONE is "no such row"
    cash,           \* meta.cash_krw
    holdings,       \* holdings rows owned by the strategy
    reconciled,     \* meta.reconciled
    paused,         \* meta.paused (and the other new-risk blocks)
    dispatchLock,   \* the thread that holds Executor.dispatch_lock
    local,          \* each thread's program counter and Python locals
    venue,          \* the broker's own order book
    expired,        \* entries whose expires_at has passed
    crashes,
    lateFills

ledger == <<row, cash, holdings, reconciled, paused>>
environment == <<venue, expired, crashes, lateFills>>
vars == <<ledger, dispatchLock, local, environment>>

TERMINAL == {"FILLED", "CANCELED", "REJECTED", "EXPIRED", "PARTIAL_CANCELED",
             "INVALIDATED"}
\* Faulty: an order whose fate is unknown is not counted as working.
KnownWorking == {"VALIDATED", "SUBMITTING", "ACKNOWLEDGED", "PARTIALLY_FILLED",
                 "CANCEL_REQUESTED"}

WORKING == {"VALIDATED", "SUBMITTING", "ACKNOWLEDGED", "PARTIALLY_FILLED",
            "UNKNOWN", "CANCEL_REQUESTED"}

VenueStatus == {"ABSENT", "INFLIGHT", "OPEN", "FILLED", "CANCELED", "EXPIRED"}

\* store.working()
Working == {i \in Intents : row[i].state \in WORKING}

\* Faulty: entries being canceled are taken as gone.
OtherOpen(i) == {j \in Working \ {i} : row[j].state # "CANCEL_REQUESTED"}

\* The rows _validate_state compares an intent with.
OtherWorking(i) == Working \ {i}

\* Faulty: an intent whose order is closed may be submitted again.
InProgress(i) == row[i].state \in WORKING

\* A row with the intent's idempotency key exists.
Submitted(i) == row[i].state # "NONE"

\* reservation: what the given rows still hold of the strategy's cash
Reserved(S) == SumFunctionOnSet([i \in Intents |-> row[i].reserve], S)

\* The orders of one instrument.
Of(x) == {i \in Intents : Instrument[i] = x}

\* Shares of an instrument that sells already working may still deliver.
PendingSells(i) ==
    SumFunctionOnSet([j \in Intents |-> Quantity[j] - row[j].filled],
                     (Of(Instrument[i]) \cap OtherWorking(i)) \ Buys)

\* The account's shares of x, given the shares each order has traded.
Position(x, traded) ==
    InitialHoldings[x] +
        SumFunctionOnSet([i \in Intents |-> IF i \in Buys THEN traded[i] ELSE -traded[i]], Of(x))

\* What each order has really traded.
Traded == [i \in Intents |-> venue[i].traded]

-----------------------------------------------------------------------------
(* Thread-local state. *)

PCs == {"idle", "observe", "balance", "collected", "settling", "applied", "reserve",
        "reserved", "submitting", "checked", "answered", "expire", "protect",
        "retire", "cancel", "canceling", "exit", "resume"}

\* What a thread does once its reconciliation has succeeded.
Continuations == {"none", "reserve", "expire", "protect", "exit", "resume"}

\* What a snapshot shows of each order; ABSENT when the history omits it.
NoSnapshot == [i \in Intents |-> [status |-> "ABSENT", traded |-> 0]]

Idle ==
    [pc |-> "idle", after |-> "none", intent |-> None, fresh |-> FALSE,
     order |-> None, prior |-> "NONE", answer |-> "none",
     held |-> FALSE, snapshot |-> NoSnapshot,
     balance |-> [i \in Intents |-> 0], todo |-> {}, unresolved |-> {}]

\* Faulty: the account version does not move.
NotBumped(l) == l

\* bump_version: every intent built before it is now stale.
Bumped(l) == [t \in Threads |-> [l[t] EXCEPT !.fresh = FALSE]]

At(t, pc) == local[t].pc = pc

\* Faulty: account writes do not wait for an order that is being sent.
NeverWaits == TRUE

\* Another thread would wait for store.lock while t is between the final check
\* and the broker's answer.
StoreFree == \A t \in Threads : ~At(t, "checked")

\* dispatch_lock is reentrant.
MayDispatch(t) == dispatchLock \in {None, t}

Released(t) == IF dispatchLock = t THEN None ELSE dispatchLock

\* The end of an inner "with dispatch_lock": protect() may hold it further out.
LeaveDispatch(t) == IF local[t].held THEN t ELSE None

\* t returns to its loop, by returning or by an exception, and leaves the
\* "with dispatch_lock" blocks it was in.
Return(t) ==
    /\ local' = [local EXCEPT ![t] = Idle]
    /\ dispatchLock' = Released(t)

ReturnBumping(t) ==
    /\ local' = Bumped([local EXCEPT ![t] = Idle])
    /\ dispatchLock' = Released(t)

Init ==
    /\ row = [i \in Intents |->
                [state |-> "NONE", filled |-> 0, reserve |-> 0, known |-> FALSE,
                 earlier |-> {}]]
    /\ cash = InitialCash
    /\ holdings = InitialHoldings
    /\ reconciled = FALSE
    /\ paused = FALSE
    /\ dispatchLock = None
    /\ local = [t \in Threads |-> Idle]
    /\ venue = [i \in Intents |->
                  [status |-> "ABSENT", traded |-> 0, cancelAsked |-> FALSE,
                   posts |-> 0]]
    /\ expired = {}
    /\ crashes = 0
    /\ lateFills = 0

-----------------------------------------------------------------------------
(* Where work begins.                                                       *)

\* submit(): the first idempotency check passes (execution.py:101-104).  The
\* intent was built from the account version read just before.
BeginBuy(t, i) ==
    /\ t \in Reviewers
    /\ At(t, "idle")
    /\ i \in Buys
    /\ ~Submitted(i)
    /\ dispatchLock = None
    /\ local' = [local EXCEPT ![t] = [Idle EXCEPT !.pc = "observe",
                    !.after = "reserve", !.intent = i, !.fresh = TRUE]]
    /\ UNCHANGED <<ledger, dispatchLock, environment>>

\* protect() builds the exit and submits it inside one dispatch_lock block.
BeginSell(t, i) ==
    /\ At(t, "exit")
    /\ i \in Intents \ Buys
    /\ ~Submitted(i)
    /\ dispatchLock = None
    /\ \A j \in Working : Instrument[j] # Instrument[i]
    /\ Quantity[i] <= holdings[Instrument[i]]
    /\ dispatchLock' = t
    /\ local' = [local EXCEPT ![t] = [Idle EXCEPT !.pc = "observe",
           !.after = "reserve", !.intent = i, !.fresh = TRUE, !.held = TRUE]]
    /\ UNCHANGED <<ledger, environment>>

\* The monitor reconciles under dispatch_lock when an order is working.
BeginTick(t) ==
    /\ t \in Monitors
    /\ At(t, "idle")
    /\ Working # {}
    /\ dispatchLock = None
    /\ dispatchLock' = t
    /\ local' = [local EXCEPT ![t] = [Idle EXCEPT !.pc = "observe",
                                                  !.after = "expire"]]
    /\ UNCHANGED <<ledger, environment>>

\* protect() and a review collect the account without any lock.
BeginProtect(t) ==
    /\ t \in Monitors
    /\ At(t, "idle")
    /\ local' = [local EXCEPT ![t] = [Idle EXCEPT !.pc = "observe",
                                                  !.after = "protect"]]
    /\ UNCHANGED <<ledger, dispatchLock, environment>>

BeginResume(t) ==
    /\ t \in Monitors
    /\ At(t, "idle")
    /\ paused
    /\ dispatchLock = None
    /\ dispatchLock' = t
    /\ local' = [local EXCEPT ![t] = [Idle EXCEPT !.pc = "observe",
                                                  !.after = "resume"]]
    /\ UNCHANGED <<ledger, environment>>

\* A refresh, a check or an authorization fails before anything was written.
Abandon(t) ==
    /\ \/ At(t, "observe")
       \/ At(t, "reserve")
       \/ At(t, "resume")
    /\ Return(t)
    /\ UNCHANGED <<ledger, environment>>

-----------------------------------------------------------------------------
(* Reconciliation.                                                          *)

Listed(i) == venue[i].status \notin {"ABSENT", "INFLIGHT"}

\* An order the broker lists and no ledger row claims makes the account
\* incomplete (UNALLOCATED_BROKER_ORDER), unless the broker names the intent.
Claimable(i) == row[i].known \/ BrokerEchoesIntent

\* The order list the broker returns, when it contains the orders seen.
Shown(seen) ==
    [i \in Intents |-> IF i \in seen
                       THEN [status |-> venue[i].status, traded |-> venue[i].traded]
                       ELSE NoSnapshot[i]]

\* A complete order list.  History is bounded: closed orders may be missing
\* from it.
Observe(t) ==
    /\ At(t, "observe")
    /\ \E seen \in {{i \in Intents : Listed(i)},
                    {i \in Intents : venue[i].status = "OPEN"}} :
         /\ \A i \in seen : Claimable(i)
         /\ local' = [local EXCEPT ![t] =
               [@ EXCEPT !.pc = "balance", !.snapshot = Shown(seen)]]
    /\ UNCHANGED <<ledger, dispatchLock, environment>>

\* The balance is read last, and may show fills that the order list does not.
ReadBalance(t) ==
    /\ At(t, "balance")
    /\ local' = [local EXCEPT ![t] = [@ EXCEPT !.pc = "collected",
                                                  !.balance = Traded]]
    /\ UNCHANGED <<ledger, dispatchLock, environment>>

\* An incomplete account clears "reconciled" at once, without dispatch_lock
\* when a refresh found it.  A refresh raises; reconcile(None) only reports
\* DATA_INCOMPLETE, and its caller goes on.
ObserveIncomplete(t) ==
    /\ At(t, "observe")
    /\ StoreFree
    /\ reconciled' = FALSE
    /\ IF local[t].after \in {"reserve", "protect"}
       THEN Return(t)
       ELSE /\ local' = [local EXCEPT ![t].pc = local[t].after]
            /\ dispatchLock' = LeaveDispatch(t)
    /\ UNCHANGED <<row, cash, holdings, paused, environment>>

\* The row is matched by its broker id, or by the intent id the broker returns.
Matched(i, snapshot) ==
    /\ snapshot[i].status # "ABSENT"
    /\ Claimable(i)

\* _preflight rejects an intent whose account version has moved (251-252).
PreflightStale(t) ==
    /\ At(t, "collected")
    /\ MayDispatch(t)
    /\ local[t].after = "reserve"
    /\ ~local[t].fresh
    /\ Return(t)
    /\ UNCHANGED <<ledger, environment>>

\* Working rows without exactly one candidate are unresolved; closed rows are
\* revisited only when the snapshot shows them.
ReconcileBegin(t) ==
    /\ At(t, "collected")
    /\ MayDispatch(t)
    /\ local[t].after = "reserve" => local[t].fresh
    /\ dispatchLock' = t
    /\ LET matched == {i \in Intents : Matched(i, local[t].snapshot)}
       IN  local' = [local EXCEPT ![t] =
              [@ EXCEPT !.pc = "settling",
                        !.todo = {i \in matched : Submitted(i)},
                        !.unresolved = Working \ matched]]
    /\ UNCHANGED <<ledger, environment>>

\* apply_cumulative_fill's refusals: the reconciliation stops where it is.
Refused(i, delta) ==
    \/ /\ i \notin Buys
       /\ holdings[Instrument[i]] < delta
    \/ /\ i \in Buys
       /\ cash < delta * Price[i]

\* The state after a cumulative fill (store.py:531-534).
FillState(i, traded) ==
    IF traded = Quantity[i] THEN "FILLED"
    ELSE IF row[i].state \in {"CANCELED", "PARTIAL_CANCELED", "EXPIRED"}
         THEN "PARTIAL_CANCELED"
    ELSE IF row[i].state = "CANCEL_REQUESTED" THEN "CANCEL_REQUESTED"
    ELSE "PARTIALLY_FILLED"

\* An older revision of the same cumulative order, or one already booked.
Older(i, traded) == traded <= row[i].filled

ApplyFill(t, i) ==
    LET traded == local[t].snapshot[i].traded
        delta  == traded - row[i].filled
        state  == FillState(i, traded)
        sign   == IF i \in Buys THEN 1 ELSE -1
        next   == [local EXCEPT ![t] = [@ EXCEPT !.pc = "applied", !.order = i,
                                                 !.todo = local[t].todo \ {i}]]
    IN  /\ At(t, "settling")
        /\ i \in local[t].todo
        /\ IF Older(i, traded)
           THEN /\ row' = [row EXCEPT ![i].known = TRUE]
                /\ local' = next
                /\ UNCHANGED <<cash, holdings, dispatchLock>>
           ELSE IF Refused(i, delta)
           THEN /\ Return(t)
                /\ row' = [row EXCEPT ![i].known = TRUE]
                /\ UNCHANGED <<cash, holdings>>
           ELSE /\ row' = [row EXCEPT ![i] =
                      [@ EXCEPT !.state = state, !.filled = traded,
                         !.known = TRUE,
                         !.reserve = IF state \in WORKING
                                     THEN UnitReserve[i] * (Quantity[i] - traded)
                                     ELSE 0]]
                /\ cash' = cash - sign * delta * Price[i]
                /\ holdings' = [holdings EXCEPT ![Instrument[i]] =
                                                    @ + sign * delta]
                /\ local' = Bumped(next)
                /\ UNCHANGED dispatchLock
        /\ UNCHANGED <<reconciled, paused, environment>>

\* Faulty: the broker's own word is stored.
BrokerWord(seen) == seen.status

\* Faulty: what the snapshot shows of an unknown order is not taken over.
StillUnknown(seen) == "UNKNOWN"

\* The engine's name for an order the broker still works on.
BrokerState(seen) == IF seen.traded > 0 THEN "PARTIALLY_FILLED" ELSE "ACKNOWLEDGED"

\* Faulty: an order found unfit at the final check waits for another attempt.
KeptValidated(i, state) ==
    [row EXCEPT ![i] = [@ EXCEPT !.reserve = 0, !.state =
                            IF state = "INVALIDATED" THEN "VALIDATED" ELSE state]]

Closed(i, state) == [row EXCEPT ![i] = [@ EXCEPT !.state = state, !.reserve = 0]]

\* The broker's terminal state closes the row; an UNKNOWN row that was found
\* takes the broker's working state (execution.py:276-283).
SettleState(t) ==
    LET i == local[t].order
        seen == local[t].snapshot[i]
    IN  /\ At(t, "applied")
        /\ row' = IF seen.status \in TERMINAL
                  THEN Closed(i, IF row[i].filled = Quantity[i] THEN "FILLED"
                                 ELSE IF row[i].filled > 0 THEN "PARTIAL_CANCELED"
                                 ELSE seen.status)
                  ELSE IF row[i].state = "UNKNOWN"
                  THEN [row EXCEPT ![i].state = BrokerState(seen)]
                  ELSE row
        /\ local' = [local EXCEPT ![t] = [@ EXCEPT !.pc = "settling",
                                                      !.order = None]]
        /\ UNCHANGED <<cash, holdings, reconciled, paused, dispatchLock, environment>>

\* Every row settled: the account counts as reconciled only if no order is
\* unresolved and the broker's positions are exactly the ledger's.
ReconcileEnd(t) ==
    LET owned == \A x \in Instruments :
                    holdings[x] = Position(x, local[t].balance)
        ok    == owned /\ local[t].unresolved = {}
    IN  /\ At(t, "settling")
        /\ local[t].todo = {}
        /\ reconciled' = ok
        /\ IF ok
           THEN /\ local' = [local EXCEPT ![t] =
                      [@ EXCEPT !.pc = local[t].after, !.after = "none",
                                !.snapshot = NoSnapshot,
                                !.balance = Idle.balance]]
                /\ dispatchLock' = LeaveDispatch(t)
           ELSE Return(t)
        /\ UNCHANGED <<row, cash, holdings, paused, environment>>

-----------------------------------------------------------------------------
(* Submission: reserve, persist SUBMITTING, check again, send, record.      *)

\* Faulty: working orders of the other side do not matter.
EitherSideValid(t, i) ==
    /\ reconciled
    /\ i \in Buys => ~paused /\ i \notin expired
    /\ local[t].fresh
    /\ IF i \in Buys
       THEN UnitReserve[i] * Quantity[i] <= cash - Reserved(OtherWorking(i))
       ELSE Quantity[i] <= holdings[Instrument[i]] - PendingSells(i)

\* _validate_state: reconciled, new risk allowed, same account version, no
\* opposite working order, enough shares or unreserved cash.
StateValid(t, i) ==
    /\ reconciled
    /\ i \in Buys => ~paused /\ i \notin expired
    /\ local[t].fresh
    /\ \A j \in OtherWorking(i) :
          Instrument[j] = Instrument[i] => (j \in Buys <=> i \in Buys)
    /\ IF i \in Buys
       THEN UnitReserve[i] * Quantity[i] <= cash - Reserved(OtherWorking(i))
       ELSE Quantity[i] <= holdings[Instrument[i]] - PendingSells(i)

\* The second idempotency check finds the row of a concurrent submission.
AlreadySubmitted(t) ==
    /\ At(t, "reserve")
    /\ MayDispatch(t)
    /\ Submitted(local[t].intent)
    /\ Return(t)
    /\ UNCHANGED <<ledger, environment>>

Reserve(t) ==
    LET i == local[t].intent
    IN  /\ At(t, "reserve")
        /\ MayDispatch(t)
        /\ ~Submitted(i)
        /\ StateValid(t, i)
        /\ row' = [row EXCEPT ![i] =
              [state |-> "VALIDATED", filled |-> 0, known |-> FALSE,
               reserve |-> UnitReserve[i] * Quantity[i],
               earlier |-> {j \in Intents : Submitted(j)}]]
        /\ dispatchLock' = t
        /\ local' = [local EXCEPT ![t].pc = "reserved"]
        /\ UNCHANGED <<cash, holdings, reconciled, paused, environment>>

\* "Persist SUBMITTING before the external call": the update names only the id.
MarkSubmitting(t) ==
    /\ At(t, "reserved")
    /\ row' = [row EXCEPT ![local[t].intent].state = "SUBMITTING"]
    /\ local' = [local EXCEPT ![t].pc = "submitting"]
    /\ UNCHANGED <<cash, holdings, reconciled, paused, dispatchLock, environment>>

\* Under store.lock from here to the broker's answer.
FinalCheck(t) ==
    /\ At(t, "submitting")
    /\ StateValid(t, local[t].intent)
    /\ row[local[t].intent].state = "SUBMITTING"
    /\ local' = [local EXCEPT ![t].pc = "checked"]
    /\ UNCHANGED <<ledger, dispatchLock, environment>>

\* The state, the market or the authorization no longer allows the order.
FinalCheckFails(t) ==
    /\ At(t, "submitting")
    /\ row' = Closed(local[t].intent, "INVALIDATED")
    /\ ReturnBumping(t)
    /\ UNCHANGED <<cash, holdings, reconciled, paused, environment>>

Answers == {"NOT_SENT", "REJECTED", "ACKNOWLEDGED", "UNKNOWN"}

\* The POST left the host, and the order is at the broker with this status.
Posted(i, status) ==
    [venue EXCEPT ![i] = [@ EXCEPT !.posts = venue[i].posts + 1, !.status = status]]

\* broker.submit returned.  NOT_SENT never left the host; an UNKNOWN answer
\* may belong to an order that reaches the broker later.
Transmit(t) ==
    LET i == local[t].intent
    IN  /\ At(t, "checked")
        /\ \E answer \in Answers :
              /\ local' = [local EXCEPT ![t] = [@ EXCEPT !.pc = "answered",
                                                         !.answer = answer]]
              /\ venue' = CASE answer = "NOT_SENT"     -> venue
                            [] answer = "REJECTED"     -> Posted(i, venue[i].status)
                            [] answer = "ACKNOWLEDGED" -> Posted(i, "OPEN")
                            [] answer = "UNKNOWN"      -> Posted(i, "INFLIGHT")
        /\ UNCHANGED <<ledger, dispatchLock, expired, crashes, lateFills>>

\* broker.submit raised: _unknown commits before store.lock is released.
TransmitRaises(t) ==
    LET i == local[t].intent
    IN  /\ At(t, "checked")
        /\ venue' = Posted(i, "INFLIGHT")
        /\ row' = [row EXCEPT ![i].state = "UNKNOWN"]
        /\ reconciled' = FALSE
        /\ Return(t)
        /\ UNCHANGED <<cash, holdings, paused, expired, crashes, lateFills>>

\* NOT_SENT and ACKNOWLEDGED move the account version; REJECTED and UNKNOWN
\* do not (execution.py:147-165).
RecordResponse(t) ==
    LET i == local[t].intent
        answer == local[t].answer
    IN  /\ At(t, "answered")
        /\ row' = CASE answer = "NOT_SENT"     -> Closed(i, "INVALIDATED")
                    [] answer = "REJECTED"     -> Closed(i, "REJECTED")
                    [] answer = "ACKNOWLEDGED" ->
                          [row EXCEPT ![i] = [@ EXCEPT !.state = "ACKNOWLEDGED",
                                                       !.known = TRUE]]
                    [] OTHER -> [row EXCEPT ![i].state = "UNKNOWN"]
        /\ reconciled' = (reconciled /\ answer # "UNKNOWN")
        /\ IF answer \in {"NOT_SENT", "ACKNOWLEDGED"}
           THEN ReturnBumping(t)
           ELSE Return(t)
        /\ UNCHANGED <<cash, holdings, paused, environment>>

-----------------------------------------------------------------------------
(* Cancellation, expiry and protection.                                     *)

\* protect() leaves a holding: it retires every unsent entry with no
\* dispatch_lock held, then cancels the entries of that instrument.
InvalidateUnsubmitted(t) ==
    LET unsent == {i \in Buys : row[i].state = "VALIDATED"}
        next   == [local EXCEPT ![t].pc = "retire"]
    IN  /\ At(t, "protect")
        /\ StoreFree
        /\ \E x \in Instruments : holdings[x] > 0
        /\ row' = [i \in Intents |->
                     IF i \in unsent
                     THEN [row[i] EXCEPT !.state = "INVALIDATED", !.reserve = 0]
                     ELSE row[i]]
        /\ local' = IF unsent = {} THEN next ELSE Bumped(next)
        /\ UNCHANGED <<cash, holdings, reconciled, paused, dispatchLock, environment>>

\* _protect_pending_entries: an entry whose thesis no longer holds is retired,
\* or canceled and reconciled, inside one dispatch_lock block.  A pass that
\* finds several is as many passes, one entry each.
RetireThesis(t, i) ==
    /\ At(t, "protect")
    /\ dispatchLock = None
    /\ i \in Working \cap Buys
    /\ reconciled
    /\ row[i].state # "UNKNOWN"
    /\ IF row[i].state = "VALIDATED"
       THEN /\ row' = Closed(i, "INVALIDATED")
            /\ local' = Bumped(local)
            /\ UNCHANGED dispatchLock
       ELSE /\ local' = [local EXCEPT ![t] = [@ EXCEPT !.pc = "cancel",
                            !.todo = {i}, !.after = "exit", !.held = TRUE]]
            /\ dispatchLock' = t
            /\ UNCHANGED row
    /\ UNCHANGED <<cash, holdings, reconciled, paused, environment>>

\* protect() needs no entry retired: it may exit, or it ends.
ProtectHolding(t) ==
    /\ At(t, "protect")
    /\ local' = [local EXCEPT ![t].pc = "exit"]
    /\ UNCHANGED <<ledger, dispatchLock, environment>>

ProtectEnds(t) ==
    /\ At(t, "exit")
    /\ Return(t)
    /\ UNCHANGED <<ledger, environment>>

\* expire_entries reads the rows once; each is canceled under its own lock.
ListExpired(t) ==
    /\ At(t, "expire")
    /\ StoreFree
    /\ local' = [local EXCEPT ![t] =
          [@ EXCEPT !.pc = "cancel", !.after = "protect",
                    !.todo = Working \cap Buys \cap expired]]
    /\ UNCHANGED <<ledger, dispatchLock, environment>>

\* The working entries of one instrument, which protect() is leaving.
ListEntries(t) ==
    /\ At(t, "retire")
    /\ StoreFree
    /\ \E x \in Instruments :
          LET entries == {i \in Working \cap Buys : Instrument[i] = x}
          IN  local' = [local EXCEPT ![t] =
                 [@ EXCEPT !.todo = entries, !.after = "exit",
                           !.pc = IF entries = {} THEN "exit" ELSE "cancel"]]
    /\ UNCHANGED <<ledger, dispatchLock, environment>>

\* Rows are visited in the order of their rowid.
First(t, i) == i \in local[t].todo /\ row[i].earlier \cap local[t].todo = {}

\* cancel() leaves closed rows and rows already being canceled alone.
CancelSkips(t, i) ==
    /\ At(t, "cancel")
    /\ First(t, i)
    /\ MayDispatch(t)
    /\ row[i].state \in TERMINAL \cup {"CANCEL_REQUESTED"}
    /\ local' = [local EXCEPT ![t].todo = @ \ {i}]
    /\ UNCHANGED <<ledger, dispatchLock, environment>>

\* Before anything is written the authorization fails, or the order's
\* submission is unknown: cancel() raises, and the rows after it stay too.
CancelRefused(t, i) ==
    /\ At(t, "cancel")
    /\ First(t, i)
    /\ MayDispatch(t)
    /\ row[i].state \notin TERMINAL \cup {"CANCEL_REQUESTED"}
    /\ Return(t)
    /\ UNCHANGED <<ledger, environment>>

RequestCancel(t, i) ==
    /\ At(t, "cancel")
    /\ First(t, i)
    /\ MayDispatch(t)
    /\ row[i].state \notin TERMINAL \cup {"CANCEL_REQUESTED", "UNKNOWN"}
    /\ row[i].known
    /\ row' = [row EXCEPT ![i].state = "CANCEL_REQUESTED"]
    /\ dispatchLock' = t
    /\ local' = [local EXCEPT ![t] =
          [@ EXCEPT !.pc = "canceling", !.order = i, !.prior = row[i].state,
                    !.todo = local[t].todo \ {i}]]
    /\ UNCHANGED <<cash, holdings, reconciled, paused, environment>>

\* The broker call and the transaction that records it.  An order still OPEN
\* at the broker will act on a request that reached it.
Canceled(t) == [local EXCEPT ![t] = [@ EXCEPT !.pc = "cancel", !.order = None,
                                              !.prior = "NONE"]]

\* Faulty: a cancel that was not sent still counts as requested.
NotRestored(t) == row

Restored(t) == [row EXCEPT ![local[t].order].state = local[t].prior]

CancelNotSent(t) ==
    /\ At(t, "canceling")
    /\ row' = Restored(t)
    /\ \/ local' = Canceled(t) /\ dispatchLock' = LeaveDispatch(t)
       \/ Return(t)                  \* the second authorization failed
    /\ UNCHANGED <<cash, holdings, reconciled, paused, environment>>

\* Faulty: the acknowledgement is taken for the outcome.
CancelPresumed(t) ==
    /\ At(t, "canceling")
    /\ venue' = [venue EXCEPT ![local[t].order].cancelAsked = TRUE]
    /\ row' = Closed(local[t].order, "CANCELED")
    /\ local' = Canceled(t)
    /\ dispatchLock' = LeaveDispatch(t)
    /\ UNCHANGED <<cash, holdings, reconciled, paused, expired, crashes, lateFills>>

CancelAcknowledged(t) ==
    /\ At(t, "canceling")
    /\ venue' = [venue EXCEPT ![local[t].order].cancelAsked = TRUE]
    /\ local' = Canceled(t)
    /\ dispatchLock' = LeaveDispatch(t)
    /\ UNCHANGED <<ledger, expired, crashes, lateFills>>

CancelUncertain(t) ==
    /\ At(t, "canceling")
    /\ \E reached \in BOOLEAN :
          venue' = [venue EXCEPT ![local[t].order].cancelAsked = @ \/ reached]
    /\ row' = [row EXCEPT ![local[t].order].state = "UNKNOWN"]
    /\ reconciled' = FALSE
    /\ local' = Canceled(t)
    /\ dispatchLock' = LeaveDispatch(t)
    /\ UNCHANGED <<cash, holdings, paused, expired, crashes, lateFills>>

\* After the last row: the tick refreshes and protects, without the lock;
\* protect() reconciles under the lock before it exits.
CancelsDone(t) ==
    /\ At(t, "cancel")
    /\ local[t].todo = {}
    /\ local' = [local EXCEPT ![t] = [@ EXCEPT !.pc = "observe", !.held = FALSE]]
    /\ IF local[t].after = "exit"
       THEN MayDispatch(t) /\ dispatchLock' = t
       ELSE UNCHANGED dispatchLock
    /\ UNCHANGED <<ledger, environment>>

-----------------------------------------------------------------------------
(* Operator commands, process death, and the broker.                        *)

\* pause() is one transaction and waits for store.lock only.  So is a valuation that sets
\* drawdown_paused, which is no new version of the account.
Pause ==
    /\ StoreFree
    /\ ~paused
    /\ paused' = TRUE
    /\ local' \in {Bumped(local), local}
    /\ UNCHANGED <<row, cash, holdings, reconciled, dispatchLock, environment>>

\* resume() looks at reconciled once reconcile has returned, and commits some steps later
\* (record_nav is between); a check that fails is Abandon.
ResumeCommit(t) ==
    /\ At(t, "resume")
    /\ StoreFree
    /\ paused' = FALSE
    /\ Return(t)
    /\ UNCHANGED <<row, cash, holdings, reconciled, environment>>

\* The process dies and Store.__init__ opens the ledger again: what may have
\* been sent is UNKNOWN, and an unsettled order needs a reconciliation.
RestartRow(i) ==
    IF row[i].state = "SUBMITTING" THEN [row[i] EXCEPT !.state = "UNKNOWN"]
    ELSE row[i]

\* Faulty: the last reconciliation still counts after a restart.
StillReconciled == reconciled

RestartReconciled ==
    /\ reconciled
    /\ \A i \in Intents : RestartRow(i).state \notin {"UNKNOWN", "CANCEL_REQUESTED"}

Crash ==
    /\ crashes < MaxCrashes
    /\ crashes' = crashes + 1
    /\ row' = [i \in Intents |-> RestartRow(i)]
    /\ reconciled' = RestartReconciled
    /\ local' = [t \in Threads |-> Idle]
    /\ dispatchLock' = None
    /\ UNCHANGED <<cash, holdings, paused, venue, expired, lateFills>>

\* An order whose answer was lost reaches the broker after all.
Arrive(i) ==
    /\ venue[i].status = "INFLIGHT"
    /\ venue' = [venue EXCEPT ![i].status = "OPEN"]
    /\ UNCHANGED <<ledger, dispatchLock, local, expired, crashes, lateFills>>

OneMoreTraded(i) ==
    LET traded == venue[i].traded + 1
        status == IF traded = Quantity[i] THEN "FILLED" ELSE venue[i].status
    IN  [venue EXCEPT ![i] = [@ EXCEPT !.traded = traded, !.status = status]]

\* The broker fills one share more, and never sells what the account lacks.
Fill(i) ==
    /\ venue[i].status = "OPEN"
    /\ i \notin Buys => Position(Instrument[i], Traded) > 0
    /\ venue' = OneMoreTraded(i)
    /\ UNCHANGED <<ledger, dispatchLock, local, expired, crashes, lateFills>>

CancelTakesEffect(i) ==
    /\ venue[i].status = "OPEN"
    /\ venue[i].cancelAsked
    /\ venue' = [venue EXCEPT ![i].status = "CANCELED"]
    /\ UNCHANGED <<ledger, dispatchLock, local, expired, crashes, lateFills>>

SessionClose(i) ==
    /\ SessionEnds
    /\ venue[i].status = "OPEN"
    /\ venue' = [venue EXCEPT ![i].status = "EXPIRED"]
    /\ UNCHANGED <<ledger, dispatchLock, local, expired, crashes, lateFills>>

\* A fill that raced a cancel is reported after the order was shown canceled.
LateFill(i) ==
    /\ lateFills < MaxLateFills
    /\ venue[i].status = "CANCELED"
    /\ i \notin Buys => Position(Instrument[i], Traded) > 0
    /\ venue' = OneMoreTraded(i)
    /\ lateFills' = lateFills + 1
    /\ UNCHANGED <<ledger, dispatchLock, local, expired, crashes>>

\* expires_at passes while the entry is working.
Expire(i) ==
    /\ i \in (Buys \cap Working) \ expired
    /\ expired' = expired \cup {i}
    /\ UNCHANGED <<ledger, dispatchLock, local, venue, crashes, lateFills>>

-----------------------------------------------------------------------------
Begin(t) == BeginTick(t) \/ BeginProtect(t) \/ BeginResume(t)

Reconcile(t) ==
    \/ Observe(t) \/ ReadBalance(t) \/ ObserveIncomplete(t) \/ PreflightStale(t)
    \/ ReconcileBegin(t) \/ SettleState(t) \/ ReconcileEnd(t)
    \/ \E i \in Intents : ApplyFill(t, i)

Submit(t) ==
    \/ \E i \in Intents : BeginBuy(t, i) \/ BeginSell(t, i)
    \/ Abandon(t) \/ AlreadySubmitted(t) \/ Reserve(t) \/ MarkSubmitting(t)
    \/ FinalCheck(t) \/ FinalCheckFails(t)
    \/ Transmit(t) \/ TransmitRaises(t) \/ RecordResponse(t)

Retire(t) ==
    \/ InvalidateUnsubmitted(t) \/ ProtectHolding(t) \/ ProtectEnds(t)
    \/ ListExpired(t) \/ ListEntries(t) \/ CancelsDone(t)
    \/ \E i \in Intents :
          \/ RetireThesis(t, i)
          \/ CancelSkips(t, i) \/ CancelRefused(t, i) \/ RequestCancel(t, i)
    \/ CancelNotSent(t) \/ CancelAcknowledged(t) \/ CancelUncertain(t)

Broker(i) ==
    Arrive(i) \/ Fill(i) \/ CancelTakesEffect(i) \/ SessionClose(i) \/ LateFill(i)

Next ==
    \/ \E t \in Threads :
          Begin(t) \/ Reconcile(t) \/ Submit(t) \/ Retire(t) \/ ResumeCommit(t)
    \/ \E i \in Intents : Broker(i) \/ Expire(i)
    \/ Pause
    \/ Crash

Spec == Init /\ [][Next]_vars

-----------------------------------------------------------------------------
(* Fairness.  A thread that is in the middle of its work goes on, and gets a  *)
(* lock that is released again and again; the monitor loop starts a tick      *)
(* again and again (start_monitor).  The rest is what the engine waits for    *)
(* and cannot force: the broker answers some of the ticks, one of many        *)
(* cancels is authorized and accepted, and the broker acts on it.             *)

Work(t) == Reconcile(t) \/ Submit(t) \/ Retire(t) \/ ResumeCommit(t)

Complete == \A i \in Intents : Listed(i) => Claimable(i)

\* The broker answers a tick: with its whole history, unless an order nobody
\* claims keeps the account incomplete.
TickAnswered(t) ==
    /\ local[t].after = "expire"
    /\ IF Complete
       THEN /\ Observe(t)
            /\ \A i \in Intents : Listed(i) => local'[t].snapshot[i].status # "ABSENT"
       ELSE ObserveIncomplete(t)

Fairness ==
    /\ \A t \in Threads : SF_vars(Work(t))
    /\ \A t \in Monitors : /\ SF_vars(BeginTick(t))
                           /\ SF_vars(TickAnswered(t))
                           /\ SF_vars(\E i \in Intents : RequestCancel(t, i))
                           /\ SF_vars(CancelAcknowledged(t))
    /\ \A i \in Intents : WF_vars(CancelTakesEffect(i))

FairSpec == Spec /\ Fairness

-----------------------------------------------------------------------------
(* Properties.                                                              *)

States == {"NONE"} \cup WORKING \cup TERMINAL

RowType ==
    [state   : States,
     filled  : Nat,
     reserve : Nat,
     known   : BOOLEAN,
     earlier : SUBSET Intents]

VenueType ==
    [status : VenueStatus, traded : Nat, cancelAsked : BOOLEAN, posts : Nat]

SnapshotType == [Intents -> [status : VenueStatus, traded : Nat]]

LocalType ==
    [pc         : PCs,
     after      : Continuations,
     intent     : Intents \cup {None},
     fresh      : BOOLEAN,
     order      : Intents \cup {None},
     prior      : States,
     answer     : Answers \cup {"none"},
     held       : BOOLEAN,
     snapshot   : SnapshotType,
     balance    : [Intents -> Nat],
     todo       : SUBSET Intents,
     unresolved : SUBSET Intents]

\* The domain of every variable.
TypeOK ==
    /\ row \in [Intents -> RowType]
    /\ cash \in Int
    /\ holdings \in [Instruments -> Int]
    /\ reconciled \in BOOLEAN
    /\ paused \in BOOLEAN
    /\ dispatchLock \in Threads \cup {None}
    /\ local \in [Threads -> LocalType]
    /\ venue \in [Intents -> VenueType]
    /\ expired \subseteq Intents
    /\ crashes \in Nat
    /\ lateFills \in Nat

\* An order may be, or may become, live at the broker.
Live(i) == venue[i].status \in {"INFLIGHT", "OPEN"}

\* One intent is posted to the broker at most once, whatever threads, lost
\* answers and restarts do (submit's idempotency key; "never re-sent").
AtMostOnePost == \A i \in Intents : venue[i].posts <= 1

\* No order leaves while the account is unreconciled, and no entry while new
\* risk is paused: the final check and the POST are one step for the commands
\* and account writes that wait for store.lock (execution.py:127-146).
SentOnlyWhenAllowed ==
    [][\A i \in Intents : venue'[i].posts > venue[i].posts =>
          reconciled /\ (i \in Buys => ~paused)]_vars

\* While the fate of any order is unknown the account does not count as
\* reconciled, so nothing new is sent, also across restarts.
UncertaintyBlocksTrading ==
    (\E i \in Intents : row[i].state = "UNKNOWN") => ~reconciled

\* A closed row is closed at the broker too, and the ledger has booked all the
\* order traded there: a cancel's acknowledgement is not taken for its outcome.
ClosedMeansDone ==
    \A i \in Intents : row[i].state \in TERMINAL =>
        /\ ~Live(i)
        /\ lateFills = 0 => row[i].filled = venue[i].traded

\* An entry that may be live at the broker has all its unfilled shares
\* reserved, although protect() releases reservations without dispatch_lock.
LiveEntryReserved ==
    \A i \in Buys : Live(i) =>
        row[i].reserve = UnitReserve[i] * (Quantity[i] - row[i].filled)

\* Working entries never promise more cash than the strategy has.
CashCoversReservations == Reserved(Working) <= cash

\* The broker never has a live buy and a live sell of one instrument.
NoOppositeOrdersLive ==
    \A i \in Buys, j \in Intents \ Buys :
        Instrument[i] = Instrument[j] => ~(Live(i) /\ Live(j))

\* Live sells never ask for more shares than the account holds.
LiveSellsCovered ==
    \A x \in Instruments :
        SumFunctionOnSet([i \in Intents |-> Quantity[i] - venue[i].traded],
                         {i \in Of(x) \ Buys : Live(i)})
            <= Position(x, Traded)

\* What the engine promises of its orders (OrderPromise): sent once and only
\* when nothing is in doubt, booked up to what traded and never taken back,
\* also when a snapshot is applied that is older than the last one applied.
Promise == INSTANCE OrderPromise WITH
    posts    <- [i \in Intents |-> venue[i].posts],
    traded   <- Traded,
    booked   <- [i \in Intents |-> row[i].filled],
    doubtful <- {i \in Intents : row[i].state = "UNKNOWN"}

PromiseKept == Promise!Spec

\* An entry whose time is over leaves the market (README 9.2: the remainder is
\* canceled on expiry).
ExpiredEntryLeavesMarket ==
    \A i \in Buys :
        (i \in expired /\ row[i].known /\ venue[i].status = "OPEN")
            ~> venue[i].status # "OPEN"

\* An order that became UNKNOWN because a cancel's answer was lost is resolved
\* by a later reconciliation.
UnknownResolved ==
    \A i \in Intents : (row[i].state = "UNKNOWN" /\ row[i].known /\ Listed(i))
                          ~> row[i].state # "UNKNOWN"

\* An entry stored and not yet sent is either sent or invalidated (README 9.5).
UnsentEntryRetired ==
    \A i \in Buys : (row[i].state = "VALIDATED") ~> (row[i].state # "VALIDATED")

\* An invalidated entry is not taken up again (README 9.4: no transition leaves
\* a closed state; 9.5: protection invalidates entries not yet submitted).
InvalidatedStaysClosed ==
    [][\A i \in Intents : row[i].state = "INVALIDATED"
                              => row'[i].state = "INVALIDATED"]_vars

=============================================================================

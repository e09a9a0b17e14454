# A TLA+ project for danta-bot

danta-bot trades Korean stocks for one account: a trading engine
(`src/containers/trading-engine`) and a Telegram gateway
(`src/containers/telegram-gateway`). This directory models the parts of both that
keep state which threads, processes or messages share, checks the models with TLC
on small instances, and proves with TLAPS, for every instance, the safety properties
of each: OrderExecution and its refinement of OrderPromise, AccountLedger, NavRisk,
ServiceQueue with TelegramGateway, SnapshotFlight, QuoteStream, DisclosureCollection,
AccountOwnership, BrokerTransport, ReviewWorkflow and PaperLedger. Paths below without
a prefix are under `src/containers/trading-engine/src/danta/`.

## 1. Inventory

| Part | State | Operations | What is hard | Module |
|---|---|---|---|---|
| Executor, `execution.py` | `dispatch_lock`; everything else is in the ledger | submit, cancel, expire_entries, invalidate_unsubmitted_entries, reconcile | locks released between steps, lost answers, death between two transactions | OrderExecution |
| Ledger, `store.py` | SQLite: intents, holdings, meta, journal, requests, outbox | cumulative fills, cash reconciliation, evidence, restart | older observations, corrections, late fees, crash recovery | AccountLedger, ServiceQueue |
| Application, `application.py` | theses, bundle, review lock, NAV | review, protect, monitor tick, pause, resume, finalize | mixes locked and unlocked parts, runs beside reviews | OrderExecution, NavRisk, ReviewWorkflow |
| Broker port and runtime, `runtime.py`, `adapters/kis.py`, `adapters/dart.py` | revisions, snapshot flight, request queue, token file, disclosure cache | submit, cancel, snapshot, refresh | shared readings, stale accounts, cooldown, pages that fail | BrokerTransport, SnapshotFlight, DisclosureCollection |
| Service, `service.py`, `adapters/telegram.py`, `adapters/scheduler.py` | requests, receipts, outbox, chat sessions | receive_http, queue_tick, run_once (four workers), outbox_once, recover | duplicates, claims, cancels, a trading request runs at most once, delivery twice | ServiceQueue |
| Gateway, `telegram_gateway.py` | poll offset, attachment cache, frozen requests | poll_route_once, handle_update, cleanup | redelivered updates, retries with another body, files lost or sent twice | TelegramGateway |
| Operator, `operator.py`, `cli.py` | lease, socket, writer lock | connect_or_claim, serve, close_runtime | two writers, commands met by a shutdown | AccountOwnership |
| Quote stream, `adapters/kis_stream.py` | targets, registrations, cache | replace, quote, receive loop | stale or reordered quotes, reconnects, the provider's limit | QuoteStream |
| NAV and risk, `accounting.py`, `risk.py` | points, flows, drawdown pause | record_nav, finalize_nav, resume | flows are not returns; late or missing valuations | NavRisk |
| Decision, `decision.py`, `adapters/codex_cli.py` | quota circuit | a review's attempts and verdicts | evidence that changes while the model thinks | ReviewWorkflow |
| Evaluation, `evaluation.py`, `adapters/paper.py` | the paper ledger of an arm | a replay's events | fees, delays, splits, halts, partial fills | PaperLedger |
| Sizing, `portfolio.py`, `strategy.py`, `market.py` | none | size_entry, evaluate_exit | arithmetic | only what makes a size stale |
| Deployment, configuration, reporting, scripts | files | validation, rendering | input and output | not modelled |

The threads of one process meet in the executor and in the ledger. The monitor
calls reconcile, expire_entries and protect every few seconds; four workers run
requests, and a review submits entries; the control worker pauses and resumes;
all of them observe the account, often through one shared reading. They share
`Executor.dispatch_lock` (order changes and the application of snapshots),
`Store.lock` (a transaction, and the span from the last check of an order to the
broker's answer), `collect_lock` (evidence) and `review_lock`. The gateway is a
process of its own: it and the engine exchange HTTP requests that either side may
lose, repeat or answer late. Outside, the broker fills, cancels, expires and
reports in its own time.

What makes each part correct:

- execution: an order is sent once, only when allowed, and never forgotten; exits
  and entries stay within shares and cash; everything started is finished;
- ledger: what is booked is the newest observation, costs are complete when they
  are said to be, unexplained cash is never counted as profit nor classified twice;
- service and gateway: a trading request runs at most once, every request is
  answered, a retry repeats the first body, a file reaches one request, rows are
  delivered in order and at least once;
- operator: one writer, and a command's caller is told the truth;
- requests and readings: what is said of an order is what happened to it; no
  reading is older than the question; no quote survives its connection;
- evidence: no disclosure is lost; a judgement is used only with the evidence it saw;
- NAV: a loss pauses new risk whatever flows and missing points hide it;
- paper broker: what is open can be filled in full, and the books balance.

`PROJECT.json` lists every component and every hazard with its line.

## 2. Plan

The order of work, the most important behaviour first; all of it is in this
directory.

1. `OrderExecution`, the abstract `OrderPromise`, the refinement, and their proofs.
2. `ServiceQueue` (receipts, requests, workers, outbox, recovery), then
   `TelegramGateway`, which extends it: the composition is checked as one system.
3. `AccountLedger` (fills, costs, cash, evidence) and `NavRisk` (what valuations
   allow).
4. `BrokerTransport`, `SnapshotFlight`, `QuoteStream`, `DisclosureCollection`.
5. `AccountOwnership`, `ReviewWorkflow`, `PaperLedger`.
6. Proofs of `AccountOwnership`, `BrokerTransport`, `ReviewWorkflow`, of the Telegram
   path (`ServiceQueue` and `TelegramGateway` together), of `SnapshotFlight` and of
   `DisclosureCollection`.
7. Proofs about amounts: reservations, holdings and opposite orders of
   `OrderExecution`, the accounts of `AccountLedger`, the books of `PaperLedger`; and
   `QuoteStream`.
8. Proof of the drawdown pause of `NavRisk`: fractions and the return walk.

What would come next: the arithmetic of `portfolio.py` and `strategy.py` against
reference definitions; an abstract queue that `ServiceQueue` implements.

## 3. The modules

Each module EXTENDS only library modules, except where it composes two parts
(`TelegramGateway` extends `ServiceQueue`) and in the MC modules. Every comment on a
variable names the field or table it stands for, and `PROJECT.json` maps each
definition to its lines.

### OrderExecution

Models `execution.py`, the part of `store.py` it writes, the callers in
`application.py` and what `runtime.py`'s broker port lets through. One action is
one transaction, one broker call, or one step between two lock operations, so
every interleaving the locks allow is explored.

| Variable | In the code |
|---|---|
| `row` | `intents`: state, cumulative_quantity (`filled`), reserve_cash, broker_id present (`known`), rows with a smaller rowid (`earlier`) |
| `cash`, `holdings`, `reconciled`, `paused` | `meta` and `holdings` |
| `dispatchLock` | the owner of `Executor.dispatch_lock` (an RLock) |
| `local[t]` | the program counter and locals of thread `t`: its intent, snapshot, list of rows, prior state of a cancel, whether its intent's version is still current (`fresh`) |
| `venue` | the broker's book: status, traded, whether a cancel reached it, number of POSTs |
| `expired`, `crashes`, `lateFills` | expires_at passed; bounds of the environment |

| Actions | In the code |
|---|---|
| BeginBuy, AlreadySubmitted, Reserve, MarkSubmitting, FinalCheck, FinalCheckFails, Transmit, TransmitRaises, RecordResponse | `submit` and `_unknown` |
| Observe, ReadBalance, ObserveIncomplete, PreflightStale, ReconcileBegin, ApplyFill, SettleState, ReconcileEnd | `_snapshot`, `_account`, `_preflight`, `reconcile`, `apply_cumulative_fill` |
| BeginTick, ListExpired | the monitor loop, `expire_entries` |
| BeginProtect, InvalidateUnsubmitted, ListEntries, RetireThesis, ProtectHolding, BeginSell, ProtectEnds | `protect`, `_protect_pending_entries` |
| CancelSkips, CancelRefused, RequestCancel, CancelNotSent, CancelAcknowledged, CancelUncertain, CancelsDone | `cancel` and its callers |
| Pause, BeginResume, ResumeCommit | `pause`, `resume` |
| Crash | process death and `Store.__init__` |
| Arrive, Fill, CancelTakesEffect, SessionClose, LateFill | the broker, external |

Abstractions, and why they keep the behaviour:

- `account_version` is only compared with the version an intent was built from;
  `fresh` is the result of that comparison, and `bump_version` clears it.
- `paused` stands for the three new-risk blocks that `_validate_state` reads
  together (paused, drawdown_paused, nav_risk_unverified). The operator's pause bumps the
  account's version, a valuation's does not, so Pause may do either. That a later valuation
  clears nav_risk_unverified without a resume (application.py:568-576) is in `NavRisk`.
- `ownership_complete` is part of `reconciled`, which is written with it. The path on which
  reading the account's own cash fails (execution.py:299-306) is not modelled: it ends,
  like an incomplete observation, with reconciled cleared.
- `resume` checks reconciled some steps before its commit, with a valuation in between
  (application.py:1063-1075), so ResumeCommit has no such guard.
- ApplyFill claims a broker id in the same step as the fill; the code has a transaction
  for it (execution.py:267-269). For an account the strategy owns as a whole, a fill lowers the reservation
  and leaves the cash to the reconciliation (store.py:520-524); here it moves both. `AccountLedger` has the cash.
- Checks of market data, policy and approval may fail at any of the places the
  code makes them (Abandon, FinalCheckFails, CancelRefused, CancelNotSent).
- Cash is moved by a price per share, costs included, and an entry reserves at
  least that (`CashAssumption`, from size_entry's price cap). Fees, corrections
  and the whole-account cash are in `AccountLedger`.
- A revision number is given to a snapshot item when its content changes, so
  without corrections "older or the same revision" and "not more traded" leave
  out the same fills. `Older` is the second.
- One snapshot is one read of the order list and a later read of the balance.
  Readers that share one read are in `SnapshotFlight`.
- `reconcile` settles its rows in any order, which includes the code's order;
  cancels follow rowid, since a cancel that raises keeps the later ones waiting.
- An exit of `min(planned, held)` shares is a choice among the exit intents that
  fit; one revision of a plan is one intent. The bundle refresh and the check
  of expires_at by the clock are `Expire`, at any time.
- PLANNED is never written by the code and is left out. The ledger starts
  unreconciled, as the broker modes do.

### OrderPromise

What the engine promises of orders, without rows, locks or threads: posted once
and only when no order is in doubt, booked up to what traded, bookings never
taken back. `OrderExecution!PromiseKept` is the refinement: posts and traded from
`venue`, booked from `row`, doubtful the UNKNOWN rows.

### ServiceQueue

`service.py`, `adapters/telegram.py` and the tables they write: `receipt`
(telegram_requests), `request`/`queue`/`result` (requests), `outbox`, the chat
session with its `history` and `cancelled` marks, the four workers and the outbox
thread. A worker holds
what it has read (`seen`), its job, the outcome and whether it was cancelled.
`expired` are requests whose deadline has passed; `wire`, `ingress` and
`reply` are the POSTs between gateway and engine.

| Actions | In the code |
|---|---|
| ReceiveUpdate, RejectUpdate, AcceptUpdate, MarkQueued | `receive_http` and what it stores, between its commits |
| Schedule, Requeue, DeadlinePasses | `queue_tick`, the clock |
| Work(w): ReadCandidates, Claim, Dispatch, EndReview, RegisterChat, AnswerChat, SaveChat, RenewSession, Finish | `run_once` and the handlers it calls |
| Deliver: TakeRow, SendRow, ConcludeRow | `outbox_once` |
| Restart, with RecoveredRequest, RecoveredOutbox and the interrupted notices, in any order (the query has none) | process death, `_recover` |

Whether a job is due is a choice, as is what a review decides; a chat turn and a
report are steps that may fail. `begun` counts the requests that may trade: reviews, and
time-limit exits, which reconcile and protect (service.py:631-633). A job may raise before
it does anything (authorization, configuration) and ends as FAILED. A new session cancels
the chat that runs in one transaction and renews the session in another.

Not modelled: texts, the HTTP server, the clock arithmetic of the scheduler; the second row,
an HTML document, queued for a text above 3500 characters (service.py:725-728, once for each
row, by its key); a row whose destination cannot be resolved,
which stays PENDING and keeps the rows after it waiting (service.py:704, 735), so EveryRowSettles
is about rows with a destination; INTERRUPTED_RECEIPT (service.py:370), which needs a request without
a stored deadline, and the deadline is stored with the request.

### TelegramGateway

`telegram_gateway.py`, composed with `ServiceQueue`: users write updates (`sent`),
Telegram keeps those not confirmed (`kept`), the gateway polls (`offset`, `batch`),
stores attachments (`file`), freezes a request's first body (`frozen`), posts it,
and consumes the attachments of an accepted request. NoAnswer, LosePost and
GatewayRestart are the faults: an answer or a post is lost, the process dies and
polls again. The offset advances before an update is handled
(telegram_gateway.py:2080), so an update whose handling raises is lost by design of
the code; the model keeps that, and no property says otherwise. HandlingFails: an error the
gateway tells the sender of (telegram_gateway.py:2147-2160, 2213-2222, 2340-2348) leaves the rest
of the batch to be handled, any other has it fetched again. Not modelled: request receipts
are removed after 86400 seconds (telegram_gateway.py:1053-1073), by when Telegram does not keep
the update any more. The engine's refusal of a
second body (BodyConflict) is modelled in ReceiveUpdate; with this gateway it never
happens, which is what SameBodyAgain says.

### AccountLedger

`store.py`'s cumulative fills and cash, against the broker's book (`exec`,
`transfers`, `reported`, `busts`). A snapshot is two reads, orders then balance
(ReadOrders, ReadBalance); complete snapshots wait in `views` and are reconciled in
any order (BeginReconcile, BookFill, CheckOwnership, ReconcileCash). `whole` tells
a strategy that owns the account from one that is attributed its trades; their
costs come from different evidence. WriteEvidence and ResolveEvidence are the
operator's file and its application. LedgerRestart is a process death between any
two transactions.

Abstractions: a transfer is explained by one flow, the code accepts several that add up
(store.py:403-415); an instrument has one thesis, so the test of an older correction
(store.py:510, by instrument and thesis) is by instrument; a correction by the broker (Bust) comes
with its evidence, so a fill below what is booked that has none yet (store.py:459) does not occur. A
view is reconciled once: a shared or cached snapshot that the code reconciles again acts
like another reading of its age, and readings of any age come in any order.

### NavRisk

`accounting.py`, `DrawdownCircuit`, and `record_nav`, `finalize_nav`, `resume`:
`points`, `navFlows` and the return walk (Walk) that gives the flow-adjusted index,
from moment to moment what `performance` does over its sorted events, its `high`, and the pauses. `truth` and `best` record the index the market really
gave, which no code reads. RecordNow values the account at the moment it records; the
code reads the bundle's time and the portfolio some statements before the transaction
(application.py:531-540), so its point may be older by as much. A tick of the monitor is three steps (reconcile, record,
end), a resume three, a review's entry four (size, plan, preflight, send).

### BrokerTransport

`PriorityTransport` and `KISClient`: a call waits with its priority, takes a turn,
uses or renews the shared token under the file's lock, is sent, answered, paged,
repeated (reads only) or refused. `posted` counts what reached the network.
The adaptive interval is `rested`: the pause between requests has passed. `issued` counts
renewals that are stored: a token that is issued and then refused for its expiry, or cannot be
written (kis.py:192-194), is issued again by the next call.

### SnapshotFlight

`snapshot`, `_invalidate_snapshot` and the generation that keeps a reader from
joining a flight that began before an order; `kept` and `aged` are the cache. Each
reader's steps are those between the locks of `runtime.py`.

### QuoteStream

`kis_stream.py`: targets and the registrations they ask for one after another
(NextChange), their acknowledgements, trades and books, lost connections, and quotes
with the age limit. Times ahead of the engine's clock are left out.

### DisclosureCollection

`_events` with the DART adapter and `RuntimeState`: pages (ReadPage), rows,
documents (which may fail, and then stay pending), the save of cursor, pending and
coverage in one step, scoped refreshes, restarts and record upgrades. What the caller does
after the save may raise (bars, quotes, a cached document, a flawed refresh of a
decision); then FailPublish ends the collection and the bundle stays the last one. `scope`
is the issuers of a collection: for a decision its own, otherwise those that have an instrument in
the universe, which is rebuilt daily and may change.

Three variables remember what no code keeps. `covered` are the receipts that were published
when a collection began whose listing was complete, and `vouched` those of them that were
promised before the last bundle was published: a bundle does not know what a later
collection found. `outside` are the receipts the cursor passed while their issuer was not in scope
(runtime.py:1096-1098); they are no part of what the cursor promises. The filter on
titles (runtime.py:1102-1104) is left out: `Receipts` are those whose title counts.

### AccountOwnership

`operator.py`, `WriterLock`, `serve` and `close_runtime`: two locks of the kernel,
which a process that dies gives back, the socket's file, which it leaves behind, and
connections that are dialed, accepted, handled and answered.

### ReviewWorkflow

One review from its refresh to the sending of an entry, with `evidence` as the
version of the official sources, and the three places it may be held: what was
collected (`newest`), `application.bundle`, and what the monitor was given and has
not assigned yet. The account has a version (fills, exits, pauses and the review's own
sending move it) and the facts an entry is checked against. `application.bundle` has no lock; the model lets the monitor put
an older one back. AskModel and Attempt are the model's call with its retries,
repairs and quota.

### PaperLedger

`PaperLedger` and the events of one arm of a replay (`_run`): quotes fill open
orders, timers acknowledge, expire and cancel, reviews enter and exit theses,
splits and halts change holdings. Reviews, protection and drawdown decisions are
choices. `ConcentrationMonitor.observe` returns no reductions, so there are none.
Events are observed at their own time, splits are 2:1, and one commission schedule
serves both sides. `PaperAssumption`: prices are natural numbers that the commission and
the tax divide without a rest (the code's Decimals are exact), and a sale pays its own
costs; a minimum commission above a sale's gross would take cash below the reservations.

### The MC modules

- `MCOrderExecution`: one stock, a monitor `t1` and a reviewer or second monitor `t2`.
- `MCTelegram`: ten scenarios, each a set of updates, jobs, possible deaths and
  whether the outbox thread runs.
- `MCLedger`: the ledger in six scenarios, the valuations, and the entries they
  allow. A behaviour is one of the three parts.
- `MCRuntime`: the remaining parts. They share no state with each other in these
  models, so a behaviour moves one of them and the properties of all are checked.

## 4. Runs

| Run | Instance | Shows |
|---|---|---|
| execution_safety | one entry and one exit of 2 shares, two shares held, a process death, a late fill, session close | TypeOK, UncertaintyBlocksTrading, ClosedMeansDone, NoOppositeOrdersLive, SentOnlyWhenAllowed, PromiseKept |
| execution_reviews | one entry of 2 shares submitted by two threads, a process death, a late fill, session close | AtMostOnePost, LiveEntryReserved |
| execution_exits | two exits of the same share by two monitors, which also hold snapshots of different age, a process death | LiveSellsCovered |
| execution_entries | entries of 2 and 1 shares and cash for one of them | CashCoversReservations |
| execution_progress | one entry of 2 shares, session close, fairness | ExpiredEntryLeavesMarket, UnknownResolved, UnsentEntryRetired |
| telegram_path | ten scenarios of up to two updates and a job, one death of each process | TradesAtMostOnce, BusyNeverRuns, AcceptedIsQueued, SameBodyAgain, AttachmentNotLost, CancelReachesChat, ArrivesInOrder, CancelledStaysDone; EveryRequestAnswered, EveryRowSettles, ReportSettles |
| ledger_and_nav | two orders, up to three readings, a correction, a transfer, two entries of evidence, a death; nine moments of a market that moves by 1 from 10, with deposits of 4 and withdrawals of 3 | CashExplained, CostsSettled, ExplainedOnce, NewestBookingWins, NewestCashWins, LossPauses |
| runtime_parts | an entry or an exit with a bulk read, a cancel with an exit; two readers and an order; two connections, three tickers, two slots; two receipts on two days, one and a new parser, one issuer or both in the universe; two runtimes and two commands with two directories; two reviews, or one and three changes of the account; four replays | OutcomeHonest, CooldownRespected, SnapshotCurrent, RegistrationsHeld, QuoteOfThisSession, NoDisclosureLost, OneOwner, JudgementCurrent, OpenOrdersCovered, BooksBalance |
| invalidated_entry | one entry, two reviewers | violation of InvalidatedStaysClosed |
| crash_in_cancel | one entry, a process death, fairness | violation of ExpiredEntryLeavesMarket |
| crash_before_send | one entry, a process death, fairness | violation of UnsentEntryRetired |
| unexplained_cash | one entry, one transfer | violation of UnexplainedBlocksBuys |

Bounds, and why they are enough:

- *Execution*: two threads, because every hazard found here is between one thread
  that holds a lock and one that does not; two shares, so that partial fills happen
  and a fill can arrive between any two steps; two orders, so that opposite,
  competing and unresolved orders meet; one death and, where there are
  entries and the session may close, one late fill, since each
  leaves the state another could only repeat. An exit is canceled only by the
  session's end, so execution_exits, which has none, has no late fill either; theorem
  SellsCovered has both. execution_safety runs with a broker
  that does not echo intent ids (no port of the code supplies
  verified_client_intent_id), so an order whose answer was lost can never be
  claimed; execution_entries uses one that does, which reaches the fills of such
  orders.
- *telegram_path*: each scenario holds the updates of one conflict (a file and a
  caption, a chat and its cancel, a chat and a new session, two reviews and a pause,
  a report and a review, a job and its deadline), since requests that do not meet in
  a lock, a session or a cancel do not influence each other. One death reaches every
  state `_recover` distinguishes. A review that raises does so after it has begun.
- *ledger_and_nav*: two snapshots in flight are enough for each order of reading and
  reconciling; a third reading observes what the disorder left. A price may differ
  from another by 1 and a fee is 1, so that amounts tell trades, fees and transfers
  apart. A death goes with a withdrawal and evidence with a deposit where an order
  trades too; without one both kinds of transfer go with both. Nine moments hold a rise, a fall of ten percent, a transfer and a close.
- *runtime_parts*: two of each actor that competes, one fault of each kind; quotes
  are explored for one ticker in time, registrations for three without time.
  One refusal for the rate meets requests in every state of the queue. The account of the
  first review changes three times at most (MaxVersion): a fill or an exit, a pause and the
  entry's own sending fit into one behaviour, in any order; a second review begins after one change
  at most. Disclosures are two with all issuers in the universe, or one whose issuer comes and goes.
  The replays are four, so that partial fills, consecutive theses, corporate
  actions and a second instrument each get the depth they need.

The runs of MCTelegram, MCLedger and MCRuntime say CHECK_DEADLOCK FALSE: their
systems stop where a bound is used up or everything asked for is done.

The four violations are documented disagreements between code and text; each is
a finding in `PROJECT.json` with the lines it quotes:

- *invalidated_entry*: protect() invalidates an unsent entry without
  `dispatch_lock`, and submit()'s next transaction, which names only the id, takes
  the closed row back to SUBMITTING. The final check still refuses to send it. A
  death exactly there leaves UNKNOWN with no reservation.
- *crash_in_cancel*: a death between storing CANCEL_REQUESTED and asking the
  broker. Nothing asks again, because cancel() leaves such rows alone. The order
  ends with the broker's session.
- *crash_before_send*: a death between VALIDATED and SUBMITTING. The row has no
  broker id, so every reconciliation is refused.
- *unexplained_cash*: a reconciliation records a cash difference
  (store.py:330-336) some steps before the valuation that turns it into
  `nav_risk_unverified` (application.py:563-568). Sizing (application.py:348) and
  the final check (execution.py:80) read only that flag, so an entry that is sized,
  planned and sent in between goes out. Entries planned earlier are stale, because
  the account's version moves with the cash.

Behaviours met while modelling that have no run:

- one order that reconciliation cannot resolve makes each tick raise before
  expire_entries (application.py:665), so that another stock's expired entry is not
  canceled either;
- a resume that has checked the pauses clears, at its commit, a drawdown pause that a
  valuation set in between, without the approval docs/runbook.md:144 asks for
  (application.py:1056-1075);
- finalize_nav records the close's point with the cash of the moment it runs;
- a record that is read again drops the issuer's documents and fetches them again; a
  death between a document's save and the last save of a collection loses the retry
  of a correction whose original was not found;
- an issuer that enters the universe does not get back the receipts the cursor passed before,
  and its coverage is called complete after the next complete listing
  (runtime.py:1096-1098); they are in `outside`;
- the model's quota circuit is read once per review, not before each attempt.

### Fairness

`FairSpec` assumes that a thread in the middle of its work goes on and gets a
lock that is released again and again (strong fairness of Work), that the monitor
loop starts ticks for ever (`start_monitor` catches every exception), and of the
broker what the engine waits for and cannot force: some ticks are answered with
the whole history, one of many cancel requests is authorized and acknowledged,
and an open order acts on a cancel that reached it (or filled or expired). No
fairness is assumed of fills, arrivals, process deaths, operators or reviews.
execution_progress has no process death: with one, two of its properties fail, as
the violation runs show.

`TelegramFairness` assumes that worker threads and the outbox thread loop for ever
(their loops catch exceptions), that a POST being handled ends, that deadlines pass,
that an interrupted report is requeued by the next tick, and, as the only strong
assumption, that Telegram acknowledges a row that is sent again and again. Users,
the network and process deaths owe nothing. `MCFairness` is the same for the steps a
scenario allows. EveryRequestAnswered, EveryRowSettles and ReportSettles hold under
it with a death of the engine. The other modules state no fairness: what their code
promises is safety.

## 5. Proofs

`OrderExecutionProofs` proves, for any threads, intents, instruments and bounds that
satisfy the assumptions of `OrderExecution`:

- `TypeCorrect`: Spec => []TypeOK
- `PostedOnce`: Spec => []AtMostOnePost
- `UncertaintyBlocks`: Spec => []UncertaintyBlocksTrading
- `OnlySentWhenAllowed`: Spec => SentOnlyWhenAllowed

None of these is inductive by itself. `IInv` adds

- *Bounds*: an order books at most what traded, trades at most its quantity, and
  a snapshot held by a thread shows no more than the broker has now;
- *Once*: an order is posted at most once, it is ABSENT at the broker while it was
  never posted, and an order without a row was never posted;
- *ThreadSafe*, for each thread: where it holds `dispatchLock` (Locked); that the
  row it works on exists, and that a thread between Reserve and Transmit has not
  posted its intent yet (Threaded); that a reconciliation under way still has
  every UNKNOWN row among those it has to settle or has found unresolved (Doubt);
  and that after FinalCheck the account is still reconciled and new risk not
  paused (Checked), because every writer of those two waits for `StoreFree` or
  for `dispatchLock`.

`Invariance` is Spec => []IInv: the initial states satisfy it, and there is one
lemma for each action, with a step for each conjunct the action can disturb. TLC
checked IInv on the safety and exit instances before it was proved.

`Implements` is Spec => PromiseKept: every step maps to Send, Trade, Book, Doubt or
Resolve, or to a stutter; IInv supplies the guards (posts[i] = 0 and nothing doubtful at
a Send, booked below traded at a Book).

What happens to orders and to money needs two more layers, each inductive given the one
before. `OrdersAreHeld` is Spec => []OrdersHeld:

- *RowTrue*: a row tells the truth of its order. What may be live at the broker has a
  working row and, if it is an entry, all its unfilled shares reserved; a closed row is
  closed there and has booked what traded, a late fill apart;
- *Seen*: a snapshot shows an order as over only when it is;
- *Held*: what a thread knows at its place in the code. Between Reserve and the POST
  its row is what it left, although protect() may release it without
  `dispatch_lock`: either the intent is still fresh and its reservation whole, or the
  final check refuses it.

From it follow `ClosedIsDone` (ClosedMeansDone), `EntryReserved` (LiveEntryReserved) and
`NoOpposite` (NoOppositeOrdersLive). `FundsAreHeld` is Spec => []FundsHeld: *RowFunds*
says which rows reserve and how much, *CashBacked* that the reservations of all
intents are within the cash, *HoldingBacked* that the holdings are the initial ones with
all that is booked, and that exits at work ask for no more. Every step either makes a
reservation, books a fill, or moves no funds, and the last kind can only release; so a
lemma for each of the three is enough. Two theorems rest on it:

- `SellsCovered`: Spec => []LiveSellsCovered, late fills included;
- `CashCovered`: Spec => [](lateFills = 0 => CashCoversReservations). The condition
  is the code's: a canceled entry releases its reservation, and when one of its shares turns
  out to have traded (a late fill), it is paid from cash another entry may have reserved by
  then. execution_entries, the run of CashCoversReservations, has no late fill.

`LedgerProofs` proves of `AccountLedger`, for any orders, prices, fees, transfers and
any number of readings, corrections and deaths, `LedgerExplainsCash` (CashExplained),
`CostsAreSettled` (CostsSettled), `AdjustedOnce` (ExplainedOnce), `NewestBooking`
(NewestBookingWins) and `NewestCash` (NewestCashWins). The invariant has five parts:

- *Types*, what the records hold. It does not say that cash is not negative, which
  `LedgerTypeOK` describes but which a fee above the cash would break;
- *Times*: a reading not taken yet has a time of its own, so "not newer" is "older";
- *Costs*: for an attributed account every order booked and not unsettled carries its
  whole fee, because an observation states the fee or says that it is unknown;
- *Explained*: pending adjustments are no newer than the balance taken, an identifier
  has one entry, and what is applied is in the flows;
- *Balances*: an attributed account has its capital less what it booked; a whole one
  differs from it by what really moved, and the residue that is still to explain is
  exactly that difference with the costs the broker reported.

Of `NavRisk` it proves `LossesPause`, NavSpec => LossPauses, for any moves of the market,
any amounts, any number of valuations, closes and threads' steps, and one transfer by the
owner, as the model has. Three arguments meet in it:

- indices are fractions compared by cross products; a loss of ten percent against a high
  is one against every higher one (`AtMostTrans`, `FellFurther`);
- the walk is a recursive function over moments, shown to exist by a least counterexample
  (`CourseExists`). On a course of linked valuations every index is a fraction that is at
  most the top (`WalkGoes`), and when the last point is a valuation of now, its index is the
  one the market really gave (`WalkIndex`, `IndexTrue`);
- *NavInv*: the transfer is not seen, waiting for evidence or explained, and `truth` is
  anchored at it (*Transferred*); valuations are of different times and begin with the
  adoption (*Valued*); `best` is at most `high` (*Marked*). A late close can only raise the
  high. TLC checked it on the valuations of ledger_and_nav.

So what a tick records as verified is compared with a high no less than the best verified
one, and the pause follows.

`FiniteSums` has the lemmas about sums over finite sets that the proofs about amounts need: a sum
without one member, of two functions that differ at one place, over two disjoint sets,
over an image, and that it is a number, monotone and additive. The prover has no
induction over data, so each is proved by a minimal counterexample: among the
subsets where the equation fails, one of smallest cardinality, from which a
member is taken.

`AccountOwnershipProofs` proves `SingleOwner`, Spec => []OneOwner, for any sets of
runtimes and commands and any directories. `IInv` is OwnershipTypeOK with *Ownership*
(a process has the locks of the place it is at), *Handlers* (a
runtime that has accepted a command and not answered it is open: the drain waits for
it) and *Executions* (a command that may still be handled has not been executed).

`BrokerProofs` proves of `BrokerTransport`, for any calls of any kinds:

- `HonestOutcomes`: []OutcomeHonest, by *Honest*: an order's POST is counted at one
  step, and every refusal either comes before it or is told apart after it;
- `NoneWhileCooling`: CooldownRespected, by *InLine*: one request is out at a time,
  so no other can be refused between a turn and its sending;
- `OneRenewal`: []RenewedOnce, by *Renewals*: the file's lock is held for the whole
  renewal, and a call that gets it reads the file again. No run lists it; it was checked by TLC before it was proved.

Of `SnapshotFlight` it proves `CurrentSnapshot`, FlightSpec => []SnapshotCurrent, for any
readers, orders and flights. The account's version stands for what is booked and the
generation for the orders begun: a reading shows what was booked when its version was
read (*Shows*), flights of the present generation and the snapshot kept know every order
(*Flights*, *Kept*), and what a reader asked for is bounded by the flight it joined
(*Asking*). Comparing the two numbers is then enough to take over another's reading.

Of `QuoteStream` it proves, for any tickers and slots, `SlotsKept`, StreamSpec =>
[]RegistrationsHeld, by *Registrations* (the wanted tickers fit the slots, and whatever is
no longer wanted is released before anything is added), and `SessionQuotes`, StreamSpec =>
QuoteOfThisSession, by *Session*: what the cache holds of a wanted ticker was received on
this connection and after the ticker was wanted, because a lost connection and
`replace` empty it.

`EvidenceProofs` proves of `ReviewWorkflow` `CurrentJudgement`, ReviewSpec =>
JudgementCurrent, for any number of evidence changes, account changes, reviews and
attempts. *Collecting* says what a collection and the newest bundle may hold; *Judging*
what a review has frozen, at each of its steps: what is validated is a fresh collection
that equals the frozen evidence, not whatever `application.bundle` has become.

Of `DisclosureCollection` it proves `NothingLost`, DisclosureSpec => []NoDisclosureLost,
for any receipts, days, issuers, number of sessions and parsers. *Listing*: a listing
holds nothing but receipts of its range, so one with as many as the total has them all.
*Running*: until the cursor moves, what that listing held is cached, to be tried again,
or among the rows to read. *Durable* and *Served*: coverage in memory and on disk names only
issuers whose recent receipts are cached; after the listing, issuers are only taken out of
it. The bundle is published with it or stays behind, so of the bundle the same holds for
what was promised before it was published, and for no more.

`PaperProofs` proves of `PaperLedger`, for any instruments, prices, fees, sizes of quotes
and number of orders, `OrdersCovered` (OpenOrdersCovered) and `BooksBalanced`
(BooksBalance). The invariant is one of the book, which every event keeps:

- *Alone*: an instrument has one working order. An exit is submitted only when no
  entry asked to end still works, an entry only when nothing is held;
- *Sound*, *Exits*, *Enters*: what an order says of itself, and that an exit asks for no
  more than is held, of the thesis that holds it; an entry's thesis is fresh or holds it;
- *Owned*, *Quits*: what is held is what one thesis bought and has not sold; a thesis that
  holds nothing has sold all it bought;
- *Paid*, *Affordable*: the cash is the capital with the gains of the theses, and covers
  what the working entries reserve.

Cancels, acknowledgements, expiries and flags only ease a book, so one lemma (`EasedKeeps`)
does for all of them. A fill at or below the limit, with what it adds to the commission of
its order, costs no more than the reservation falls by (`EntryPays`, over the minimum fee
and the division); a sale brings no less than its costs (`SalePays`, by `PaperAssumption`).
A quote passes the orders as a recursive function; that the function exists, and that no
order on its way aborts, are again proved by a least counterexample (`PassageExists`,
`FilledKeeps`). TLC checked the invariant on the replays of runtime_parts before it was
proved.

`TelegramGatewayProofs` proves, over the composition `TelegramSpec`, for any updates,
files, jobs, commands and deaths of both processes: `TradesOnce`, `BusyHolds`,
`CancelHolds`, `AcceptedHolds`, `SameBody`, `AttachmentHolds` and `CancelledHolds`
(TradesAtMostOnce, BusyNeverRuns, CancelReachesChat, AcceptedIsQueued, SameBodyAgain,
AttachmentNotLost, CancelledStaysDone). The inductive invariant has two halves.

- *EInv* is the engine's, and holds whatever a client posts: its types; *Claims*, that
  a worker's job is RUNNING and of its own class; *Begins*, that a request which may trade
  and waits has not begun and that only a finalization is put back; *Ingested*, that a POST
  told accepted is stored. The classes of requests the four workers take are disjoint,
  so two workers never have the same one; the conditional update of a claim keeps a
  cancelled candidate from running although a worker read it before.
- *GInv* is the gateway's: the updates Telegram keeps are updates (*Handled*), and every
  POST and receipt of an update carries the body frozen for it (*Bodies*). A body is
  frozen before its first POST, so a retry cannot conflict; an answer "accepted" is
  believed only for what is stored.

The engine's steps leave the gateway's variables alone and write what GInv reads of
the engine only in one direction (*Effects*), so each half is preserved by the steps of
the other through one lemma. `ArriveOrdered`, []ArrivesInOrder, has an invariant of its own
over the outbox: *InHand*, that the row the sender has in hand is the only one SENDING,
that the rows before it are settled, and that a row marked delivered has arrived.

All rest only on the named assumptions of the modules about their constants, which
TLC evaluates in every run. Those with sums or cardinalities assume that the intents,
the tickers or the orders are finitely many, as rows and requests of a program are.

Only model-checked: the liveness properties (ExpiredEntryLeavesMarket, UnknownResolved,
UnsentEntryRetired, EveryRequestAnswered, EveryRowSettles, ReportSettles), since fairness
and ENABLED are out of the prover's reach.

The type invariants `OwnershipTypeOK`, `TransportTypeOK`, `ReviewTypeOK`, `RequestTypeOK`,
`GatewayTypeOK`, `DeliveryTypeOK`, `FlightTypeOK` and `DisclosureTypeOK` are conjuncts of
the inductive invariants above. `LedgerTypeOK` and `NavTypeOK` describe the domains of
their variables for a reader; no run lists them.

## 6. Not modelled

- *Deployment and configuration*, *reporting*, *install and upgrade scripts*:
  validation before anything runs, rendering of stored rows, helpers run by hand.
  They keep no state that evolves.
- *Arithmetic of sizing and strategy*: weights, stops and features are pure
  functions. What the other modules need of them is whether a size is stale.
- *Parsing*: the broker's rows, disclosure documents, the model's answer, the
  stream's frames, Telegram's updates. The models choose among the outcomes the
  callers tell apart.
- *Evaluation's statistics* and the validation of a manifest.
- *The gateway's media and outbound formats*, *the calendar of the scheduler*, the
  adoption of an account, theses and approvals as texts.

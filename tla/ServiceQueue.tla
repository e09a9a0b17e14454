---------------------------- MODULE ServiceQueue ----------------------------
(***************************************************************************)
(* The durable request queue of the trading engine (service.py): Telegram  *)
(* updates become receipts and requests (receive_http), scheduled jobs     *)
(* become requests (queue_tick), one worker per class of requests claims   *)
(* and runs them (run_once, _dispatch), results become rows of the outbox, *)
(* and one thread delivers the outbox to the gateway (outbox_once). The    *)
(* database survives a restart; workers, sockets and cancel events do not. *)
(***************************************************************************)
EXTENDS Naturals, Sequences, FiniteSets

CONSTANTS Updates,      \* ids of the Telegram updates
          Jobs,         \* scheduled jobs
          Files,        \* attachments a chat may carry
          Command,      \* what each update or job asks for
          MaxRestarts   \* bound: how often the engine's process may die

Keys == Updates \cup Jobs

Commands == {"review", "chat", "stop", "new", "pause", "status", "full_review",
             "collect_disclosures", "finalize_and_report", "time_limit_exit"}

ASSUME QueueAssumption ==
    /\ Updates \subseteq Nat \ {0} /\ Updates \cap Jobs = {}
    /\ Command \in [Keys -> Commands]
    /\ MaxRestarts \in Nat

VARIABLES
    receipt,     \* telegram_requests.status, and the body first received
    request,     \* requests.status
    queue,       \* requests by rowid
    expired,     \* requests whose deadline has passed
    result,      \* requests.result
    workflow,    \* reviews whose own outcome is stored (workflow:<id>)
    paused,      \* new risk is paused
    session,     \* number of the sender's current chat session
    history,     \* chats kept in the history of the current session
    cancelled,   \* chats marked chat_cancelled:<id>
    outbox,      \* rows to deliver, in the order of their ids
    worker,      \* what each worker thread is doing
    sender,      \* what the outbox thread is doing
    wire,        \* POST /telegram requests not yet handled
    ingress,     \* the POST being handled (it holds the store's lock)
    reply,       \* the answer the gateway is given for an update
    arrived,     \* rows of the outbox that reached Telegram at least once
    begun,       \* how often each request that may trade began to
    restarts

durable == <<receipt, request, queue, expired, result, workflow, paused, session,
             history, cancelled, outbox>>
queueVars == <<durable, worker, sender, wire, ingress, reply, arrived, begun, restarts>>

Workers == {"control", "review", "chat", "disclosures"}
Results == {"none", "EXPIRED", "PAUSED", "FAILED", "INTERRUPTED_RECONCILE_REQUIRED",
            "REVIEWED", "CHAT_COMPLETE", "CHAT_CANCELLED", "SESSION_CHANGED", "DONE",
            "NAV_NOT_FINALIZED", "REPORT_READY"}
RowStates == {"PENDING", "SENDING", "DELIVERED", "BLOCKED"}
Row(k, kind) == [about |-> k, kind |-> kind, state |-> "PENDING"]
RowKinds == {"answer", "outcome", "report", "notice"}

\* A worker has read some rows of the queue, or has a job (0: none).
Idle == [at |-> "idle", seen |-> {}, job |-> 0, outcome |-> "none", session |-> 0, cancel |-> FALSE]
NoIngress == [at |-> "idle", update |-> 0, body |-> {}]
NoReceipt == [status |-> "none", body |-> {}]

Places == {"idle", "read", "claimed", "renewing", "reviewing", "chatting", "calling", "returned", "done"}

Receipt == [status: {"none", "PENDING", "QUEUED", "BUSY", "INTERRUPTED", "COMPLETE"},
            body: SUBSET Files]
Errand == [at: Places, seen: SUBSET Nat, job: Keys \cup {0}, outcome: Results, session: Nat,
           cancel: BOOLEAN]
Reading == [at: {"idle", "received", "accepted"}, update: Updates \cup {0}, body: SUBSET Files]

\* The domains of the variables that requests go through.
RequestTypeOK ==
    /\ receipt \in [Updates -> Receipt]
    /\ request \in [Keys -> {"none", "ACCEPTED", "RUNNING", "COMPLETE", "INTERRUPTED",
                             "RECOVERED_RESULT"}]
    /\ queue \in Seq(Keys)
    /\ expired \subseteq Keys /\ cancelled \subseteq Keys
    /\ result \in [Keys -> Results]
    /\ paused \in BOOLEAN /\ session \in Nat
    /\ worker \in [Workers -> Errand]
    /\ wire \subseteq [update: Updates, body: SUBSET Files]
    /\ ingress \in Reading
    /\ reply \in [Updates -> {"none", "accepted", "rejected"}]
    /\ begun \in [Keys -> Nat] /\ restarts \in 0..MaxRestarts

\* Those of what is stored about them and delivered.
DeliveryTypeOK ==
    /\ outbox \in Seq([about: Keys, kind: RowKinds, state: RowStates])
    /\ sender \in [at: {"idle", "sending", "acknowledged", "refused", "unconfirmed"}, row: Nat]
    /\ arrived \subseteq Nat /\ workflow \subseteq Keys /\ history \subseteq Keys

QueueTypeOK == RequestTypeOK /\ DeliveryTypeOK

QueueInit ==
    /\ receipt = [u \in Updates |-> NoReceipt]
    /\ request = [k \in Keys |-> "none"]
    /\ result = [k \in Keys |-> "none"]
    /\ begun = [k \in Keys |-> 0]
    /\ worker = [w \in Workers |-> Idle]
    /\ reply = [u \in Updates |-> "none"]
    /\ queue = <<>> /\ outbox = <<>>
    /\ expired = {} /\ workflow = {} /\ history = {} /\ cancelled = {} /\ wire = {}
    /\ arrived = {} /\ paused = FALSE /\ session = 0 /\ restarts = 0
    /\ sender = [at |-> "idle", row |-> 0] /\ ingress = NoIngress

----------------------------------------------------------------------------
(* Helpers *)

\* Every transaction waits for the thread that holds the store's lock.
Unlocked == ingress.at = "idle"

ReviewJob(k) == Command[k] \in {"full_review", "collect_disclosures", "finalize_and_report",
                                "review", "chat"}
Reviews(k) == Command[k] \in {"review", "full_review"}
Protection(k) == Command[k] = "time_limit_exit"
Trades(k) == Reviews(k) \/ Protection(k)

\* The class of requests each worker thread is started for.
Takes(w, k) ==
    \/ w = "control" /\ ~ReviewJob(k)
    \/ w = "chat" /\ Command[k] = "chat"
    \/ w = "disclosures" /\ Command[k] = "collect_disclosures"
    \/ w = "review" /\ ReviewJob(k) /\ Command[k] \notin {"chat", "collect_disclosures"}

\* A request that blocks another: running, or accepted and not past its deadline.
Active(k) == request[k] = "RUNNING" \/ (request[k] = "ACCEPTED" /\ k \notin expired)

Busy(k) ==
    \E a \in Keys :
        /\ Active(a)
        /\ \/ Command[k] = "review" /\ ReviewJob(a) /\ Command[a] /= "chat"
           \/ k \in Updates /\ a \in Updates /\ Command[k] = Command[a]
           \/ k \in Jobs /\ a \in Jobs /\ Command[k] = Command[a]

Queued(k, kind) == \E i \in DOMAIN outbox : outbox[i].about = k /\ outbox[i].kind = kind

\* INSERT OR IGNORE: the event key of a row is unique.
WithRow(rows, k, kind) == IF Queued(k, kind) THEN rows ELSE Append(rows, Row(k, kind))

\* accept_request: the row, its deadline and its journal entry commit together.
Accept(k) ==
    /\ request' = [request EXCEPT ![k] = "ACCEPTED"]
    /\ queue' = Append(queue, k)

----------------------------------------------------------------------------
(* POST /telegram *)

\* The gateway sends an update; the engine handles it when a thread gets to it.
Post(u, fs) ==
    /\ wire' = wire \cup {[update |-> u, body |-> fs]}
    /\ reply' = [reply EXCEPT ![u] = "none"]

\* The connection breaks before the engine has read the request.
LosePost ==
    /\ \E p \in wire : wire' = wire \ {p}
    /\ UNCHANGED <<durable, worker, sender, ingress, reply, arrived, begun, restarts>>

\* The body an update id was first received with is the one that counts.
BodyConflict(u, fs) == receipt[u].status /= "none" /\ receipt[u].body /= fs

\* TelegramAdapter.receive: one receipt per update id.
ReceiveUpdate ==
    /\ Unlocked
    /\ \E p \in wire :
        /\ wire' = wire \ {p}
        /\ IF BodyConflict(p.update, p.body)
             THEN /\ reply' = [reply EXCEPT ![p.update] = "rejected"]
                  /\ UNCHANGED <<receipt, ingress>>
             ELSE /\ receipt' = IF receipt[p.update].status /= "none" THEN receipt
                                ELSE [receipt EXCEPT ![p.update] =
                                        [status |-> "PENDING", body |-> p.body]]
                  /\ ingress' = [at |-> "received", update |-> p.update, body |-> p.body]
                  /\ UNCHANGED reply
    /\ UNCHANGED <<request, queue, expired, result, workflow, paused, session, history, cancelled,
                   outbox, worker, sender, arrived, begun, restarts>>

\* Mutant: an update turned away before is looked at afresh.
AsksAgain(u) == request[u] = "none" /\ Busy(u)

\* A receipt that was interrupted needs a new update; a request already stored is never busy.
TurnedAway(u) == receipt[u].status = "BUSY" \/ (request[u] = "none" /\ Busy(u))

RejectUpdate ==
    /\ ingress.at = "received"
    /\ LET u == ingress.update
       IN \/ /\ receipt[u].status = "INTERRUPTED"
             /\ reply' = [reply EXCEPT ![u] = "rejected"]
             /\ UNCHANGED receipt
          \/ /\ receipt[u].status /= "INTERRUPTED" /\ TurnedAway(u)
             /\ receipt' = [receipt EXCEPT ![u].status = "BUSY"]
             /\ reply' = [reply EXCEPT ![u] = "rejected"]
    /\ ingress' = NoIngress
    /\ UNCHANGED <<request, queue, expired, result, workflow, paused, session, history, cancelled,
                   outbox, worker, sender, wire, arrived, begun, restarts>>

AcceptUpdate ==
    /\ ingress.at = "received"
    /\ receipt[ingress.update].status /= "INTERRUPTED" /\ ~TurnedAway(ingress.update)
    /\ IF request[ingress.update] = "none"
         THEN Accept(ingress.update) /\ ingress' = [ingress EXCEPT !.at = "accepted"]
              /\ UNCHANGED reply
         ELSE /\ reply' = [reply EXCEPT ![ingress.update] = "accepted"]
              /\ ingress' = NoIngress /\ UNCHANGED <<request, queue>>
    /\ UNCHANGED <<receipt, expired, result, workflow, paused, session, history, cancelled, outbox,
                   worker, sender, wire, arrived, begun, restarts>>

\* Only now is the receipt durable as QUEUED, in a transaction of its own.
MarkQueued ==
    /\ ingress.at = "accepted"
    /\ receipt' = [receipt EXCEPT ![ingress.update].status = "QUEUED"]
    /\ reply' = [reply EXCEPT ![ingress.update] = "accepted"]
    /\ ingress' = NoIngress
    /\ UNCHANGED <<request, queue, expired, result, workflow, paused, session, history, cancelled,
                   outbox, worker, sender, wire, arrived, begun, restarts>>

----------------------------------------------------------------------------
(* queue_tick *)

\* A due job is queued once; discretionary reviews not while paused, and a collection
\* of disclosures not while another is active.
Schedule(j) ==
    /\ Unlocked /\ request[j] = "none"
    /\ Reviews(j) => ~paused
    /\ Command[j] = "collect_disclosures" => ~Busy(j)
    /\ Accept(j)
    /\ UNCHANGED <<receipt, expired, result, workflow, paused, session, history, cancelled, outbox,
                   worker, sender, wire, ingress, reply, arrived, begun, restarts>>

\* A finalization that was not possible is due again until its deadline.
RetryDue(j) ==
    /\ request[j] = "COMPLETE" /\ result[j] = "NAV_NOT_FINALIZED" /\ j \notin expired

Requeue(j) ==
    /\ Unlocked /\ RetryDue(j)
    /\ request' = [request EXCEPT ![j] = "ACCEPTED"]
    /\ UNCHANGED <<receipt, queue, expired, result, workflow, paused, session, history, cancelled,
                   outbox, worker, sender, wire, ingress, reply, arrived, begun, restarts>>

DeadlinePasses(k) ==
    /\ request[k] /= "none" /\ k \notin expired
    /\ expired' = expired \cup {k}
    /\ UNCHANGED <<receipt, request, queue, result, workflow, paused, session, history, cancelled,
                   outbox, worker, sender, wire, ingress, reply, arrived, begun, restarts>>

----------------------------------------------------------------------------
(* run_once *)

At(w, where) == worker[w].at = where
Job(w) == worker[w].job
Goes(w, where, outcome) == worker' = [worker EXCEPT ![w].at = where, ![w].outcome = outcome]

\* Mutant: the claim is not conditional.
AnyCandidate(k) == request[k] \notin {"none", "RUNNING"}

Claimable(k) == request[k] = "ACCEPTED"
Candidates(w) == {i \in DOMAIN queue : Claimable(queue[i]) /\ Takes(w, queue[i])}

\* The candidates are read before the transaction that claims one of them.
ReadCandidates(w) ==
    /\ Unlocked /\ At(w, "idle") /\ Candidates(w) /= {}
    /\ worker' = [worker EXCEPT ![w] = [Idle EXCEPT !.at = "read", !.seen = Candidates(w)]]
    /\ UNCHANGED <<durable, sender, wire, ingress, reply, arrived, begun, restarts>>

\* The conditional update takes the first candidate that is still ACCEPTED.
Claim(w) ==
    /\ Unlocked /\ At(w, "read")
    /\ \/ /\ \A i \in worker[w].seen : ~Claimable(queue[i])
          /\ worker' = [worker EXCEPT ![w] = Idle] /\ UNCHANGED request
       \/ \E i \in worker[w].seen :
            /\ Claimable(queue[i]) /\ \A j \in worker[w].seen : j < i => ~Claimable(queue[j])
            /\ request' = [request EXCEPT ![queue[i]] = "RUNNING"]
            /\ worker' = [worker EXCEPT ![w] = [Idle EXCEPT !.at = "claimed", !.job = queue[i]]]
    /\ UNCHANGED <<receipt, queue, expired, result, workflow, paused, session, history, cancelled,
                   outbox, sender, wire, ingress, reply, arrived, begun, restarts>>

Late(k) == ~Protection(k) /\ k \in expired

\* _cancel_chat: one transaction under chat_lock; a registered chat also gets its event set.
CancelChats(ws) ==
    LET chats == {k \in Updates : Command[k] = "chat" /\ request[k] \in {"ACCEPTED", "RUNNING"}}
        queued == {k \in chats : request[k] = "ACCEPTED"}
    IN /\ cancelled' = cancelled \cup chats
       /\ request' = [k \in Keys |-> IF k \in queued THEN "COMPLETE" ELSE request[k]]
       /\ result' = [k \in Keys |-> IF k \in queued THEN "CHAT_CANCELLED" ELSE result[k]]
       /\ receipt' = [u \in Updates |-> IF u \in queued THEN [receipt[u] EXCEPT !.status = "COMPLETE"]
                                        ELSE receipt[u]]
       /\ worker' = [ws EXCEPT !["chat"].cancel = @ \/ ws["chat"].at = "calling"]

\* What _dispatch does at once, by command, unless it raises first: the configuration has
\* changed, the sender is not authorized, or something it needs is not there.
Dispatch(w) ==
    LET k == Job(w) IN
    /\ Unlocked /\ At(w, "claimed")
    /\ \/ /\ Late(k) /\ Goes(w, "done", "EXPIRED")
          /\ UNCHANGED <<durable, begun>>
       \/ /\ ~Late(k) /\ Reviews(k) /\ paused /\ Goes(w, "done", "PAUSED")
          /\ UNCHANGED <<durable, begun>>
       \/ /\ ~Late(k) /\ Reviews(k) /\ ~paused /\ Goes(w, "reviewing", "none")
          /\ begun' = [begun EXCEPT ![k] = @ + 1]
          /\ UNCHANGED durable
       \/ /\ ~Late(k) /\ Command[k] = "chat"
          /\ worker' = [worker EXCEPT ![w].at = "chatting", ![w].session = session]
          /\ UNCHANGED <<durable, begun>>
       \/ /\ ~Late(k) /\ Command[k] = "stop"
          /\ CancelChats([worker EXCEPT ![w].at = "done", ![w].outcome = "DONE"])
          /\ UNCHANGED <<session, history, queue, expired, workflow, paused, outbox, begun>>
       \/ /\ ~Late(k) /\ Command[k] = "new"
          /\ CancelChats([worker EXCEPT ![w].at = "renewing", ![w].outcome = "none"])
          /\ UNCHANGED <<session, history, queue, expired, workflow, paused, outbox, begun>>
       \/ /\ ~Late(k) /\ Command[k] = "pause" /\ paused' = TRUE /\ Goes(w, "done", "DONE")
          /\ UNCHANGED <<receipt, request, queue, expired, result, workflow, session, history,
                         cancelled, outbox, begun>>
       \/ /\ ~Late(k) /\ Command[k] = "finalize_and_report"
          /\ \E r \in {"NAV_NOT_FINALIZED", "REPORT_READY"} : Goes(w, "done", r)
          /\ UNCHANGED <<durable, begun>>
       \/ /\ Protection(k)
          /\ \E r \in {"DONE", "FAILED"} : Goes(w, "done", r)
          /\ begun' = [begun EXCEPT ![k] = @ + 1]
          /\ UNCHANGED durable
       \/ /\ ~Late(k) /\ Command[k] \in {"status", "collect_disclosures"}
          /\ Goes(w, "done", "DONE") /\ UNCHANGED <<durable, begun>>
       \/ /\ ~Late(k) /\ Goes(w, "done", "FAILED")
          /\ UNCHANGED <<durable, begun>>
    /\ UNCHANGED <<sender, wire, ingress, reply, arrived, restarts>>

\* A new session, in a transaction of its own; the history of the old one is emptied.
RenewSession(w) ==
    /\ Unlocked /\ At(w, "renewing")
    /\ session' = session + 1 /\ history' = {}
    /\ Goes(w, "done", "DONE")
    /\ UNCHANGED <<receipt, request, queue, expired, result, workflow, paused, cancelled, outbox,
                   sender, wire, ingress, reply, arrived, begun, restarts>>

\* A review ends: its outcome, its notification and its report are stored together, or
\* it raised before it could store them.
EndReview(w) ==
    /\ Unlocked /\ At(w, "reviewing")
    /\ \/ /\ workflow' = workflow \cup {Job(w)}
          /\ outbox' = outbox \o <<Row(Job(w), "outcome"), Row(Job(w), "report")>>
          /\ Goes(w, "done", "REVIEWED")
       \/ UNCHANGED <<workflow, outbox>> /\ Goes(w, "done", "FAILED")
    /\ UNCHANGED <<receipt, request, queue, expired, result, paused, session, history, cancelled,
                   sender, wire, ingress, reply, arrived, begun, restarts>>

\* Mutant: a chat does not look for a cancellation made before it registered.
RegisterBlindly(w) ==
    /\ Unlocked /\ At(w, "chatting")
    /\ worker' = [worker EXCEPT ![w].at = "calling", ![w].cancel = FALSE]
    /\ UNCHANGED <<durable, sender, wire, ingress, reply, arrived, begun, restarts>>

\* A chat registers its cancel event, and sees a cancellation made before that.
RegisterChat(w) ==
    /\ Unlocked /\ At(w, "chatting")
    /\ worker' = [worker EXCEPT ![w].at = "calling", ![w].cancel = Job(w) \in cancelled]
    /\ UNCHANGED <<durable, sender, wire, ingress, reply, arrived, begun, restarts>>

\* The model answers, or the call fails; the event is taken off the table.
AnswerChat(w) ==
    /\ At(w, "calling")
    /\ \E to \in {"returned", "done"} : Goes(w, to, IF to = "done" THEN "FAILED" ELSE "none")
    /\ UNCHANGED <<durable, sender, wire, ingress, reply, arrived, begun, restarts>>

\* The answer enters the history only of the session it began in, unless canceled.
SaveChat(w) ==
    /\ Unlocked /\ At(w, "returned")
    /\ \/ worker[w].session /= session /\ Goes(w, "done", "SESSION_CHANGED") /\ UNCHANGED history
       \/ worker[w].session = session /\ worker[w].cancel
          /\ Goes(w, "done", "CHAT_CANCELLED") /\ UNCHANGED history
       \/ worker[w].session = session /\ ~worker[w].cancel
          /\ Goes(w, "done", "CHAT_COMPLETE") /\ history' = history \cup {Job(w)}
    /\ UNCHANGED <<receipt, request, queue, expired, result, workflow, paused, session, cancelled,
                   outbox, sender, wire, ingress, reply, arrived, begun, restarts>>

\* One transaction stores the result, completes the receipt and queues the answer; a stored
\* review outcome replaces the result and has queued its own notification.
Finish(w) ==
    LET k == Job(w)
        own == k \in workflow
        answered == IF k \in Updates /\ ~own THEN WithRow(outbox, k, "answer") ELSE outbox
    IN
    /\ Unlocked /\ At(w, "done")
    /\ request' = [request EXCEPT ![k] = "COMPLETE"]
    /\ result' = [result EXCEPT ![k] = IF own THEN "REVIEWED" ELSE worker[w].outcome]
    /\ receipt' = IF k \in Updates THEN [receipt EXCEPT ![k].status = "COMPLETE"] ELSE receipt
    /\ outbox' = IF worker[w].outcome = "REPORT_READY" THEN WithRow(answered, k, "report")
                 ELSE answered
    /\ worker' = [worker EXCEPT ![w] = Idle]
    /\ UNCHANGED <<queue, expired, workflow, paused, session, history, cancelled, sender, wire,
                   ingress, reply, arrived, begun, restarts>>

----------------------------------------------------------------------------
(* outbox_once *)

Pending == {i \in DOMAIN outbox : outbox[i].state = "PENDING"}

\* Mutant: the newest PENDING row first.
NewestRow == CHOOSE i \in Pending : \A j \in Pending : i >= j

\* The oldest PENDING row; rows behind it wait.
NextRow == CHOOSE i \in Pending : \A j \in Pending : i <= j

TakeRow ==
    /\ Unlocked /\ sender.at = "idle" /\ Pending /= {}
    /\ sender' = [at |-> "sending", row |-> NextRow]
    /\ outbox' = [outbox EXCEPT ![NextRow].state = "SENDING"]
    /\ UNCHANGED <<receipt, request, queue, expired, result, workflow, paused, session, history,
                   cancelled, worker, wire, ingress, reply, arrived, begun, restarts>>

\* The gateway acknowledges what Telegram took; anything else is unconfirmed, whether or
\* not it arrived; a document may be refused before it is sent.
SendRow ==
    /\ sender.at = "sending"
    /\ \/ /\ \E at \in {"acknowledged", "unconfirmed"} : sender' = [sender EXCEPT !.at = at]
          /\ arrived' = arrived \cup {sender.row}
       \/ sender' = [sender EXCEPT !.at = "unconfirmed"] /\ UNCHANGED arrived
       \/ /\ outbox[sender.row].kind = "report"
          /\ sender' = [sender EXCEPT !.at = "refused"] /\ UNCHANGED arrived
    /\ UNCHANGED <<durable, worker, wire, ingress, reply, begun, restarts>>

Outcome == CASE sender.at = "acknowledged" -> "DELIVERED"
             [] sender.at = "refused"      -> "BLOCKED"
             [] sender.at = "unconfirmed"  -> "PENDING"

ConcludeRow ==
    /\ Unlocked /\ sender.at \in {"acknowledged", "refused", "unconfirmed"}
    /\ outbox' = [outbox EXCEPT ![sender.row].state = Outcome]
    /\ sender' = [at |-> "idle", row |-> 0]
    /\ UNCHANGED <<receipt, request, queue, expired, result, workflow, paused, session, history,
                   cancelled, worker, wire, ingress, reply, arrived, begun, restarts>>

----------------------------------------------------------------------------
(* Process death, and _recover at the next start *)

\* Mutant: every scheduled or requested work is queued again.
AlwaysResumable(k) == TRUE

\* Mutant: no request is queued again.
NeverResumable(k) == FALSE

\* An interrupted report is queued again, an interrupted trading request never.
Resumable(k) == k \in Jobs /\ Command[k] = "finalize_and_report"

RecoveredStatus(k) ==
    IF request[k] /= "RUNNING" THEN request[k]
    ELSE IF Resumable(k) THEN "ACCEPTED"
    ELSE IF k \in workflow THEN "RECOVERED_RESULT" ELSE "INTERRUPTED"

\* Rows of the queue in any order: the query that finds the interrupted requests names none.
Orders(rows) ==
    {f \in [1..Cardinality(rows) -> rows] : \A m, n \in DOMAIN f : m /= n => f[m] /= f[n]}

\* The rows of requests cut short, and the notices they are answered by.
CutShort ==
    {i \in DOMAIN queue : request[queue[i]] = "RUNNING" /\ RecoveredStatus(queue[i]) = "INTERRUPTED"}
Notices(order) == [n \in DOMAIN order |-> Row(queue[order[n]], "notice")]

SentAgain == [i \in DOMAIN outbox |->
    IF outbox[i].state = "SENDING" THEN [outbox[i] EXCEPT !.state = "PENDING"] ELSE outbox[i]]

\* Mutant: nothing is said about the requests cut short.
RecoverRowsOnly(order) == SentAgain

\* Mutant: a row being sent at the death of the process stays so.
RecoverNoticesOnly(order) == outbox \o Notices(order)

\* A request cut short is answered by a notice; a row being sent is sent again.
RecoveredOutbox(order) == SentAgain \o Notices(order)

Restart ==
    /\ restarts < MaxRestarts /\ restarts' = restarts + 1
    /\ request' = [k \in Keys |-> RecoveredStatus(k)]
    /\ result' = [k \in Keys |-> IF request[k] /= "RUNNING" \/ Resumable(k) THEN result[k]
                                 ELSE IF k \in workflow THEN "REVIEWED"
                                 ELSE "INTERRUPTED_RECONCILE_REQUIRED"]
    /\ \E order \in Orders(CutShort) : outbox' = RecoveredOutbox(order)
    /\ receipt' = [u \in Updates |-> IF receipt[u].status = "PENDING"
                                     THEN [receipt[u] EXCEPT !.status = "INTERRUPTED"] ELSE receipt[u]]
    /\ worker' = [w \in Workers |-> Idle]
    /\ sender' = [at |-> "idle", row |-> 0]
    /\ ingress' = NoIngress /\ wire' = {}
    /\ UNCHANGED <<queue, expired, workflow, paused, session, history, cancelled, reply, arrived,
                   begun>>

----------------------------------------------------------------------------

Work(w) ==
    \/ ReadCandidates(w) \/ Claim(w) \/ Dispatch(w) \/ RenewSession(w) \/ EndReview(w)
    \/ RegisterChat(w) \/ AnswerChat(w) \/ SaveChat(w) \/ Finish(w)

Deliver == TakeRow \/ SendRow \/ ConcludeRow

Ingest == ReceiveUpdate \/ RejectUpdate \/ AcceptUpdate \/ MarkQueued

EngineNext ==
    \/ LosePost \/ Ingest \/ Deliver \/ Restart
    \/ \E j \in Jobs : Schedule(j) \/ Requeue(j)
    \/ \E k \in Keys : DeadlinePasses(k)
    \/ \E w \in Workers : Work(w)

\* The engine with an arbitrary client on its port.
ClientPosts ==
    /\ \E u \in Updates, fs \in SUBSET Files : Post(u, fs)
    /\ UNCHANGED <<durable, worker, sender, ingress, arrived, begun, restarts>>

QueueSpec == QueueInit /\ [][EngineNext \/ ClientPosts]_queueVars
=============================================================================

--------------------------- MODULE TelegramGateway ---------------------------
(***************************************************************************)
(* The Telegram gateway (telegram_gateway.py) in front of the engine's     *)
(* queue: it polls Telegram for updates (poll_route_once), stores          *)
(* attachments, freezes the body of every request it forwards              *)
(* (TelegramAttachmentCache), posts it to the engine and tells the sender  *)
(* what it knows (handle_update). Its files survive a restart, its poll    *)
(* offset does not.                                                        *)
(***************************************************************************)
EXTENDS ServiceQueue

CONSTANTS FileUpdates,          \* updates that carry an attachment; one with a
          MaxGatewayRestarts    \* caption is also a chat, the others ask nothing

ASSUME GatewayAssumption ==
    /\ FileUpdates \subseteq Updates /\ Files = FileUpdates
    /\ MaxGatewayRestarts \in Nat

VARIABLES
    sent,        \* the last update id users have produced
    kept,        \* the lowest update id Telegram still keeps for the bot
    offset,      \* next update id to ask for (0: none, as after a start)
    batch,       \* updates of the last poll not yet handled
    handling,    \* the update being handled and where
    file,        \* attachments in the cache, by the update that brought them
    frozen,      \* request receipts: status, body and selected attachments
    gatewayRestarts

files == <<file, frozen>>
gatewayVars == <<sent, kept, offset, batch, handling, file, frozen, gatewayRestarts>>
vars == <<queueVars, gatewayVars>>

Bare(u) == u \in FileUpdates /\ Command[u] /= "chat"
Captioned(u) == u \in FileUpdates /\ Command[u] = "chat"
Slash(u) == Command[u] /= "chat"
NotHandling == [at |-> "idle", update |-> 0]
NoRequest == [status |-> "none", body |-> {}, selected |-> {}]

\* The domains of the gateway's variables.
GatewayTypeOK ==
    /\ sent \in Nat /\ kept \in Nat /\ offset \in Nat /\ gatewayRestarts \in Nat
    /\ batch \in Seq(Updates)
    /\ handling \in [at: {"idle", "store", "freeze", "post", "wait", "consume", "consumed"},
                     update: Nat]
    /\ file \in [Files -> {"none", "pending", "consumed"}]
    /\ frozen \in [Updates -> [status: {"none", "pending", "accepted"}, body: SUBSET Files,
                               selected: SUBSET Files]]

GatewayInit ==
    /\ kept \in Updates /\ sent = kept - 1
    /\ offset = 0 /\ batch = <<>> /\ handling = NotHandling
    /\ file = [f \in Files |-> "none"]
    /\ frozen = [u \in Updates |-> NoRequest]
    /\ gatewayRestarts = 0

----------------------------------------------------------------------------
(* poll_route_once *)

\* A user writes to the bot.
UserWrites ==
    /\ sent + 1 \in Updates /\ sent' = sent + 1
    /\ UNCHANGED <<queueVars, kept, offset, batch, handling, files, gatewayRestarts>>

\* getUpdates(offset) discards what lies before the offset and returns the rest.
Poll ==
    LET from == IF offset > kept THEN offset ELSE kept IN
    /\ handling.at = "idle" /\ batch = <<>> /\ from <= sent
    /\ kept' = from
    /\ batch' = [i \in 1..(sent - from + 1) |-> from + i - 1]
    /\ UNCHANGED <<queueVars, sent, offset, handling, files, gatewayRestarts>>

Where(u) == IF u \in FileUpdates THEN "store" ELSE "freeze"

\* The offset moves past an update before the update is handled.
NextUpdate ==
    /\ handling.at = "idle" /\ batch /= <<>>
    /\ offset' = Head(batch) + 1 /\ batch' = Tail(batch)
    /\ handling' = [at |-> Where(Head(batch)), update |-> Head(batch)]
    /\ UNCHANGED <<queueVars, sent, kept, files, gatewayRestarts>>

\* The update whose handling raises is not fetched again.  Of the batch the rest is handled
\* if the sender was told of the failure; else the poll ends, and the rest is fetched again.
HandlingFails ==
    /\ handling.at \in {"store", "freeze", "consume", "consumed"}
    /\ handling' = NotHandling /\ batch' \in {batch, <<>>}
    /\ UNCHANGED <<queueVars, sent, kept, offset, files, gatewayRestarts>>

----------------------------------------------------------------------------
(* handle_update *)

Me == handling.update
Step(where) == handling' = IF where = "idle" THEN NotHandling ELSE [handling EXCEPT !.at = where]

\* TelegramAttachmentCache.store keeps one copy per update; a copy already consumed by an
\* accepted request ends the update, and a caption goes on as a request.
StoreAttachment ==
    /\ handling.at = "store"
    /\ file' = [file EXCEPT ![Me] = IF @ = "none" THEN "pending" ELSE @]
    /\ Step(IF file[Me] = "consumed" \/ Bare(Me) THEN "idle" ELSE "freeze")
    /\ UNCHANGED <<queueVars, sent, kept, offset, batch, frozen, gatewayRestarts>>

PendingFiles == {f \in Files : file[f] = "pending"}
Selected(u) == IF Slash(u) /\ Command[u] /= "new" THEN {} ELSE PendingFiles
Body(u) == IF Slash(u) THEN {} ELSE Selected(u)

\* Mutant: every attempt takes the attachments as they are now.
FrozenAnew(u) ==
    [status |-> IF frozen[u].status = "none" THEN "pending" ELSE frozen[u].status,
     body |-> Body(u), selected |-> Selected(u)]

\* freeze_request: the first body written for an update id is the one ever sent.
Frozen(u) ==
    IF frozen[u].status /= "none" THEN frozen[u]
    ELSE [status |-> "pending", body |-> Body(u), selected |-> Selected(u)]

\* The attachments of a frozen request that are still in the cache.
Remaining(u) == {f \in frozen[u].selected : file[f] /= "none"}

Consumed(fs) == [f \in Files |-> IF f \in fs /\ file[f] = "pending" THEN "consumed" ELSE file[f]]

\* Mutant: the attachments are consumed when the request is frozen.
FreezeConsuming ==
    /\ handling.at = "freeze"
    /\ frozen' = [frozen EXCEPT ![Me] = Frozen(Me)]
    /\ file' = Consumed(PendingFiles)
    /\ Step(IF frozen[Me].status = "accepted" THEN "idle" ELSE "post")
    /\ UNCHANGED <<queueVars, sent, kept, offset, batch, gatewayRestarts>>

\* Mutant: the request is recorded as accepted when it is frozen.
FreezeAccepted ==
    /\ handling.at = "freeze"
    /\ frozen' = [frozen EXCEPT ![Me] = [Frozen(Me) EXCEPT !.status = "accepted"]]
    /\ UNCHANGED file /\ Step("post")
    /\ UNCHANGED <<queueVars, sent, kept, offset, batch, gatewayRestarts>>

\* An update whose request was accepted before is only cleaned up after.
Freeze ==
    /\ handling.at = "freeze"
    /\ frozen' = [frozen EXCEPT ![Me] = Frozen(Me)]
    /\ IF frozen[Me].status = "accepted"
         THEN file' = Consumed(Remaining(Me)) /\ Step("idle")
         ELSE UNCHANGED file /\ Step("post")
    /\ UNCHANGED <<queueVars, sent, kept, offset, batch, gatewayRestarts>>

PostToEngine ==
    /\ handling.at = "post"
    /\ Post(Me, frozen[Me].body)
    /\ Step("wait")
    /\ UNCHANGED <<durable, worker, sender, ingress, arrived, begun, restarts>>
    /\ UNCHANGED <<sent, kept, offset, batch, files, gatewayRestarts>>

\* A rejection is passed on to the sender.
Rejected ==
    /\ handling.at = "wait" /\ reply[Me] = "rejected" /\ Step("idle")
    /\ UNCHANGED <<queueVars, sent, kept, offset, batch, files, gatewayRestarts>>

\* No answer in time: the sender is told that the request may or may not run.
NoAnswer ==
    /\ handling.at = "wait" /\ Step("idle")
    /\ UNCHANGED <<queueVars, sent, kept, offset, batch, files, gatewayRestarts>>

Accepted ==
    /\ handling.at = "wait" /\ reply[Me] = "accepted" /\ Step("consume")
    /\ UNCHANGED <<queueVars, sent, kept, offset, batch, files, gatewayRestarts>>

MarkConsumed ==
    /\ handling.at = "consume" /\ Step("consumed")
    /\ file' = Consumed(Remaining(Me))
    /\ UNCHANGED <<queueVars, sent, kept, offset, batch, frozen, gatewayRestarts>>

MarkRequestAccepted ==
    /\ handling.at = "consumed" /\ Step("idle")
    /\ frozen' = [frozen EXCEPT ![Me].status = "accepted"]
    /\ UNCHANGED <<queueVars, sent, kept, offset, batch, file, gatewayRestarts>>

\* cleanup_expired: a file outlives its update at Telegram, and is then removed.
CleanupExpired ==
    /\ \E f \in Files : f < kept /\ file[f] /= "none" /\ file' = [file EXCEPT ![f] = "none"]
    /\ UNCHANGED <<queueVars, sent, kept, offset, batch, handling, frozen, gatewayRestarts>>

\* The gateway's process dies: the offset and the batch were only in memory.
GatewayRestart ==
    /\ gatewayRestarts < MaxGatewayRestarts /\ gatewayRestarts' = gatewayRestarts + 1
    /\ offset' = 0 /\ batch' = <<>> /\ handling' = NotHandling
    /\ UNCHANGED <<queueVars, sent, kept, files>>

HandleUpdate ==
    \/ Poll \/ NextUpdate \/ StoreAttachment \/ Freeze \/ PostToEngine
    \/ Rejected \/ Accepted \/ MarkConsumed \/ MarkRequestAccepted

GatewayNext ==
    UserWrites \/ HandleUpdate \/ HandlingFails \/ NoAnswer \/ CleanupExpired \/ GatewayRestart

----------------------------------------------------------------------------

TelegramInit == QueueInit /\ GatewayInit
TelegramNext == GatewayNext \/ (EngineNext /\ UNCHANGED gatewayVars)

\* Worker threads and the outbox thread loop for ever, and time passes.  A POST being
\* handled ends.  Telegram takes a row that is sent again and again; users, the network
\* and process deaths owe nothing.
EngineStep(A) == A /\ UNCHANGED gatewayVars

TelegramFairness ==
    /\ \A w \in Workers : WF_vars(EngineStep(Work(w)))
    /\ WF_vars(EngineStep(Ingest))
    /\ WF_vars(EngineStep(Deliver))
    /\ SF_vars(EngineStep(SendRow /\ sender'.at = "acknowledged"))
    /\ \A k \in Keys : WF_vars(EngineStep(DeadlinePasses(k)))
    /\ \A j \in Jobs : WF_vars(EngineStep(Requeue(j)))

TelegramSpec == TelegramInit /\ [][TelegramNext]_vars /\ TelegramFairness

----------------------------------------------------------------------------
(* Properties *)

\* A request that may trade, a review or a time-limit exit, begins at most once, whatever
\* dies when; an interrupted one is reported, not run again.  (service.py: _recover)
TradesAtMostOnce == \A k \in Keys : begun[k] <= 1

\* A sender told that the engine is busy is right: the update never runs later, not even
\* after it is delivered again.  (service.py: receive_http)
BusyNeverRuns == \A u \in Updates : receipt[u].status = "BUSY" => request[u] = "none"

\* What the gateway recorded as accepted is in the engine's queue, across deaths of
\* either process between the two records.  (handle_update, receive_http)
AcceptedIsQueued == \A u \in Updates : frozen[u].status = "accepted" => request[u] /= "none"

\* A redelivered update carries the body the engine first received, although attachments
\* came, expired or were consumed in between.  (freeze_request, TelegramAdapter.receive)
SameBodyAgain == \A p \in wire : ~BodyConflict(p.update, p.body)

\* An attachment is not marked consumed unless a queued request carries it or a queued
\* /new dropped it.  (mark_consumed)
AttachmentNotLost ==
    \A f \in Files : file[f] = "consumed" =>
        \E u \in Updates : request[u] /= "none" /\ f \in frozen[u].selected

\* A cancellation reaches a chat whose model call is still running, whether it came before
\* or after the chat registered its event.  (_cancel_chat, _dispatch)
CancelReachesChat ==
    \A w \in Workers : At(w, "calling") /\ Job(w) \in cancelled => worker[w].cancel

\* A cancelled chat that never ran stays cancelled: a worker that read it as a candidate
\* before does not take it back.  (run_once, the conditional update)
CancelledStaysDone ==
    [][\A k \in Keys : result[k] = "CHAT_CANCELLED" /\ request[k] = "COMPLETE"
            => request'[k] = "COMPLETE" /\ result'[k] = "CHAT_CANCELLED"]_vars

\* Rows first reach Telegram in the order they were queued, except a document that is
\* blocked for good.  (outbox_once)
ArrivesInOrder ==
    \A j \in arrived : \A i \in 1..(j - 1) : i \in arrived \/ outbox[i].state = "BLOCKED"

\* Every command and review accepted is answered by a row of the outbox: its result, its
\* review's outcome, or the notice that it was interrupted.  (run_once, _recover)
EveryRequestAnswered ==
    \A u \in Updates : Command[u] /= "chat" =>
        (request[u] = "ACCEPTED" ~> \E kind \in RowKinds : Queued(u, kind))

\* A finalization is retried until it is done or its deadline has passed; the process's
\* death in the middle of it does not end the retries.  (queue_tick, _recover)
ReportSettles ==
    \A j \in Jobs : Command[j] = "finalize_and_report" =>
        (request[j] = "ACCEPTED" ~>
            request[j] = "COMPLETE" /\ (result[j] /= "NAV_NOT_FINALIZED" \/ j \in expired))
=============================================================================

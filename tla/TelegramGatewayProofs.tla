------------------------ MODULE TelegramGatewayProofs ------------------------
(***************************************************************************)
(* The safety of the Telegram path for any updates, jobs, files, commands  *)
(* and numbers of process deaths.                                          *)
(*                                                                         *)
(* EInv is about the engine alone and holds with any client on its port;   *)
(* GInv relates what the gateway has on disk to what the engine was sent.  *)
(* Two workers never have the same request, since the classes of requests  *)
(* they take are disjoint (OneClass) and a request they have is RUNNING,   *)
(* which no one else changes (Claims); so what may trade begins only from        *)
(* ACCEPTED, and never returns there once it has begun (Begins).           *)
(*                                                                         *)
(* OInv is about the outbox alone: a row is sent only after the rows before *)
(* it are settled.                                                         *)
(***************************************************************************)
EXTENDS TelegramGateway, FiniteSums, TLAPS

HasJob(w) == worker[w].at \notin {"idle", "read"}
Chatting(w) == worker[w].at \in {"chatting", "calling", "returned"}

\* What a worker has read is in the queue and of its class; what it has is running.
Claims ==
    \A w \in Workers :
        /\ worker[w].at = "read" =>
            \A i \in worker[w].seen : i \in DOMAIN queue /\ Takes(w, queue[i])
        /\ HasJob(w) => Job(w) \in Keys /\ request[Job(w)] = "RUNNING" /\ Takes(w, Job(w))
        /\ Chatting(w) => Command[Job(w)] = "chat"

\* A request that may trade and waits has not begun, and only a finalization is due again.
Begins ==
    /\ \A k \in Keys :
        /\ begun[k] <= 1
        /\ Trades(k) /\ request[k] \in {"none", "ACCEPTED"} => begun[k] = 0
        /\ result[k] = "NAV_NOT_FINALIZED" => ~Trades(k)
    /\ \A w \in Workers :
        /\ worker[w].at = "claimed" /\ Trades(Job(w)) => begun[Job(w)] = 0
        /\ HasJob(w) /\ worker[w].outcome = "NAV_NOT_FINALIZED" => ~Trades(Job(w))

\* A POST is handled for an update; told accepted means stored.
Ingested ==
    /\ ingress.at # "idle" => ingress.update \in Updates /\ receipt[ingress.update].status # "none"
    /\ ingress.at = "accepted" => request[ingress.update] # "none"
                                  /\ receipt[ingress.update].status # "BUSY"
    /\ \A u \in Updates : reply[u] = "accepted" => request[u] # "none"
    /\ \A u \in Updates : request[u] # "none" => receipt[u].status # "none"

EInv == RequestTypeOK /\ Claims /\ Begins /\ Ingested /\ BusyNeverRuns /\ CancelReachesChat

\* The updates Telegram keeps and those under way are updates.
Handled ==
    /\ \A i \in kept..sent : i \in Updates
    /\ handling.at # "idle" => handling.update \in Updates
    /\ handling.at \in {"post", "wait", "consume", "consumed"} =>
            frozen[handling.update].status # "none"
    /\ handling.at \in {"consume", "consumed"} => request[handling.update] # "none"

\* Whatever the engine was sent of an update is the body frozen for it.
Bodies ==
    /\ \A p \in wire : frozen[p.update].status # "none" /\ p.body = frozen[p.update].body
    /\ \A u \in Updates : receipt[u].status # "none" =>
            frozen[u].status # "none" /\ receipt[u].body = frozen[u].body

GInv == GatewayTypeOK /\ Handled /\ Bodies /\ AcceptedIsQueued /\ AttachmentNotLost

IInv == EInv /\ GInv

-----------------------------------------------------------------------------
(* Helpers *)

LEMMA Constants ==
    /\ Updates \subseteq Nat /\ 0 \notin Updates /\ Updates \cap Jobs = {}
    /\ Updates \subseteq Keys /\ Jobs \subseteq Keys
    /\ Command \in [Keys -> Commands] /\ MaxRestarts \in Nat
  BY QueueAssumption DEF Keys

\* One worker takes the requests of a class.
LEMMA OneClass ==
    ASSUME NEW k, NEW v \in Workers, NEW w \in Workers, Takes(v, k), Takes(w, k) PROVE v = w
  BY DEF Workers, Takes, ReviewJob

\* Only the chat worker takes chats.
LEMMA ChatWorker == ASSUME NEW w \in Workers, NEW k, Takes(w, k) PROVE Command[k] = "chat" <=> w = "chat"
  BY DEF Workers, Takes, ReviewJob

\* A row that is appended changes no other.
LEMMA Appended ==
    ASSUME NEW q \in Seq(Keys), NEW k \in Keys
    PROVE /\ Append(q, k) \in Seq(Keys) /\ DOMAIN q \subseteq DOMAIN Append(q, k)
          /\ \A i \in DOMAIN q : Append(q, k)[i] = q[i]
  OBVIOUS

LEMMA InitIInv == TelegramInit => IInv
  <1> SUFFICES ASSUME TelegramInit PROVE IInv OBVIOUS
  <1> USE Constants DEF TelegramInit, QueueInit, GatewayInit
  <1>1. RequestTypeOK
    <2>1. Idle \in Errand
      BY DEF Idle, Errand, Places, Results
    <2>2. NoReceipt \in Receipt /\ NoIngress \in Reading
      BY DEF NoReceipt, Receipt, NoIngress, Reading
    <2>3. restarts \in 0..MaxRestarts OBVIOUS
    <2>4. queue \in Seq(Keys) OBVIOUS
    <2> QED BY <2>1, <2>2, <2>3, <2>4 DEF RequestTypeOK, Results
  <1>2. Claims /\ Begins
    BY DEF Claims, Begins, Idle, HasJob, Chatting
  <1>3. Ingested /\ BusyNeverRuns /\ CancelReachesChat
    BY DEF Ingested, BusyNeverRuns, CancelReachesChat, NoReceipt, NoIngress, Idle, At
  <1>4. GatewayTypeOK
    BY DEF GatewayTypeOK, NotHandling, NoRequest
  <1>5. Handled /\ Bodies
    BY DEF Handled, Bodies, NotHandling, NoReceipt
  <1>6. AcceptedIsQueued /\ AttachmentNotLost
    BY DEF AcceptedIsQueued, AttachmentNotLost, NoRequest
  <1> QED BY <1>1, <1>2, <1>3, <1>4, <1>5, <1>6 DEF IInv, EInv, GInv

-----------------------------------------------------------------------------
(* The engine's steps preserve EInv *)

\* What EInv is about.
engineVars == <<receipt, request, queue, expired, result, paused, session, cancelled, worker,
                wire, ingress, reply, begun, restarts>>

LEMMA Elsewhere == ASSUME EInv, UNCHANGED engineVars PROVE EInv'
  BY DEF engineVars, EInv, RequestTypeOK, Claims, Begins, Ingested, BusyNeverRuns, CancelReachesChat,
         HasJob, Chatting, Job, At

LEMMA DeliverStep == ASSUME EInv, Deliver PROVE EInv'
  BY Elsewhere DEF Deliver, TakeRow, SendRow, ConcludeRow, engineVars, durable

LEMMA LosePostStep == ASSUME EInv, LosePost PROVE EInv'
  BY DEF LosePost, durable, EInv, RequestTypeOK, Claims, Begins, Ingested, BusyNeverRuns,
         CancelReachesChat, HasJob, Chatting, Job, At

LEMMA DeadlineStep == ASSUME EInv, NEW k \in Keys, DeadlinePasses(k) PROVE EInv'
  BY DEF DeadlinePasses, EInv, RequestTypeOK, Claims, Begins, Ingested, BusyNeverRuns,
         CancelReachesChat, HasJob, Chatting, Job, At

LEMMA RequeueStep == ASSUME EInv, NEW k \in Jobs, Requeue(k) PROVE EInv'
  BY Constants DEF Requeue, RetryDue, EInv, RequestTypeOK, Claims, Begins, Ingested, BusyNeverRuns,
         CancelReachesChat, HasJob, Chatting, Job, At

\* A worker that has nothing, and one field of a record that is replaced.
LEMMA Records ==
    /\ Idle \in Errand /\ NoIngress \in Reading
    /\ \A r \in Receipt : r.body \in SUBSET Files
    /\ \A r \in Receipt : \A status \in {"PENDING", "QUEUED", "BUSY", "INTERRUPTED", "COMPLETE"} :
            [r EXCEPT !.status = status] \in Receipt
    /\ \A e \in Errand : e.at \in Places /\ e.job \in Keys \cup {0} /\ e.seen \subseteq Nat
                         /\ e.outcome \in Results /\ e.session \in Nat /\ e.cancel \in BOOLEAN
    /\ \A i \in Reading : i.body \in SUBSET Files /\ [i EXCEPT !.at = "accepted"] \in Reading
  <1>1. Idle \in Errand BY DEF Idle, Errand, Places, Results
  <1>2. NoIngress \in Reading BY DEF NoIngress, Reading
  <1> QED BY <1>1, <1>2 DEF Receipt, Errand, Reading

LEMMA ScheduleStep == ASSUME EInv, NEW j \in Jobs, Schedule(j) PROVE EInv'
  <1>1. queue' \in Seq(Keys) /\ \A i \in DOMAIN queue : i \in DOMAIN queue' /\ queue'[i] = queue[i]
    BY Constants, Appended DEF Schedule, Accept, EInv, RequestTypeOK
  <1>2. RequestTypeOK' /\ Claims'
    BY <1>1, Constants DEF Schedule, Accept, EInv, RequestTypeOK, Claims, HasJob, Chatting, Job
  <1>3. Begins' /\ Ingested' /\ BusyNeverRuns' /\ CancelReachesChat'
    BY Constants DEF Schedule, Accept, EInv, RequestTypeOK, Begins, Ingested, BusyNeverRuns,
                     CancelReachesChat, HasJob, Job, At
  <1> QED BY <1>2, <1>3 DEF EInv

\* The status of one receipt is replaced.
LEMMA Marked ==
    ASSUME receipt \in [Updates -> Receipt], NEW u \in Updates,
           NEW status \in {"PENDING", "QUEUED", "BUSY", "INTERRUPTED", "COMPLETE"},
           receipt' = [receipt EXCEPT ![u].status = status]
    PROVE  /\ receipt' \in [Updates -> Receipt]
           /\ receipt'[u].status = status /\ receipt'[u].body = receipt[u].body
           /\ \A v \in Updates : v # u => receipt'[v] = receipt[v]
  <1>1. [receipt[u] EXCEPT !.status = status] \in Receipt
    BY Records
  <1>2. receipt' = [receipt EXCEPT ![u] = [receipt[u] EXCEPT !.status = status]]
    OBVIOUS
  <1>3. receipt[u] \in Receipt OBVIOUS
  <1> QED BY <1>1, <1>2, <1>3 DEF Receipt

LEMMA ReceiveStep == ASSUME EInv, ReceiveUpdate PROVE EInv'
  <1> USE DEF EInv
  <1> PICK p \in wire : ReceiveUpdate!2!(p)
    BY DEF ReceiveUpdate
  <1>1. p.update \in Updates /\ p.body \in SUBSET Files
    BY DEF RequestTypeOK
  <1>2. UNCHANGED <<request, queue, expired, result, paused, session, cancelled, worker, begun, restarts>>
    BY DEF ReceiveUpdate
  <1>3. Claims' /\ Begins' /\ CancelReachesChat'
    BY <1>2 DEF Claims, Begins, CancelReachesChat, HasJob, Chatting, Job, At
  <1>4. CASE BodyConflict(p.update, p.body)
    <2>1. RequestTypeOK'
      BY <1>1, <1>2, <1>4 DEF RequestTypeOK
    <2>2. Ingested' /\ BusyNeverRuns'
      BY <1>1, <1>2, <1>4 DEF RequestTypeOK, Ingested, BusyNeverRuns
    <2> QED BY <1>3, <2>1, <2>2
  <1>5. CASE ~BodyConflict(p.update, p.body)
    <2>1. ingress' \in Reading /\ ingress'.at = "received" /\ ingress'.update = p.update
      BY <1>1, <1>5 DEF Reading
    <2>2. [status |-> "PENDING", body |-> p.body] \in Receipt
      BY <1>1 DEF Receipt
    <2>3. receipt' \in [Updates -> Receipt]
      BY <1>1, <1>5, <2>2 DEF RequestTypeOK
    <2>4. \A u \in Updates : IF u = p.update /\ receipt[u].status = "none"
                             THEN receipt'[u].status = "PENDING" ELSE receipt'[u] = receipt[u]
      BY <1>1, <1>5 DEF RequestTypeOK
    <2>5. RequestTypeOK'
      BY <1>1, <1>2, <1>5, <2>1, <2>3 DEF RequestTypeOK
    <2>6. Ingested' /\ BusyNeverRuns'
      BY <1>1, <1>2, <1>5, <2>1, <2>4 DEF Ingested, BusyNeverRuns
    <2> QED BY <1>3, <2>5, <2>6
  <1> QED BY <1>4, <1>5

LEMMA RejectStep == ASSUME EInv, RejectUpdate PROVE EInv'
  <1> USE DEF EInv
  <1> DEFINE u == ingress.update
  <1>1. u \in Updates /\ receipt[u].status # "none"
    BY DEF RejectUpdate, Ingested
  <1>2. ingress' \in Reading /\ ingress'.at = "idle"
    BY Records DEF RejectUpdate, NoIngress
  <1>3. UNCHANGED <<request, queue, expired, result, paused, session, cancelled, worker, wire, begun,
                    restarts>>
    BY DEF RejectUpdate
  <1>4. Claims' /\ Begins' /\ CancelReachesChat'
    BY <1>3 DEF Claims, Begins, CancelReachesChat, HasJob, Chatting, Job, At
  <1>5. reply' = [reply EXCEPT ![u] = "rejected"]
    BY DEF RejectUpdate
  <1>6. /\ receipt' \in [Updates -> Receipt]
        /\ \A v \in Updates : receipt'[v] = receipt[v] \/ (v = u /\ receipt'[v].status # "none")
        /\ receipt'[u].status = "BUSY" => request[u] = "none"
    <2>1. CASE UNCHANGED receipt
      BY <1>1, <2>1 DEF RequestTypeOK, BusyNeverRuns
    <2>2. CASE TurnedAway(u) /\ receipt' = [receipt EXCEPT ![u].status = "BUSY"]
      BY <1>1, <2>2, Marked DEF RequestTypeOK, TurnedAway, BusyNeverRuns
    <2> QED BY <2>1, <2>2 DEF RejectUpdate
  <1>7. RequestTypeOK'
    BY <1>1, <1>2, <1>3, <1>5, <1>6 DEF RequestTypeOK
  <1>8. Ingested' /\ BusyNeverRuns'
    BY <1>1, <1>2, <1>3, <1>5, <1>6 DEF RequestTypeOK, Ingested, BusyNeverRuns
  <1> QED BY <1>4, <1>7, <1>8

LEMMA AcceptStep == ASSUME EInv, AcceptUpdate PROVE EInv'
  <1> USE DEF EInv
  <1> DEFINE u == ingress.update
  <1>1. u \in Updates /\ u \in Keys /\ receipt[u].status \notin {"none", "BUSY"}
    BY Constants DEF AcceptUpdate, Ingested, TurnedAway
  <1>2. UNCHANGED <<receipt, expired, result, paused, session, cancelled, worker, wire, begun, restarts>>
    BY DEF AcceptUpdate
  <1>3. CASE request[u] = "none"
    <2>1. request' = [request EXCEPT ![u] = "ACCEPTED"] /\ queue' = Append(queue, u)
          /\ ingress' = [ingress EXCEPT !.at = "accepted"] /\ UNCHANGED reply
      BY <1>3 DEF AcceptUpdate, Accept
    <2>2. queue' \in Seq(Keys) /\ \A i \in DOMAIN queue : i \in DOMAIN queue' /\ queue'[i] = queue[i]
      BY <1>1, <2>1, Appended DEF RequestTypeOK
    <2>3. ingress' \in Reading /\ ingress'.at = "accepted" /\ ingress'.update = u
      BY <2>1 DEF RequestTypeOK, Reading
    <2>4. RequestTypeOK'
      BY <1>1, <1>2, <2>1, <2>2, <2>3 DEF RequestTypeOK
    <2>5. Claims' /\ CancelReachesChat'
      BY <1>1, <1>2, <1>3, <2>1, <2>2 DEF RequestTypeOK, Claims, HasJob, Chatting, Job, At, CancelReachesChat
    <2>6. Begins' /\ Ingested' /\ BusyNeverRuns'
      BY <1>1, <1>2, <1>3, <2>1, <2>3 DEF RequestTypeOK, Begins, Ingested, BusyNeverRuns, HasJob, Job
    <2> QED BY <2>4, <2>5, <2>6
  <1>4. CASE request[u] # "none"
    <2>1. reply' = [reply EXCEPT ![u] = "accepted"] /\ ingress' = NoIngress /\ UNCHANGED <<request, queue>>
      BY <1>4 DEF AcceptUpdate
    <2>2. ingress' \in Reading /\ ingress'.at = "idle"
      BY <2>1, Records DEF NoIngress
    <2>3. RequestTypeOK'
      BY <1>1, <1>2, <2>1, <2>2 DEF RequestTypeOK
    <2>4. Claims' /\ Begins' /\ CancelReachesChat'
      BY <1>2, <2>1 DEF Claims, Begins, CancelReachesChat, HasJob, Chatting, Job, At
    <2>5. Ingested' /\ BusyNeverRuns'
      BY <1>1, <1>2, <1>4, <2>1, <2>2 DEF RequestTypeOK, Ingested, BusyNeverRuns
    <2> QED BY <2>3, <2>4, <2>5
  <1> QED BY <1>3, <1>4

LEMMA QueuedStep == ASSUME EInv, MarkQueued PROVE EInv'
  <1> USE DEF EInv
  <1> DEFINE u == ingress.update
  <1>1. u \in Updates /\ request[u] # "none"
    BY DEF MarkQueued, Ingested
  <1>2. ingress' \in Reading /\ ingress'.at = "idle"
    BY Records DEF MarkQueued, NoIngress
  <1>3. UNCHANGED <<request, queue, expired, result, paused, session, cancelled, worker, wire, begun,
                    restarts>> /\ reply' = [reply EXCEPT ![u] = "accepted"]
    BY DEF MarkQueued
  <1>4. Claims' /\ Begins' /\ CancelReachesChat'
    BY <1>3 DEF Claims, Begins, CancelReachesChat, HasJob, Chatting, Job, At
  <1>5. receipt' \in [Updates -> Receipt] /\ receipt'[u].status = "QUEUED"
        /\ \A v \in Updates : v # u => receipt'[v] = receipt[v]
    BY <1>1, Marked DEF MarkQueued, RequestTypeOK
  <1>6. RequestTypeOK'
    BY <1>1, <1>2, <1>3, <1>5 DEF RequestTypeOK
  <1>7. Ingested' /\ BusyNeverRuns'
    BY <1>1, <1>2, <1>3, <1>5 DEF RequestTypeOK, Ingested, BusyNeverRuns
  <1> QED BY <1>4, <1>6, <1>7

\* The worker w is the only one whose record changes.
LEMMA OneErrand ==
    ASSUME worker \in [Workers -> Errand], NEW w \in Workers, NEW e \in Errand,
           worker' = [worker EXCEPT ![w] = e]
    PROVE  /\ worker' \in [Workers -> Errand] /\ worker'[w] = e
           /\ \A v \in Workers : v # w => worker'[v] = worker[v]
  OBVIOUS

LEMMA Going ==
    ASSUME worker \in [Workers -> Errand], NEW w \in Workers, NEW at \in Places, NEW outcome \in Results,
           Goes(w, at, outcome)
    PROVE  /\ worker' \in [Workers -> Errand]
           /\ worker'[w].at = at /\ worker'[w].outcome = outcome
           /\ worker'[w].job = worker[w].job /\ worker'[w].cancel = worker[w].cancel
           /\ \A v \in Workers : v # w => worker'[v] = worker[v]
  <1> DEFINE e == [worker[w] EXCEPT !.at = at, !.outcome = outcome]
  <1>1. worker' = [worker EXCEPT ![w] = e]
    BY DEF Goes
  <1>2. e \in Errand
    BY DEF Errand
  <1>3. e.at = at /\ e.outcome = outcome /\ e.job = worker[w].job /\ e.cancel = worker[w].cancel
    BY DEF Errand
  <1> QED BY <1>1, <1>2, <1>3, OneErrand

\* A request a worker has is no other worker's.
LEMMA OwnJob ==
    ASSUME EInv, NEW v \in Workers, NEW w \in Workers, HasJob(v), HasJob(w), Job(v) = Job(w)
    PROVE  v = w
  BY OneClass DEF EInv, Claims

LEMMA ReadStep == ASSUME EInv, NEW w \in Workers, ReadCandidates(w) PROVE EInv'
  <1> USE DEF EInv
  <1> DEFINE e == [Idle EXCEPT !.at = "read", !.seen = Candidates(w)]
  <1>1. Candidates(w) \subseteq Nat
    BY DEF Candidates, RequestTypeOK
  <1>2. e \in Errand /\ e.at = "read" /\ e.seen = Candidates(w)
    BY <1>1 DEF Errand, Idle, Places, Results
  <1>3. worker' = [worker EXCEPT ![w] = e] /\ UNCHANGED <<durable, wire, ingress, reply, begun, restarts>>
    BY DEF ReadCandidates
  <1>4. /\ worker' \in [Workers -> Errand] /\ worker'[w] = e
        /\ \A v \in Workers : v # w => worker'[v] = worker[v]
    BY <1>2, <1>3, OneErrand DEF RequestTypeOK
  <1> HIDE DEF e
  <1>5. RequestTypeOK' /\ Ingested' /\ BusyNeverRuns'
    BY <1>3, <1>4 DEF durable, RequestTypeOK, Ingested, BusyNeverRuns
  <1>6. Claims'
    BY <1>2, <1>3, <1>4 DEF durable, Claims, Candidates, HasJob, Chatting, Job
  <1>7. Begins' /\ CancelReachesChat'
    BY <1>2, <1>3, <1>4 DEF durable, Begins, CancelReachesChat, HasJob, Job, At
  <1> QED BY <1>5, <1>6, <1>7

LEMMA ClaimStep == ASSUME EInv, NEW w \in Workers, Claim(w) PROVE EInv'
  <1> USE DEF EInv
  <1>1. UNCHANGED <<receipt, queue, expired, result, paused, session, cancelled, wire, ingress, reply,
                    begun, restarts>>
    BY DEF Claim
  <1>2. CASE worker' = [worker EXCEPT ![w] = Idle] /\ UNCHANGED request
    <2>1. /\ worker' \in [Workers -> Errand] /\ worker'[w] = Idle
          /\ \A v \in Workers : v # w => worker'[v] = worker[v]
      BY <1>2, OneErrand, Records DEF RequestTypeOK
    <2>2. RequestTypeOK' /\ Ingested' /\ BusyNeverRuns'
      BY <1>1, <1>2, <2>1 DEF RequestTypeOK, Ingested, BusyNeverRuns
    <2>3. Claims' /\ Begins' /\ CancelReachesChat'
      BY <1>1, <1>2, <2>1 DEF Claims, Begins, CancelReachesChat, HasJob, Chatting, Job, At, Idle
    <2> QED BY <2>2, <2>3
  <1>3. ASSUME NEW i \in worker[w].seen, Claimable(queue[i]),
               request' = [request EXCEPT ![queue[i]] = "RUNNING"],
               worker' = [worker EXCEPT ![w] = [Idle EXCEPT !.at = "claimed", !.job = queue[i]]]
        PROVE  EInv'
    <2> DEFINE k == queue[i]
               e == [Idle EXCEPT !.at = "claimed", !.job = k]
    <2>1. k \in Keys /\ Takes(w, k) /\ request[k] = "ACCEPTED"
      <3>1. worker[w].at = "read" /\ i \in DOMAIN queue /\ Takes(w, queue[i])
        BY <1>3 DEF Claim, At, Claims
      <3> QED BY <1>3, <3>1 DEF Claimable, RequestTypeOK
    <2>2. e \in Errand /\ e.at = "claimed" /\ e.job = k /\ e.outcome = "none" /\ e.cancel = FALSE
      BY <2>1 DEF Errand, Idle, Places, Results
    <2>3. /\ worker' \in [Workers -> Errand] /\ worker'[w] = e
          /\ \A v \in Workers : v # w => worker'[v] = worker[v]
      BY <1>3, <2>2, OneErrand DEF RequestTypeOK
    <2>4. request' = [request EXCEPT ![k] = "RUNNING"]
      BY <1>3
    <2> HIDE DEF k, e
    <2>5. RequestTypeOK' /\ Ingested' /\ BusyNeverRuns'
      <3>1. RequestTypeOK'
        BY <1>1, <2>1, <2>3, <2>4 DEF RequestTypeOK
      <3>2. \A j \in Keys : request'[j] = IF j = k THEN "RUNNING" ELSE request[j]
        BY <2>1, <2>4 DEF RequestTypeOK
      <3>3. \A u \in Updates : u \in Keys
        BY Constants
      <3>4. Ingested'
        BY <1>1, <2>1, <3>2, <3>3 DEF Ingested
      <3>5. BusyNeverRuns'
        <4>1. BusyNeverRuns /\ receipt' = receipt /\ request[k] # "none"
          BY <1>1, <2>1
        <4> QED BY <3>2, <3>3, <4>1 DEF BusyNeverRuns
      <3> QED BY <3>1, <3>4, <3>5
    <2>6. Claims' /\ CancelReachesChat'
      <3>1. \A j \in Keys : request'[j] = IF j = k THEN "RUNNING" ELSE request[j]
        BY <2>1, <2>4 DEF RequestTypeOK
      <3>2. /\ \A v \in Workers : IF v = w THEN worker'[v] = e ELSE worker'[v] = worker[v]
            /\ e.at = "claimed" /\ e.job = k
        BY <2>2, <2>3
      <3>3. Claims'
        BY <1>1, <2>1, <3>1, <3>2 DEF Claims, HasJob, Chatting, Job
      <3>4. CancelReachesChat'
        BY <1>1, <3>2 DEF CancelReachesChat, Job, At
      <3> QED BY <3>3, <3>4
    <2>7. Begins'
      BY <1>1, <2>1, <2>2, <2>3, <2>4 DEF RequestTypeOK, Begins, HasJob, Job
    <2> QED BY <2>5, <2>6, <2>7
  <1>4. \/ worker' = [worker EXCEPT ![w] = Idle] /\ UNCHANGED request
        \/ \E i \in worker[w].seen :
            /\ Claimable(queue[i]) /\ request' = [request EXCEPT ![queue[i]] = "RUNNING"]
            /\ worker' = [worker EXCEPT ![w] = [Idle EXCEPT !.at = "claimed", !.job = queue[i]]]
    BY DEF Claim
  <1> QED BY <1>2, <1>3, <1>4

\* A worker goes on with the request it has, and nothing else of EInv changes.
LEMMA GoesOn ==
    ASSUME EInv, NEW w \in Workers, HasJob(w),
           worker' \in [Workers -> Errand], HasJob(w)', Job(w)' = Job(w),
           \A v \in Workers : v # w => worker'[v] = worker[v],
           Chatting(w)' => Command[Job(w)] = "chat",
           worker'[w].at # "claimed", worker'[w].outcome = "NAV_NOT_FINALIZED" => ~Trades(Job(w)),
           worker'[w].at = "calling" /\ Job(w) \in cancelled => worker'[w].cancel,
           paused' \in BOOLEAN, session' \in Nat,
           UNCHANGED <<receipt, request, queue, expired, result, cancelled, wire, ingress, reply, begun,
                       restarts>>
    PROVE  EInv'
  <1> USE DEF EInv
  <1>1. RequestTypeOK' /\ Ingested' /\ BusyNeverRuns'
    BY DEF RequestTypeOK, Ingested, BusyNeverRuns
  <1>2. Claims'
    BY DEF Claims, HasJob, Chatting, Job
  <1>3. Begins' /\ CancelReachesChat'
    BY DEF Begins, CancelReachesChat, HasJob, Job, At
  <1> QED BY <1>1, <1>2, <1>3

LEMMA GoesToDone ==
    ASSUME EInv, NEW w \in Workers, HasJob(w), NEW outcome \in Results, Goes(w, "done", outcome),
           outcome = "NAV_NOT_FINALIZED" => ~Trades(Job(w)), paused' \in BOOLEAN,
           session' \in Nat,
           UNCHANGED <<receipt, request, queue, expired, result, cancelled, wire, ingress, reply, begun,
                       restarts>>
    PROVE  EInv'
  <1>1. "done" \in Places /\ worker \in [Workers -> Errand]
    BY DEF Places, EInv, RequestTypeOK
  <1>2. /\ worker' \in [Workers -> Errand] /\ worker'[w].at = "done" /\ worker'[w].outcome = outcome
        /\ worker'[w].job = worker[w].job /\ \A v \in Workers : v # w => worker'[v] = worker[v]
    BY <1>1, Going
  <1>3. HasJob(w)' /\ ~Chatting(w)' /\ Job(w)' = Job(w)
    BY <1>2 DEF HasJob, Chatting, Job
  <1> QED BY <1>2, <1>3, GoesOn

LEMMA EndReviewStep == ASSUME EInv, NEW w \in Workers, EndReview(w) PROVE EInv'
  <1>1. PICK outcome \in {"REVIEWED", "FAILED"} : Goes(w, "done", outcome)
    BY DEF EndReview
  <1>2. outcome \in Results /\ "done" \in Places /\ HasJob(w)
    BY DEF Results, Places, EndReview, At, HasJob
  <1>3. paused' \in BOOLEAN /\ session' \in Nat
        /\ UNCHANGED <<receipt, request, queue, expired, result, session, cancelled, wire, ingress, reply,
                       begun, restarts>>
    BY DEF EInv, RequestTypeOK, EndReview
  <1> QED BY <1>1, <1>2, <1>3, GoesToDone

LEMMA RegisterStep == ASSUME EInv, NEW w \in Workers, RegisterChat(w) PROVE EInv'
  <1> DEFINE e == [worker[w] EXCEPT !.at = "calling", !.cancel = Job(w) \in cancelled]
  <1>1. worker' = [worker EXCEPT ![w] = e]
    BY DEF RegisterChat, EInv, RequestTypeOK
  <1>2. e \in Errand /\ e.at = "calling" /\ e.job = Job(w) /\ e.outcome = worker[w].outcome
        /\ e.cancel = (Job(w) \in cancelled)
    <2>1. worker[w] \in Errand /\ "calling" \in Places /\ (Job(w) \in cancelled) \in BOOLEAN
      BY DEF EInv, RequestTypeOK, Places
    <2> HIDE DEF Job
    <2> QED BY <2>1, Zenon DEF Errand, Job
  <1>3. /\ worker' \in [Workers -> Errand] /\ worker'[w] = e
        /\ \A v \in Workers : v # w => worker'[v] = worker[v]
    BY <1>1, <1>2, OneErrand DEF EInv, RequestTypeOK
  <1>4. HasJob(w) /\ Chatting(w)
    BY DEF RegisterChat, At, HasJob, Chatting
  <1> HIDE DEF e
  <1>5. HasJob(w)' /\ Job(w)' = Job(w) /\ Command[Job(w)] = "chat" /\ ~Trades(Job(w))
    BY <1>2, <1>3, <1>4 DEF HasJob, Job, EInv, Claims, Trades, Reviews, Protection
  <1>6. paused' \in BOOLEAN /\ session' \in Nat
        /\ UNCHANGED <<receipt, request, queue, expired, result, session, cancelled, wire, ingress, reply,
                       begun, restarts>>
    BY DEF RegisterChat, durable, EInv, RequestTypeOK
  <1>7. worker'[w].at = "calling" /\ (Job(w) \in cancelled => worker'[w].cancel)
    BY <1>2, <1>3
  <1> QED BY <1>3, <1>4, <1>5, <1>6, <1>7, GoesOn

LEMMA AnswerStep == ASSUME EInv, NEW w \in Workers, AnswerChat(w) PROVE EInv'
  <1>1. PICK to \in {"returned", "done"}, outcome \in {"FAILED", "none"} : Goes(w, to, outcome)
    BY DEF AnswerChat
  <1>2. outcome \in Results /\ to \in Places /\ HasJob(w) /\ Chatting(w)
    BY DEF Results, Places, AnswerChat, At, HasJob, Chatting
  <1>3. Command[Job(w)] = "chat" /\ ~Trades(Job(w)) /\ worker \in [Workers -> Errand]
    BY <1>2 DEF EInv, Claims, Trades, Reviews, Protection, RequestTypeOK
  <1>4. /\ worker' \in [Workers -> Errand] /\ worker'[w].at = to /\ worker'[w].job = worker[w].job
        /\ \A v \in Workers : v # w => worker'[v] = worker[v]
    BY <1>1, <1>2, <1>3, Going
  <1>5. HasJob(w)' /\ Job(w)' = Job(w)
    BY <1>4 DEF HasJob, Job
  <1>6. paused' \in BOOLEAN /\ session' \in Nat
        /\ UNCHANGED <<receipt, request, queue, expired, result, session, cancelled, wire, ingress, reply,
                       begun, restarts>>
    BY DEF AnswerChat, durable, EInv, RequestTypeOK
  <1> QED BY <1>2, <1>3, <1>4, <1>5, <1>6, GoesOn

LEMMA SaveStep == ASSUME EInv, NEW w \in Workers, SaveChat(w) PROVE EInv'
  <1>1. PICK outcome \in {"SESSION_CHANGED", "CHAT_CANCELLED", "CHAT_COMPLETE"} : Goes(w, "done", outcome)
    BY DEF SaveChat
  <1>2. outcome \in Results /\ "done" \in Places /\ HasJob(w)
    BY DEF Results, Places, SaveChat, At, HasJob
  <1>3. paused' \in BOOLEAN /\ session' \in Nat
        /\ UNCHANGED <<receipt, request, queue, expired, result, session, cancelled, wire, ingress, reply,
                       begun, restarts>>
    BY DEF EInv, RequestTypeOK, SaveChat
  <1> QED BY <1>1, <1>2, <1>3, GoesToDone

LEMMA TradeStep ==
    ASSUME EInv, NEW w \in Workers, At(w, "claimed"), Trades(Job(w)),
           NEW place \in {"reviewing", "done"}, NEW outcome \in {"none", "DONE", "FAILED"},
           Goes(w, place, outcome), begun' = [begun EXCEPT ![Job(w)] = @ + 1],
           UNCHANGED <<durable, wire, ingress, reply, restarts>>
    PROVE  EInv'
  <1> USE DEF EInv
  <1> DEFINE k == Job(w)
  <1>1. k \in Keys /\ request[k] = "RUNNING" /\ begun[k] = 0 /\ HasJob(w) /\ Command[k] # "chat"
    BY DEF Claims, Begins, HasJob, At, Trades, Reviews, Protection
  <1>2. worker \in [Workers -> Errand] /\ place \in Places /\ outcome \in Results
    BY DEF RequestTypeOK, Places, Results
  <1>3. /\ worker' \in [Workers -> Errand] /\ worker'[w].at = place /\ worker'[w].outcome = outcome
        /\ worker'[w].job = k /\ \A v \in Workers : v # w => worker'[v] = worker[v]
    BY <1>2, Going DEF Job
  <1>4. /\ begun' \in [Keys -> Nat] /\ begun'[k] = 1
        /\ \A j \in Keys : j # k => begun'[j] = begun[j]
    BY <1>1 DEF RequestTypeOK
  <1>5. RequestTypeOK' /\ Ingested' /\ BusyNeverRuns'
    BY <1>3, <1>4 DEF durable, RequestTypeOK, Ingested, BusyNeverRuns
  <1>6. Claims' /\ CancelReachesChat'
    BY <1>1, <1>3 DEF durable, Claims, CancelReachesChat, HasJob, Chatting, Job, At
  <1>7. Begins'
    <2>1. \A v \in Workers : v # w /\ HasJob(v) => Job(v) # k /\ Job(v) \in Keys
      BY <1>1, OwnJob DEF Claims
    <2>2. ASSUME NEW j \in Keys
          PROVE  /\ begun'[j] <= 1
                 /\ Trades(j) /\ request'[j] \in {"none", "ACCEPTED"} => begun'[j] = 0
                 /\ result'[j] = "NAV_NOT_FINALIZED" => ~Trades(j)
      BY <1>1, <1>4 DEF durable, Begins
    <2>3. ASSUME NEW v \in Workers
          PROVE  /\ worker'[v].at = "claimed" /\ Trades(Job(v)') => begun'[Job(v)'] = 0
                 /\ HasJob(v)' /\ worker'[v].outcome = "NAV_NOT_FINALIZED" => ~Trades(Job(v)')
      BY <1>3, <1>4, <2>1 DEF Begins, HasJob, Job
    <2> QED BY <2>2, <2>3 DEF Begins
  <1> QED BY <1>5, <1>6, <1>7

LEMMA CancelStep ==
    ASSUME EInv, NEW w \in Workers, At(w, "claimed"), Command[Job(w)] \in {"stop", "new"},
           NEW place \in {"done", "renewing"}, NEW outcome \in {"DONE", "none"},
           CancelChats([worker EXCEPT ![w].at = place, ![w].outcome = outcome]),
           UNCHANGED <<queue, expired, paused, session, wire, ingress, reply, begun, restarts>>
    PROVE  EInv'
  <1> USE DEF EInv
  <1> DEFINE ws == [worker EXCEPT ![w].at = place, ![w].outcome = outcome]
             chats == {k \in Updates : Command[k] = "chat" /\ request[k] \in {"ACCEPTED", "RUNNING"}}
             queued == {k \in chats : request[k] = "ACCEPTED"}
             calling == worker["chat"].at = "calling"
  <1>1. HasJob(w) /\ Job(w) \in Keys /\ request[Job(w)] = "RUNNING" /\ Command[Job(w)] # "chat"
        /\ w # "chat" /\ "chat" \in Workers /\ Takes(w, Job(w))
    BY ChatWorker DEF At, HasJob, Claims, Workers
  <1>2. /\ ws \in [Workers -> Errand] /\ ws[w].at = place /\ ws[w].outcome = outcome
        /\ ws[w].job = worker[w].job /\ ws[w].seen = worker[w].seen
        /\ \A v \in Workers : v # w => ws[v] = worker[v]
    <2> DEFINE e == [worker[w] EXCEPT !.at = place, !.outcome = outcome]
    <2>1. worker[w] \in Errand /\ place \in Places /\ outcome \in Results
      BY DEF RequestTypeOK, Places, Results
    <2>2. e \in Errand /\ e.at = place /\ e.outcome = outcome /\ e.job = worker[w].job
          /\ e.seen = worker[w].seen
      BY <2>1 DEF Errand
    <2>3. ws = [worker EXCEPT ![w] = e]
      OBVIOUS
    <2> HIDE DEF ws, e
    <2> QED BY <2>2, <2>3 DEF RequestTypeOK
  <1>3. worker' = [ws EXCEPT !["chat"].cancel = @ \/ calling]
    BY <1>1, <1>2 DEF CancelChats
  <1> HIDE DEF ws
  <1>4. /\ worker' \in [Workers -> Errand]
        /\ \A v \in Workers : /\ worker'[v].at = ws[v].at /\ worker'[v].job = ws[v].job
                              /\ worker'[v].outcome = ws[v].outcome /\ worker'[v].seen = ws[v].seen
        /\ worker'["chat"].cancel = (ws["chat"].cancel \/ calling)
    <2> DEFINE c == ws["chat"].cancel \/ calling
               e == [ws["chat"] EXCEPT !.cancel = c]
    <2>1. ws["chat"] \in Errand /\ c \in BOOLEAN
      BY <1>1, <1>2
    <2>2. worker' = [ws EXCEPT !["chat"] = e]
      BY <1>3
    <2>3. e \in Errand /\ e.at = ws["chat"].at /\ e.job = ws["chat"].job
          /\ e.outcome = ws["chat"].outcome /\ e.seen = ws["chat"].seen /\ e.cancel = c
      <3> HIDE DEF c
      <3> QED BY <2>1, Zenon DEF Errand
    <2> HIDE DEF e
    <2> QED BY <1>1, <1>2, <2>2, <2>3
  <1>5. /\ request' = [k \in Keys |-> IF k \in queued THEN "COMPLETE" ELSE request[k]]
        /\ result' = [k \in Keys |-> IF k \in queued THEN "CHAT_CANCELLED" ELSE result[k]]
        /\ receipt' = [u \in Updates |-> IF u \in queued THEN [receipt[u] EXCEPT !.status = "COMPLETE"]
                                         ELSE receipt[u]]
        /\ cancelled' = cancelled \cup chats
    BY DEF CancelChats
  <1>6. /\ receipt' \in [Updates -> Receipt]
        /\ \A u \in Updates : receipt'[u] = receipt[u] \/ receipt'[u].status = "COMPLETE"
    <2>1. ASSUME NEW u \in Updates
          PROVE  [receipt[u] EXCEPT !.status = "COMPLETE"] \in Receipt
                 /\ [receipt[u] EXCEPT !.status = "COMPLETE"].status = "COMPLETE"
      <3>1. receipt[u] \in Receipt BY DEF RequestTypeOK
      <3> QED BY <3>1 DEF Receipt
    <2> HIDE DEF queued
    <2> QED BY <1>5, <2>1 DEF RequestTypeOK
  <1>7. \A k \in Keys : IF k \in queued THEN request[k] = "ACCEPTED" /\ request'[k] = "COMPLETE"
                        ELSE request'[k] = request[k]
    BY <1>5
  <1>8. queued \subseteq Updates /\ chats \subseteq Keys /\ \A k \in queued : Command[k] = "chat"
    BY Constants
  <1>9. RequestTypeOK'
    <2>1. request' \in [Keys -> {"none", "ACCEPTED", "RUNNING", "COMPLETE", "INTERRUPTED",
                                 "RECOVERED_RESULT"}]
      BY <1>5 DEF RequestTypeOK
    <2>2. result' \in [Keys -> Results]
      BY <1>5 DEF RequestTypeOK, Results
    <2>3. cancelled' \subseteq Keys
      BY <1>5, <1>8 DEF RequestTypeOK
    <2> HIDE DEF queued, chats
    <2> QED BY <1>4, <1>6, <2>1, <2>2, <2>3 DEF RequestTypeOK
  <1>10. Ingested' /\ BusyNeverRuns'
    <2> HIDE DEF queued, chats
    <2>1. \A u \in Updates : u \in Keys
      BY Constants
    <2> QED BY <1>6, <1>7, <2>1 DEF Ingested, BusyNeverRuns
  <1>11. Claims'
    <2> HIDE DEF queued, chats
    <2>1. \A v \in Workers : /\ worker'[v].job = worker[v].job /\ worker'[v].seen = worker[v].seen
                             /\ worker'[v].at = IF v = w THEN place ELSE worker[v].at
      BY <1>2, <1>4
    <2> QED BY <1>1, <1>7, <2>1 DEF Claims, HasJob, Chatting, Job
  <1>12. Begins'
    <2>1. \A k \in Keys : result'[k] = result[k] \/ result'[k] = "CHAT_CANCELLED"
      BY <1>5
    <2> HIDE DEF queued, chats
    <2> QED BY <1>1, <1>2, <1>4, <1>7, <1>11, <2>1 DEF Begins, HasJob, Job
  <1>13. CancelReachesChat'
    <2>1. ASSUME NEW v \in Workers, At(v, "calling")', Job(v)' \in cancelled' PROVE worker'[v].cancel
      <3>1. v # w /\ worker[v].at = "calling" /\ Job(v)' = Job(v)
        BY <1>2, <1>4, <2>1 DEF At, Job
      <3>2. v = "chat"
        BY <3>1, ChatWorker DEF Claims, HasJob, Chatting
      <3> QED BY <1>4, <3>1, <3>2
    <2> QED BY <2>1 DEF CancelReachesChat
  <1> QED BY <1>9, <1>10, <1>11, <1>12, <1>13

LEMMA RenewStep == ASSUME EInv, NEW w \in Workers, RenewSession(w) PROVE EInv'
  <1>1. HasJob(w) /\ Goes(w, "done", "DONE") /\ "DONE" \in Results /\ session' \in Nat
    BY DEF RenewSession, At, HasJob, Results, EInv, RequestTypeOK
  <1>2. paused' \in BOOLEAN
        /\ UNCHANGED <<receipt, request, queue, expired, result, cancelled, wire, ingress, reply, begun,
                       restarts>>
    BY DEF RenewSession, EInv, RequestTypeOK
  <1> QED BY <1>1, <1>2, GoesToDone

LEMMA DispatchStep == ASSUME EInv, NEW w \in Workers, Dispatch(w) PROVE EInv'
  <1> DEFINE k == Job(w)
             Still == UNCHANGED <<receipt, request, queue, expired, result, session, cancelled, begun>>
             Quick == \E outcome \in {"EXPIRED", "PAUSED", "DONE", "REPORT_READY", "FAILED"} :
                        Goes(w, "done", outcome) /\ paused' \in BOOLEAN /\ Still
             Unfinal == Command[k] = "finalize_and_report" /\ Goes(w, "done", "NAV_NOT_FINALIZED")
                        /\ UNCHANGED <<durable, begun>>
  <1>1. HasJob(w) /\ Command[k] \in Commands /\ UNCHANGED <<wire, ingress, reply, restarts>>
    BY Constants DEF Dispatch, At, HasJob, EInv, Claims
  <1>2. paused \in BOOLEAN /\ session \in Nat
    BY DEF EInv, RequestTypeOK
  <1>3. \/ Quick
        \/ \E place \in {"reviewing", "done"}, outcome \in {"none", "DONE", "FAILED"} :
            Trades(k) /\ Goes(w, place, outcome) /\ begun' = [begun EXCEPT ![k] = @ + 1]
            /\ UNCHANGED durable
        \/ Command[k] = "chat" /\ worker' = [worker EXCEPT ![w].at = "chatting", ![w].session = session]
           /\ UNCHANGED <<durable, begun>>
        \/ \E place \in {"done", "renewing"}, outcome \in {"DONE", "none"} :
            /\ Command[k] \in {"stop", "new"}
            /\ CancelChats([worker EXCEPT ![w].at = place, ![w].outcome = outcome])
            /\ UNCHANGED <<queue, expired, paused, session, begun>>
        \/ Unfinal
    <2>1. ASSUME UNCHANGED <<durable, begun>> PROVE Still /\ paused' \in BOOLEAN
      BY <1>2, <2>1 DEF durable
    <2>2. ASSUME NEW outcome \in {"EXPIRED", "PAUSED", "DONE", "REPORT_READY", "FAILED", "NAV_NOT_FINALIZED"},
                 Goes(w, "done", outcome), UNCHANGED <<durable, begun>>,
                 outcome = "NAV_NOT_FINALIZED" => Command[k] = "finalize_and_report"
          PROVE  Quick \/ Unfinal
      BY <2>1, <2>2
    <2>3. CASE Late(k) /\ Goes(w, "done", "EXPIRED") /\ UNCHANGED <<durable, begun>>
      BY <2>2, <2>3
    <2>4. CASE Reviews(k) /\ paused /\ Goes(w, "done", "PAUSED") /\ UNCHANGED <<durable, begun>>
      BY <2>2, <2>4
    <2>5. CASE Reviews(k) /\ Goes(w, "reviewing", "none") /\ begun' = [begun EXCEPT ![k] = @ + 1]
               /\ UNCHANGED durable
      BY <2>5 DEF Trades
    <2>6. CASE Command[k] = "pause" /\ paused' = TRUE /\ Goes(w, "done", "DONE") /\ Still
      BY <2>6
    <2>7. CASE Command[k] = "finalize_and_report" /\ UNCHANGED <<durable, begun>>
               /\ \E r \in {"NAV_NOT_FINALIZED", "REPORT_READY"} : Goes(w, "done", r)
      BY <2>2, <2>7
    <2>8. CASE Protection(k) /\ begun' = [begun EXCEPT ![k] = @ + 1] /\ UNCHANGED durable
               /\ \E r \in {"DONE", "FAILED"} : Goes(w, "done", r)
      BY <2>8 DEF Trades
    <2>9. CASE UNCHANGED <<durable, begun>> /\ \E r \in {"DONE", "FAILED"} : Goes(w, "done", r)
      BY <2>2, <2>9
    <2> QED BY <2>3, <2>4, <2>5, <2>6, <2>7, <2>8, <2>9, Zenon DEF Dispatch
  <1>4. ASSUME NEW outcome \in {"EXPIRED", "PAUSED", "DONE", "REPORT_READY", "FAILED"},
               Goes(w, "done", outcome), paused' \in BOOLEAN, Still
        PROVE  EInv'
    <2>1. outcome \in Results /\ outcome # "NAV_NOT_FINALIZED"
      BY <1>4 DEF Results
    <2> QED BY <1>1, <1>2, <1>4, <2>1, GoesToDone
  <1>5. ASSUME NEW place \in {"reviewing", "done"}, NEW outcome \in {"none", "DONE", "FAILED"}, Trades(k),
               Goes(w, place, outcome), begun' = [begun EXCEPT ![k] = @ + 1], UNCHANGED durable
        PROVE  EInv'
    BY <1>1, <1>5, TradeStep DEF Dispatch
  <1>6. CASE Command[k] = "chat" /\ worker' = [worker EXCEPT ![w].at = "chatting", ![w].session = session]
             /\ UNCHANGED <<durable, begun>>
    <2> DEFINE e == [worker[w] EXCEPT !.at = "chatting", !.session = session]
    <2>1. worker[w] \in Errand /\ "chatting" \in Places
      BY DEF EInv, RequestTypeOK, Places
    <2>2. e \in Errand /\ e.at = "chatting" /\ e.job = k /\ e.outcome = worker[w].outcome
      BY <1>2, <2>1 DEF Errand, Job
    <2>3. worker' = [worker EXCEPT ![w] = e]
      BY <1>6
    <2>4. /\ worker' \in [Workers -> Errand] /\ worker'[w] = e
          /\ \A v \in Workers : v # w => worker'[v] = worker[v]
      BY <2>2, <2>3, OneErrand DEF EInv, RequestTypeOK
    <2> HIDE DEF e
    <2>5. HasJob(w)' /\ Job(w)' = k /\ ~Trades(k) /\ worker'[w].at = "chatting"
      BY <1>6, <2>2, <2>4 DEF HasJob, Job, Trades, Reviews, Protection
    <2> QED BY <1>1, <1>2, <1>6, <2>4, <2>5, GoesOn DEF durable
  <1>7. ASSUME NEW place \in {"done", "renewing"}, NEW outcome \in {"DONE", "none"},
               Command[k] \in {"stop", "new"},
               CancelChats([worker EXCEPT ![w].at = place, ![w].outcome = outcome]),
               UNCHANGED <<queue, expired, paused, session, begun>>
        PROVE  EInv'
    BY <1>1, <1>7, CancelStep DEF Dispatch
  <1>8. CASE Command[k] = "finalize_and_report" /\ Goes(w, "done", "NAV_NOT_FINALIZED")
             /\ UNCHANGED <<durable, begun>>
    <2>1. "NAV_NOT_FINALIZED" \in Results /\ ~Trades(k)
      BY <1>8 DEF Results, Trades, Reviews, Protection
    <2> QED BY <1>1, <1>2, <1>8, <2>1, GoesToDone DEF durable
  <1> QED BY <1>3, <1>4, <1>5, <1>6, <1>7, <1>8

LEMMA FinishStep == ASSUME EInv, NEW w \in Workers, Finish(w) PROVE EInv'
  <1> USE DEF EInv
  <1> DEFINE k == Job(w)
  <1>1. HasJob(w) /\ k \in Keys /\ request[k] = "RUNNING" /\ worker[w].outcome \in Results
    BY DEF Finish, At, HasJob, Claims, RequestTypeOK, Errand
  <1>2. UNCHANGED <<queue, expired, paused, session, cancelled, wire, ingress, reply, begun, restarts>>
        /\ request' = [request EXCEPT ![k] = "COMPLETE"]
    BY DEF Finish
  <1>3. /\ worker' \in [Workers -> Errand] /\ worker'[w] = Idle
        /\ \A v \in Workers : v # w => worker'[v] = worker[v]
    BY OneErrand, Records DEF Finish, RequestTypeOK
  <1>4. /\ receipt' \in [Updates -> Receipt]
        /\ \A u \in Updates : receipt'[u] = receipt[u] \/ receipt'[u].status = "COMPLETE"
    <2>1. CASE k \in Updates
      BY <2>1, Marked DEF Finish, RequestTypeOK
    <2>2. CASE k \notin Updates
      BY <2>2 DEF Finish, RequestTypeOK
    <2> QED BY <2>1, <2>2
  <1>5. PICK r \in Results : result' = [result EXCEPT ![k] = r] /\ (r = "NAV_NOT_FINALIZED" => ~Trades(k))
    <2>1. CASE k \in workflow
      BY <2>1 DEF Finish, Results
    <2>2. CASE k \notin workflow
      BY <1>1, <2>2 DEF Finish, Begins
    <2> QED BY <2>1, <2>2
  <1>6. \A v \in Workers : v # w /\ HasJob(v) => Job(v) # k
    BY <1>1, OwnJob
  <1>7. RequestTypeOK'
    BY <1>1, <1>2, <1>3, <1>4, <1>5 DEF RequestTypeOK
  <1>8. \A j \in Keys : /\ request'[j] = IF j = k THEN "COMPLETE" ELSE request[j]
                        /\ result'[j] = IF j = k THEN r ELSE result[j]
    BY <1>1, <1>2, <1>5 DEF RequestTypeOK
  <1>9. Ingested' /\ BusyNeverRuns'
    <2>1. \A u \in Updates : u \in Keys
      BY Constants
    <2> QED BY <1>1, <1>2, <1>4, <1>8, <2>1 DEF Ingested, BusyNeverRuns
  <1>10. Claims' /\ CancelReachesChat'
    <2>1. \A v \in Workers : IF v = w THEN worker'[v].at = "idle" ELSE worker'[v] = worker[v]
      BY <1>3 DEF Idle
    <2> HIDE DEF k
    <2>2. Claims'
      BY <1>2, <1>6, <1>8, <2>1 DEF Claims, HasJob, Chatting, Job
    <2>3. CancelReachesChat'
      BY <1>2, <2>1 DEF CancelReachesChat, Job, At
    <2> QED BY <2>2, <2>3
  <1>11. Begins'
    <2>1. \A v \in Workers : IF v = w THEN worker'[v].at = "idle" ELSE worker'[v] = worker[v]
      BY <1>3 DEF Idle
    <2> HIDE DEF k
    <2> QED BY <1>2, <1>5, <1>8, <2>1 DEF Begins, HasJob, Job
  <1> QED BY <1>7, <1>9, <1>10, <1>11

\* What _recover makes of a request: one it queues again is no trading request.
LEMMA Recovered ==
    ASSUME EInv, NEW k \in Keys
    PROVE  /\ RecoveredStatus(k) \in {"none", "ACCEPTED", "COMPLETE", "INTERRUPTED", "RECOVERED_RESULT"}
           /\ RecoveredStatus(k) = "none" <=> request[k] = "none"
           /\ RecoveredStatus(k) = "ACCEPTED" => request[k] = "ACCEPTED" \/ ~Trades(k)
  <1>1. request[k] \in {"none", "ACCEPTED", "RUNNING", "COMPLETE", "INTERRUPTED", "RECOVERED_RESULT"}
    BY DEF EInv, RequestTypeOK
  <1>2. Resumable(k) => ~Trades(k)
    BY DEF Resumable, Trades, Reviews, Protection
  <1> HIDE DEF Resumable
  <1> QED BY <1>1, <1>2 DEF RecoveredStatus

LEMMA RestartStep == ASSUME EInv, Restart PROVE EInv'
  <1> USE DEF EInv
  <1>1. /\ request' = [k \in Keys |-> RecoveredStatus(k)]
        /\ worker' = [w \in Workers |-> Idle] /\ ingress' = NoIngress /\ wire' = {}
        /\ restarts < MaxRestarts /\ restarts' = restarts + 1
        /\ UNCHANGED <<queue, expired, paused, session, cancelled, reply, begun>>
    BY DEF Restart
  <1>2. \A k \in Keys :
            /\ request'[k] \in {"none", "ACCEPTED", "COMPLETE", "INTERRUPTED", "RECOVERED_RESULT"}
            /\ request'[k] = "none" <=> request[k] = "none"
            /\ request'[k] = "ACCEPTED" => request[k] = "ACCEPTED" \/ ~Trades(k)
    BY <1>1, Recovered
  <1>3. /\ receipt' \in [Updates -> Receipt]
        /\ \A u \in Updates : receipt'[u] = receipt[u] \/ receipt'[u].status = "INTERRUPTED"
    <2>1. ASSUME NEW u \in Updates
          PROVE  [receipt[u] EXCEPT !.status = "INTERRUPTED"] \in Receipt
                 /\ [receipt[u] EXCEPT !.status = "INTERRUPTED"].status = "INTERRUPTED"
      <3>1. receipt[u] \in Receipt BY DEF RequestTypeOK
      <3> QED BY <3>1 DEF Receipt
    <2> QED BY <2>1 DEF Restart, RequestTypeOK
  <1>4. /\ result' \in [Keys -> Results]
        /\ \A k \in Keys : result'[k] = "NAV_NOT_FINALIZED" => result[k] = "NAV_NOT_FINALIZED"
    BY DEF Restart, RequestTypeOK, Results
  <1>5. RequestTypeOK'
    <2>1. restarts' \in 0..MaxRestarts
      BY <1>1, Constants DEF RequestTypeOK
    <2>2. request' \in [Keys -> {"none", "ACCEPTED", "RUNNING", "COMPLETE", "INTERRUPTED",
                                 "RECOVERED_RESULT"}]
      BY <1>1, <1>2
    <2>3. worker' \in [Workers -> Errand] /\ ingress' \in Reading
      BY <1>1, Records
    <2> QED BY <1>1, <1>3, <1>4, <2>1, <2>2, <2>3 DEF RequestTypeOK
  <1>6. Claims' /\ CancelReachesChat'
    BY <1>1 DEF Claims, CancelReachesChat, HasJob, Chatting, At, Idle
  <1>7. Begins'
    BY <1>1, <1>2, <1>4 DEF Begins, HasJob, Idle
  <1>8. Ingested' /\ BusyNeverRuns'
    <2>1. \A u \in Updates : u \in Keys
      BY Constants
    <2>2. ingress'.at = "idle"
      BY <1>1 DEF NoIngress
    <2> QED BY <1>1, <1>2, <1>3, <2>1, <2>2 DEF Ingested, BusyNeverRuns
  <1> QED BY <1>5, <1>6, <1>7, <1>8

LEMMA WorkStep == ASSUME EInv, NEW w \in Workers, Work(w) PROVE EInv'
  BY ReadStep, ClaimStep, DispatchStep, RenewStep, EndReviewStep, RegisterStep, AnswerStep, SaveStep, FinishStep
     DEF Work

LEMMA EngineStepOK == ASSUME EInv, EngineNext PROVE EInv'
  <1>1. ASSUME Ingest PROVE EInv'
    BY <1>1, ReceiveStep, RejectStep, AcceptStep, QueuedStep DEF Ingest
  <1> QED BY <1>1, LosePostStep, DeliverStep, RestartStep, ScheduleStep, RequeueStep, DeadlineStep, WorkStep
          DEF EngineNext

LEMMA PostStep ==
    ASSUME EInv, NEW u \in Updates, NEW fs \in SUBSET Files, Post(u, fs),
           UNCHANGED <<durable, worker, sender, ingress, arrived, begun, restarts>>
    PROVE  EInv'
  <1>1. RequestTypeOK'
    BY DEF Post, durable, EInv, RequestTypeOK
  <1>2. Claims' /\ Begins' /\ BusyNeverRuns' /\ CancelReachesChat'
    BY DEF durable, EInv, Claims, Begins, BusyNeverRuns, CancelReachesChat, HasJob, Chatting, Job, At
  <1>3. Ingested'
    BY DEF Post, durable, EInv, RequestTypeOK, Ingested
  <1> QED BY <1>1, <1>2, <1>3 DEF EInv

-----------------------------------------------------------------------------
(* What the engine's steps do to what GInv is about *)

\* A request stays; a receipt keeps its body, and gets it from a POST.
Effects ==
    /\ wire' \subseteq wire
    /\ \A k \in Keys : request[k] # "none" => request'[k] # "none"
    /\ \A u \in Updates :
        \/ receipt'[u].body = receipt[u].body /\ (receipt[u].status = "none" => receipt'[u].status = "none")
        \/ \E p \in wire : p.update = u /\ receipt'[u].body = p.body

\* A request is set to something.
LEMMA RequestSet ==
    ASSUME RequestTypeOK, NEW k \in Keys, NEW s, s # "none", request' = [request EXCEPT ![k] = s]
    PROVE  \A j \in Keys : request[j] # "none" => request'[j] # "none"
  BY DEF RequestTypeOK

LEMMA WorkEffects == ASSUME EInv, NEW w \in Workers, Work(w) PROVE Effects
  <1> USE DEF Effects, EInv
  <1>1. CASE UNCHANGED <<request, receipt, wire>>
    BY <1>1
  <1>2. CASE Claim(w)
    <2>1. UNCHANGED <<receipt, wire>>
      BY <1>2 DEF Claim
    <2>2. \A i \in worker[w].seen : worker[w].at = "read" => queue[i] \in Keys
      BY DEF Claims, RequestTypeOK
    <2> QED BY <1>2, <2>1, <2>2, RequestSet DEF Claim, At
  <1>3. CASE Finish(w)
    <2>1. Job(w) \in Keys
      BY <1>3 DEF Finish, At, HasJob, Claims
    <2>2. \A j \in Keys : request[j] # "none" => request'[j] # "none"
      BY <1>3, <2>1, RequestSet DEF Finish
    <2>3. \A u \in Updates : receipt'[u].body = receipt[u].body
                             /\ (receipt[u].status = "none" => u = Job(w) \/ receipt'[u].status = "none")
      BY <1>3, Marked DEF Finish, RequestTypeOK
    <2>4. Job(w) \in Updates => receipt[Job(w)].status # "none"
      BY <1>3 DEF Finish, At, HasJob, Claims, Ingested
    <2>5. wire' = wire
      BY <1>3 DEF Finish
    <2> QED BY <2>2, <2>3, <2>4, <2>5
  <1>4. ASSUME NEW ws, CancelChats(ws), UNCHANGED wire PROVE Effects
    <2>1. \A k \in Keys : request[k] # "none" => request'[k] # "none"
      BY <1>4 DEF CancelChats
    <2>2. \A u \in Updates : receipt'[u].body = receipt[u].body
                             /\ (receipt[u].status = "none" => receipt'[u].status = "none")
      <3>1. ASSUME NEW u \in Updates
            PROVE  /\ receipt'[u] = receipt[u]
                      \/ (request[u] = "ACCEPTED" /\ receipt'[u] = [receipt[u] EXCEPT !.status = "COMPLETE"])
                   /\ [receipt[u] EXCEPT !.status = "COMPLETE"].body = receipt[u].body
                   /\ request[u] = "ACCEPTED" => receipt[u].status # "none"
        <4>1. receipt[u] \in Receipt
          BY DEF RequestTypeOK
        <4>2. request[u] = "ACCEPTED" => receipt[u].status # "none"
          BY DEF Ingested
        <4>3. [receipt[u] EXCEPT !.status = "COMPLETE"].body = receipt[u].body
          BY <4>1 DEF Receipt
        <4>4. receipt'[u] = receipt[u]
              \/ (request[u] = "ACCEPTED" /\ receipt'[u] = [receipt[u] EXCEPT !.status = "COMPLETE"])
          BY <1>4 DEF CancelChats
        <4> QED BY <4>2, <4>3, <4>4
      <3> QED BY <3>1
    <2> QED BY <1>4, <2>1, <2>2
  <1>5. CASE Dispatch(w)
    <2>1. wire' = wire
      BY <1>5 DEF Dispatch
    <2>2. UNCHANGED <<request, receipt>> \/ \E ws : CancelChats(ws)
      BY <1>5 DEF Dispatch, durable
    <2> QED BY <1>1, <1>4, <2>1, <2>2
  <1>6. CASE ReadCandidates(w) \/ RegisterChat(w) \/ AnswerChat(w)
    BY <1>1, <1>6 DEF ReadCandidates, RegisterChat, AnswerChat, durable
  <1>7. CASE EndReview(w) \/ SaveChat(w) \/ RenewSession(w)
    BY <1>1, <1>7 DEF EndReview, SaveChat, RenewSession
  <1> QED BY <1>2, <1>3, <1>5, <1>6, <1>7 DEF Work

LEMMA EngineEffects == ASSUME EInv, EngineNext PROVE Effects
  <1> USE DEF Effects, EInv
  <1>1. CASE Deliver \/ LosePost \/ \E k \in Keys : DeadlinePasses(k)
    BY <1>1 DEF Deliver, TakeRow, SendRow, ConcludeRow, LosePost, DeadlinePasses, durable
  <1>2. ASSUME NEW j \in Jobs, Schedule(j) \/ Requeue(j) PROVE Effects
    <2>1. j \in Keys /\ request' = [request EXCEPT ![j] = "ACCEPTED"] /\ UNCHANGED <<receipt, wire>>
      BY <1>2, Constants DEF Schedule, Requeue, Accept
    <2> QED BY <2>1, RequestSet
  <1>3. CASE ReceiveUpdate
    <2>1. PICK p \in wire : ReceiveUpdate!2!(p)
      BY <1>3 DEF ReceiveUpdate
    <2>2. p.update \in Updates
      BY DEF RequestTypeOK
    <2>3. wire' \subseteq wire /\ request' = request
      BY <1>3, <2>1 DEF ReceiveUpdate
    <2>4. \A u \in Updates : receipt'[u] = receipt[u] \/ (u = p.update /\ receipt'[u].body = p.body)
      BY <2>1, <2>2 DEF RequestTypeOK
    <2> QED BY <2>3, <2>4
  <1>4. CASE RejectUpdate
    <2>1. ingress.update \in Updates /\ receipt[ingress.update].status # "none" /\ UNCHANGED <<request, wire>>
      BY <1>4 DEF RejectUpdate, Ingested
    <2>2. UNCHANGED receipt \/ receipt' = [receipt EXCEPT ![ingress.update].status = "BUSY"]
      BY <1>4 DEF RejectUpdate
    <2> QED BY <2>1, <2>2, Marked DEF RequestTypeOK
  <1>5. CASE AcceptUpdate
    <2>1. ingress.update \in Keys /\ UNCHANGED <<receipt, wire>>
      BY <1>5, Constants DEF AcceptUpdate, Ingested
    <2>2. UNCHANGED request \/ request' = [request EXCEPT ![ingress.update] = "ACCEPTED"]
      BY <1>5 DEF AcceptUpdate, Accept
    <2> QED BY <2>1, <2>2, RequestSet
  <1>6. CASE MarkQueued
    <2>1. ingress.update \in Updates /\ receipt[ingress.update].status # "none" /\ UNCHANGED <<request, wire>>
      BY <1>6 DEF MarkQueued, Ingested
    <2> QED BY <1>6, <2>1, Marked DEF MarkQueued, RequestTypeOK
  <1>7. CASE Restart
    <2>1. \A k \in Keys : request'[k] = RecoveredStatus(k)
      BY <1>7 DEF Restart
    <2>2. \A u \in Updates : receipt[u] \in Receipt
      BY DEF RequestTypeOK
    <2>3. \A u \in Updates : receipt'[u] = receipt[u]
              \/ (receipt[u].status = "PENDING" /\ receipt'[u].body = receipt[u].body)
      BY <1>7, <2>2 DEF Restart, Receipt
    <2> QED BY <1>7, <2>1, <2>3, Recovered DEF Restart
  <1>8. ASSUME NEW w \in Workers, Work(w) PROVE Effects
    BY <1>8, WorkEffects
  <1> QED BY <1>1, <1>2, <1>3, <1>4, <1>5, <1>6, <1>7, <1>8 DEF EngineNext, Ingest

LEMMA EngineGInv == ASSUME IInv, EngineNext, UNCHANGED gatewayVars PROVE GInv'
  <1> USE DEF IInv, GInv, gatewayVars
  <1>1. Effects /\ EInv'
    BY EngineEffects, EngineStepOK
  <1>2. \A u \in Updates : u \in Keys
    BY Constants
  <1>3. GatewayTypeOK'
    BY DEF GatewayTypeOK
  <1>4. Handled' /\ AcceptedIsQueued' /\ AttachmentNotLost'
    BY <1>1, <1>2 DEF Effects, Handled, AcceptedIsQueued, AttachmentNotLost
  <1>5. Bodies'
    BY <1>1 DEF Effects, Bodies
  <1> QED BY <1>3, <1>4, <1>5

-----------------------------------------------------------------------------
(* The gateway's steps *)

\* Only a POST concerns the engine.
LEMMA GatewayEInv == ASSUME IInv, GatewayNext PROVE EInv'
  <1>1. CASE PostToEngine
    <2>1. Me \in Updates /\ frozen[Me].body \in SUBSET Files
      BY <1>1 DEF PostToEngine, IInv, GInv, Handled, GatewayTypeOK, Me
    <2> QED BY <1>1, <2>1, PostStep DEF PostToEngine, IInv
  <1>2. CASE UNCHANGED queueVars
    BY <1>2, Elsewhere DEF queueVars, durable, engineVars, IInv
  <1> QED
    BY <1>1, <1>2 DEF GatewayNext, HandleUpdate, UserWrites, Poll, NextUpdate, StoreAttachment, Freeze,
       Rejected, Accepted, MarkConsumed, MarkRequestAccepted, HandlingFails, NoAnswer, CleanupExpired,
       GatewayRestart

Bound == [status: {"none", "pending", "accepted"}, body: SUBSET Files, selected: SUBSET Files]

LEMMA UsersAndPolls ==
    ASSUME IInv, UserWrites \/ Poll \/ NextUpdate \/ HandlingFails \/ CleanupExpired \/ GatewayRestart
    PROVE  GInv'
  <1> USE DEF IInv, GInv
  <1>1. UNCHANGED queueVars /\ UNCHANGED frozen
    BY DEF UserWrites, Poll, NextUpdate, HandlingFails, CleanupExpired, GatewayRestart, files
  <1>2. Bodies' /\ AcceptedIsQueued'
    BY <1>1 DEF queueVars, durable, Bodies, AcceptedIsQueued, BodyConflict
  <1>3. AttachmentNotLost'
    BY <1>1 DEF queueVars, durable, AttachmentNotLost, GatewayTypeOK, UserWrites, Poll, NextUpdate,
                HandlingFails, CleanupExpired, GatewayRestart, files
  <1>4. CASE UserWrites
    BY <1>1, <1>2, <1>3, <1>4 DEF UserWrites, GatewayTypeOK, Handled, queueVars, durable, files
  <1>5. CASE Poll
    <2> DEFINE from == IF offset > kept THEN offset ELSE kept
    <2>1. from \in kept..sent /\ from \in Nat /\ kept' = from /\ UNCHANGED <<sent, offset, handling, files, gatewayRestarts>>
          /\ batch' = [i \in 1..(sent - from + 1) |-> from + i - 1]
      BY <1>5 DEF Poll, GatewayTypeOK
    <2> HIDE DEF from
    <2>2. batch' \in Seq(Updates)
      <3>1. sent - from + 1 \in Nat /\ \A i \in 1..(sent - from + 1) : from + i - 1 \in kept..sent
        BY <2>1 DEF GatewayTypeOK
      <3>2. \A i \in 1..(sent - from + 1) : from + i - 1 \in Updates
        BY <3>1 DEF Handled
      <3> QED BY <2>1, <3>1, <3>2
    <2>3. Handled'
      BY <1>1, <2>1 DEF Handled, GatewayTypeOK, queueVars, durable
    <2> QED BY <1>1, <1>2, <1>3, <2>1, <2>2, <2>3 DEF GatewayTypeOK, files
  <1>6. CASE NextUpdate
    <2>1. Head(batch) \in Updates /\ Head(batch) \in Nat /\ Tail(batch) \in Seq(Updates)
      <3>1. batch \in Seq(Updates) /\ batch # <<>>
        BY <1>6 DEF NextUpdate, GatewayTypeOK
      <3>2. Head(batch) \in Updates /\ Tail(batch) \in Seq(Updates)
        BY <3>1
      <3> QED BY <3>2, Constants
    <2>2. Where(Head(batch)) \in {"store", "freeze"}
      BY DEF Where
    <2>3. handling'.at \in {"store", "freeze"} /\ handling'.update = Head(batch)
          /\ handling' \in [at: {"idle", "store", "freeze", "post", "wait", "consume", "consumed"}, update: Nat]
      BY <1>6, <2>1, <2>2 DEF NextUpdate
    <2> QED BY <1>1, <1>2, <1>3, <1>6, <2>1, <2>3 DEF NextUpdate, GatewayTypeOK, Handled, files
  <1>7. CASE HandlingFails
    <2>1. batch \in Seq(Updates) /\ <<>> \in Seq(Updates)
      BY DEF GatewayTypeOK
    <2>2. batch' \in Seq(Updates)
      BY <1>7, <2>1 DEF HandlingFails
    <2> QED BY <1>1, <1>2, <1>3, <1>7, <2>2 DEF HandlingFails, GatewayTypeOK, Handled, NotHandling, files
  <1>8. CASE CleanupExpired
    BY <1>1, <1>2, <1>3, <1>8 DEF CleanupExpired, GatewayTypeOK, Handled, queueVars, durable
  <1>9. CASE GatewayRestart
    BY <1>1, <1>2, <1>3, <1>9 DEF GatewayRestart, GatewayTypeOK, Handled, NotHandling, files
  <1> QED BY <1>4, <1>5, <1>6, <1>7, <1>8, <1>9

\* The update being handled goes on.
LEMMA Stepping ==
    ASSUME GatewayTypeOK, NEW to \in {"idle", "freeze", "post", "wait", "consume", "consumed"}, Step(to)
    PROVE  /\ handling' \in [at: {"idle", "store", "freeze", "post", "wait", "consume", "consumed"}, update: Nat]
           /\ handling'.at = to /\ (to # "idle" => handling'.update = handling.update)
  <1>1. CASE to = "idle"
    BY <1>1 DEF Step, NotHandling
  <1>2. CASE to # "idle"
    BY <1>2 DEF Step, GatewayTypeOK
  <1> QED BY <1>1, <1>2

LEMMA Handling ==
    ASSUME IInv, StoreAttachment \/ PostToEngine \/ Rejected \/ NoAnswer \/ Accepted
    PROVE  GInv'
  <1> USE DEF IInv, GInv
  <1>1. CASE StoreAttachment
    <2>1. PICK to \in {"idle", "freeze"} : Step(to)
      BY <1>1 DEF StoreAttachment
    <2>2. UNCHANGED <<queueVars, sent, kept, offset, batch, frozen, gatewayRestarts>> /\ Me \in Updates
      BY <1>1 DEF StoreAttachment, Handled, Me
    <2>3. file' \in [Files -> {"none", "pending", "consumed"}]
          /\ \A f \in Files : file'[f] = "consumed" => file[f] = "consumed"
      BY <1>1 DEF StoreAttachment, GatewayTypeOK
    <2>4. GatewayTypeOK' /\ Handled'
      BY <2>1, <2>2, <2>3, Stepping DEF GatewayTypeOK, Handled, Me
    <2>5. Bodies' /\ AcceptedIsQueued' /\ AttachmentNotLost'
      BY <2>2, <2>3 DEF queueVars, durable, Bodies, AcceptedIsQueued, AttachmentNotLost
    <2> QED BY <2>4, <2>5
  <1>2. CASE PostToEngine
    <2>1. UNCHANGED <<request, receipt, sent, kept, offset, batch, file, frozen, gatewayRestarts>>
          /\ Step("wait") /\ wire' = wire \cup {[update |-> Me, body |-> frozen[Me].body]}
          /\ Me \in Updates /\ frozen[Me].status # "none"
      BY <1>2 DEF PostToEngine, Post, durable, files, Handled, Me
    <2>2. GatewayTypeOK' /\ Handled'
      BY <2>1, Stepping DEF GatewayTypeOK, Handled, Me
    <2>3. Bodies' /\ AcceptedIsQueued' /\ AttachmentNotLost'
      BY <2>1 DEF Bodies, AcceptedIsQueued, AttachmentNotLost
    <2> QED BY <2>2, <2>3
  <1>3. CASE Rejected \/ NoAnswer \/ Accepted
    <2>1. UNCHANGED <<queueVars, sent, kept, offset, batch, file, frozen, gatewayRestarts>> /\ handling.at = "wait"
          /\ (Step("idle") \/ (Step("consume") /\ reply[Me] = "accepted"))
      BY <1>3 DEF Rejected, NoAnswer, Accepted, files
    <2>2. GatewayTypeOK'
      BY <2>1, Stepping DEF GatewayTypeOK
    <2>3. Handled'
      <3>1. Me \in Updates /\ frozen[Me].status # "none" /\ (reply[Me] = "accepted" => request[Me] # "none")
        BY <2>1 DEF Handled, EInv, Ingested, Me
      <3>2. UNCHANGED <<request, frozen, kept, sent>>
        BY <2>1 DEF queueVars, durable
      <3>3. CASE Step("idle")
        BY <3>2, <3>3, Stepping DEF Handled
      <3>4. CASE Step("consume") /\ reply[Me] = "accepted"
        BY <3>1, <3>2, <3>4, Stepping DEF Handled, Me
      <3> QED BY <2>1, <3>3, <3>4
    <2>4. Bodies' /\ AcceptedIsQueued' /\ AttachmentNotLost'
      BY <2>1 DEF queueVars, durable, Bodies, AcceptedIsQueued, AttachmentNotLost
    <2> QED BY <2>2, <2>3, <2>4
  <1> QED BY <1>1, <1>2, <1>3

\* Marking attachments consumed leaves no other state.
LEMMA Consuming ==
    ASSUME GatewayTypeOK, NEW fs \in SUBSET Files, file' = Consumed(fs)
    PROVE  /\ file' \in [Files -> {"none", "pending", "consumed"}]
           /\ \A f \in Files : file'[f] = "consumed" => file[f] = "consumed" \/ f \in fs
  BY DEF Consumed, GatewayTypeOK

LEMMA Freezing == ASSUME IInv, Freeze PROVE GInv'
  <1> USE DEF IInv, GInv
  <1> DEFINE r == Frozen(Me)
  <1>1. Me \in Updates /\ frozen[Me] \in Bound
    BY DEF Freeze, Handled, Me, GatewayTypeOK, Bound
  <1>2. r \in Bound /\ r.status # "none" /\ (r.status = "accepted" => frozen[Me].status = "accepted")
        /\ (frozen[Me].status # "none" => r = frozen[Me])
    <2>1. CASE frozen[Me].status # "none"
      BY <1>1, <2>1 DEF Frozen
    <2>2. CASE frozen[Me].status = "none"
      <3>1. Selected(Me) \in SUBSET Files /\ Body(Me) \in SUBSET Files
        BY DEF Selected, Body, PendingFiles
      <3> QED BY <2>2, <3>1 DEF Frozen, Bound
    <2> QED BY <2>1, <2>2
  <1>3. /\ frozen' = [frozen EXCEPT ![Me] = r]
        /\ UNCHANGED <<request, receipt, wire, sent, kept, offset, batch, gatewayRestarts>>
    BY DEF Freeze, queueVars, durable
  <1> HIDE DEF r
  <1>4. /\ frozen' \in [Updates -> Bound] /\ frozen'[Me] = r
        /\ \A u \in Updates : u # Me => frozen'[u] = frozen[u]
    BY <1>1, <1>2, <1>3 DEF GatewayTypeOK, Bound
  <1>5. Bodies'
    <2>1. \A p \in wire : p.update \in Updates
      BY DEF EInv, RequestTypeOK
    <2> QED BY <1>2, <1>3, <1>4, <2>1 DEF Bodies
  <1>6. AcceptedIsQueued'
    BY <1>1, <1>2, <1>3, <1>4 DEF AcceptedIsQueued
  <1>7. \A u \in Updates : request[u] # "none" => frozen'[u] = frozen[u]
    BY <1>2, <1>4 DEF EInv, Ingested, Bodies
  <1>8. CASE frozen[Me].status = "accepted"
    <2>1. file' = Consumed(Remaining(Me)) /\ Step("idle")
      BY <1>8 DEF Freeze
    <2>2. Remaining(Me) \in SUBSET Files /\ Remaining(Me) \subseteq frozen[Me].selected /\ request[Me] # "none"
      BY <1>1, <1>8 DEF Remaining, Bound, AcceptedIsQueued
    <2>3. GatewayTypeOK'
      BY <1>3, <1>4, <2>1, <2>2, Stepping, Consuming DEF GatewayTypeOK, Bound
    <2>4. Handled'
      BY <1>3, <2>1, Stepping DEF Handled
    <2>5. AttachmentNotLost'
      BY <1>1, <1>3, <1>7, <2>1, <2>2, Consuming DEF AttachmentNotLost
    <2> QED BY <1>5, <1>6, <2>3, <2>4, <2>5
  <1>9. CASE frozen[Me].status # "accepted"
    <2>1. file' = file /\ Step("post")
      BY <1>9 DEF Freeze
    <2>2. GatewayTypeOK'
      BY <1>3, <1>4, <2>1, Stepping DEF GatewayTypeOK, Bound
    <2>3. Handled'
      BY <1>1, <1>2, <1>3, <1>4, <2>1, Stepping DEF Handled, Me
    <2>4. AttachmentNotLost'
      BY <1>3, <1>7, <2>1 DEF AttachmentNotLost
    <2> QED BY <1>5, <1>6, <2>2, <2>3, <2>4
  <1> QED BY <1>8, <1>9

LEMMA Recording == ASSUME IInv, MarkConsumed \/ MarkRequestAccepted PROVE GInv'
  <1> USE DEF IInv, GInv
  <1>1. Me \in Updates /\ frozen[Me] \in Bound /\ frozen[Me].status # "none" /\ request[Me] # "none"
        /\ UNCHANGED <<request, receipt, wire, sent, kept, offset, batch, gatewayRestarts>>
    BY DEF MarkConsumed, MarkRequestAccepted, Handled, Me, GatewayTypeOK, Bound, queueVars, durable
  <1>2. CASE MarkConsumed
    <2>1. file' = Consumed(Remaining(Me)) /\ Step("consumed") /\ UNCHANGED frozen
      BY <1>2 DEF MarkConsumed
    <2>2. Remaining(Me) \in SUBSET Files /\ Remaining(Me) \subseteq frozen[Me].selected
      BY <1>1 DEF Remaining, Bound
    <2>3. GatewayTypeOK'
      BY <1>1, <2>1, <2>2, Stepping, Consuming DEF GatewayTypeOK
    <2>4. Handled'
      BY <1>1, <2>1, Stepping DEF Handled, Me
    <2>5. AttachmentNotLost'
      BY <1>1, <2>1, <2>2, Consuming DEF AttachmentNotLost
    <2>6. Bodies' /\ AcceptedIsQueued'
      BY <1>1, <2>1 DEF Bodies, AcceptedIsQueued
    <2> QED BY <2>3, <2>4, <2>5, <2>6
  <1>3. CASE MarkRequestAccepted
    <2> DEFINE r == [frozen[Me] EXCEPT !.status = "accepted"]
    <2>1. frozen' = [frozen EXCEPT ![Me] = r] /\ Step("idle") /\ UNCHANGED file
      BY <1>3 DEF MarkRequestAccepted
    <2>2. r \in Bound /\ r.status = "accepted" /\ r.body = frozen[Me].body /\ r.selected = frozen[Me].selected
      BY <1>1 DEF Bound
    <2> HIDE DEF r
    <2>3. /\ frozen' \in [Updates -> Bound] /\ frozen'[Me] = r
          /\ \A u \in Updates : u # Me => frozen'[u] = frozen[u]
      BY <1>1, <2>1, <2>2 DEF GatewayTypeOK, Bound
    <2>4. GatewayTypeOK'
      BY <1>1, <2>1, <2>3, Stepping DEF GatewayTypeOK, Bound
    <2>5. Handled' /\ AcceptedIsQueued'
      BY <1>1, <2>1, <2>2, <2>3, Stepping DEF Handled, AcceptedIsQueued
    <2>6. Bodies'
      <3>1. \A p \in wire : p.update \in Updates
        BY DEF EInv, RequestTypeOK
      <3> QED BY <1>1, <2>2, <2>3, <3>1 DEF Bodies
    <2>7. AttachmentNotLost'
      BY <1>1, <2>1, <2>2, <2>3 DEF AttachmentNotLost
    <2> QED BY <2>4, <2>5, <2>6, <2>7
  <1> QED BY <1>2, <1>3

-----------------------------------------------------------------------------
(* Theorems *)

LEMMA NextIInv == IInv /\ [TelegramNext]_vars => IInv'
  <1> SUFFICES ASSUME IInv, [TelegramNext]_vars PROVE IInv' OBVIOUS
  <1>1. CASE GatewayNext
    <2>1. GInv'
      BY <1>1, UsersAndPolls, Handling, Freezing, Recording DEF GatewayNext, HandleUpdate
    <2> QED BY <1>1, <2>1, GatewayEInv DEF IInv
  <1>2. CASE EngineNext /\ UNCHANGED gatewayVars
    BY <1>2, EngineGInv, EngineStepOK DEF IInv
  <1>3. CASE UNCHANGED vars
    <2>1. EInv'
      BY <1>3, Elsewhere DEF vars, queueVars, durable, engineVars, IInv
    <2>2. GInv'
      BY <1>3 DEF vars, queueVars, durable, gatewayVars, IInv, GInv, GatewayTypeOK, Handled, Bodies,
                  AcceptedIsQueued, AttachmentNotLost
    <2> QED BY <2>1, <2>2 DEF IInv
  <1> QED BY <1>1, <1>2, <1>3 DEF TelegramNext

LEMMA Invariance == TelegramSpec => []IInv
  BY InitIInv, NextIInv, PTL DEF TelegramSpec

\* A trading request begins at most once, whatever dies when.  (service.py: _recover)
THEOREM TradesOnce == TelegramSpec => []TradesAtMostOnce
  <1>1. IInv => TradesAtMostOnce
    BY DEF IInv, EInv, Begins, TradesAtMostOnce
  <1> QED BY <1>1, Invariance, PTL

\* An update told busy never runs, also when delivered again.  (service.py: receive_http)
THEOREM BusyHolds == TelegramSpec => []BusyNeverRuns
  <1>1. IInv => BusyNeverRuns
    BY DEF IInv, EInv
  <1> QED BY <1>1, Invariance, PTL

\* A cancellation reaches the chat whose model call is running.  (_cancel_chat, _dispatch)
THEOREM CancelHolds == TelegramSpec => []CancelReachesChat
  <1>1. IInv => CancelReachesChat
    BY DEF IInv, EInv
  <1> QED BY <1>1, Invariance, PTL

\* What the gateway recorded as accepted is in the engine's queue.  (handle_update)
THEOREM AcceptedHolds == TelegramSpec => []AcceptedIsQueued
  <1>1. IInv => AcceptedIsQueued
    BY DEF IInv, GInv
  <1> QED BY <1>1, Invariance, PTL

\* Every delivery of an update carries the body first received.  (freeze_request, receive)
THEOREM SameBody == TelegramSpec => []SameBodyAgain
  <1>1. IInv => SameBodyAgain
    BY DEF IInv, EInv, RequestTypeOK, GInv, Bodies, SameBodyAgain, BodyConflict
  <1> QED BY <1>1, Invariance, PTL

\* No attachment is consumed that no queued request carries or dropped.  (mark_consumed)
THEOREM AttachmentHolds == TelegramSpec => []AttachmentNotLost
  <1>1. IInv => AttachmentNotLost
    BY DEF IInv, GInv
  <1> QED BY <1>1, Invariance, PTL

\* A cancelled chat stays cancelled: a request leaves COMPLETE only by a retry of a
\* finalization, and a result is replaced only where the request was RUNNING.
LEMMA StepCancelled ==
    ASSUME EInv, EngineNext, NEW k \in Keys, result[k] = "CHAT_CANCELLED", request[k] = "COMPLETE"
    PROVE  request'[k] = "COMPLETE" /\ result'[k] = "CHAT_CANCELLED"
  <1> USE DEF EInv
  <1>1. CASE UNCHANGED <<request, result>>
    BY <1>1
  <1>2. CASE Deliver \/ LosePost \/ (\E j \in Keys : DeadlinePasses(j)) \/ ReceiveUpdate \/ RejectUpdate
             \/ MarkQueued
    BY <1>1, <1>2 DEF Deliver, TakeRow, SendRow, ConcludeRow, LosePost, DeadlinePasses, ReceiveUpdate,
                      RejectUpdate, MarkQueued, durable
  <1>3. CASE AcceptUpdate
    BY <1>3 DEF AcceptUpdate, Accept, RequestTypeOK
  <1>4. ASSUME NEW j \in Jobs, Schedule(j) \/ Requeue(j)
        PROVE  request'[k] = "COMPLETE" /\ result'[k] = "CHAT_CANCELLED"
    BY <1>4 DEF Schedule, Requeue, RetryDue, Accept, RequestTypeOK
  <1>5. CASE Restart
    BY <1>5 DEF Restart, RecoveredStatus
  <1>6. ASSUME NEW w \in Workers, Work(w)
        PROVE  request'[k] = "COMPLETE" /\ result'[k] = "CHAT_CANCELLED"
    <2>1. CASE ReadCandidates(w) \/ RegisterChat(w) \/ AnswerChat(w) \/ EndReview(w) \/ SaveChat(w)
               \/ RenewSession(w)
      BY <1>1, <2>1 DEF ReadCandidates, RegisterChat, AnswerChat, EndReview, SaveChat, RenewSession, durable
    <2>2. CASE Claim(w)
      BY <2>2 DEF Claim, Claimable, RequestTypeOK
    <2>3. CASE Finish(w)
      <3>1. Job(w) # k
        BY <2>3 DEF Finish, At, HasJob, Claims
      <3> QED BY <2>3, <3>1 DEF Finish, RequestTypeOK
    <2>4. ASSUME NEW ws, CancelChats(ws)
          PROVE  request'[k] = "COMPLETE" /\ result'[k] = "CHAT_CANCELLED"
      BY <2>4 DEF CancelChats
    <2>5. CASE Dispatch(w)
      <3>1. UNCHANGED <<request, result>> \/ \E ws : CancelChats(ws)
        BY <2>5 DEF Dispatch, durable
      <3> QED BY <1>1, <2>4, <3>1
    <2> QED BY <1>6, <2>1, <2>2, <2>3, <2>5 DEF Work
  <1> QED BY <1>2, <1>3, <1>4, <1>5, <1>6 DEF EngineNext, Ingest

\* A cancelled chat that never ran is not taken back.  (run_once)
THEOREM CancelledHolds == TelegramSpec => CancelledStaysDone
  <1> DEFINE Stays == \A k \in Keys : result[k] = "CHAT_CANCELLED" /\ request[k] = "COMPLETE"
                          => request'[k] = "COMPLETE" /\ result'[k] = "CHAT_CANCELLED"
  <1>1. IInv /\ [TelegramNext]_vars => [Stays]_vars
    <2> SUFFICES ASSUME IInv, [TelegramNext]_vars PROVE Stays
      OBVIOUS
    <2>1. CASE EngineNext
      BY <2>1, StepCancelled DEF IInv
    <2>2. CASE GatewayNext
      BY <2>2 DEF GatewayNext, HandleUpdate, UserWrites, Poll, NextUpdate, StoreAttachment, Freeze,
         PostToEngine, Rejected, Accepted, MarkConsumed, MarkRequestAccepted, HandlingFails, NoAnswer,
         CleanupExpired, GatewayRestart, queueVars, durable
    <2>3. CASE UNCHANGED vars
      BY <2>3 DEF vars, queueVars, durable
    <2> QED BY <2>1, <2>2, <2>3 DEF TelegramNext
  <1> HIDE DEF Stays
  <1>2. TelegramSpec => [][Stays]_vars
    BY <1>1, Invariance, PTL DEF TelegramSpec
  <1> QED BY <1>2 DEF Stays, CancelledStaysDone

-----------------------------------------------------------------------------
(* The outbox.  ArrivesInOrder rests on the row being sent being the only  *)
(* one in SENDING, with nothing before it that is still to be sent, and on *)
(* what is DELIVERED having arrived (InHand).                              *)

RowSet == [about: Keys, kind: RowKinds, state: RowStates]
Settled(i) == outbox[i].state \in {"DELIVERED", "BLOCKED"}

InHand ==
    /\ arrived \subseteq DOMAIN outbox
    /\ sender.at # "idle" => /\ sender.row \in DOMAIN outbox /\ outbox[sender.row].state = "SENDING"
                             /\ \A i \in 1..(sender.row - 1) : Settled(i)
    /\ sender.at = "acknowledged" => sender.row \in arrived
    /\ \A i \in DOMAIN outbox :
        /\ outbox[i].state = "SENDING" => sender.at # "idle" /\ i = sender.row
        /\ outbox[i].state = "DELIVERED" => i \in arrived

OInv == DeliveryTypeOK /\ InHand /\ ArrivesInOrder

LEMMA RowAt ==
    ASSUME OInv
    PROVE  /\ outbox \in Seq(RowSet) /\ Len(outbox) \in Nat /\ DOMAIN outbox = 1..Len(outbox)
           /\ IsFiniteSet(DOMAIN outbox)
           /\ \A i \in DOMAIN outbox : outbox[i] \in RowSet
  <1>1. outbox \in Seq(RowSet)
    BY DEF OInv, DeliveryTypeOK, RowSet
  <1>2. Len(outbox) \in Nat /\ DOMAIN outbox = 1..Len(outbox) /\ \A i \in DOMAIN outbox : outbox[i] \in RowSet
    BY <1>1
  <1>3. IsFiniteSet(1..Len(outbox))
    BY <1>2, FS_Interval
  <1> QED BY <1>1, <1>2, <1>3

\* Where nothing is queued, sent or delivered.
LEMMA OutboxStays ==
    ASSUME OInv, UNCHANGED <<outbox, sender, arrived>>, workflow' \subseteq Keys, history' \subseteq Keys
    PROVE  OInv'
  BY DEF OInv, DeliveryTypeOK, InHand, Settled, ArrivesInOrder

\* New rows wait behind the others.
LEMMA OutboxGrows ==
    ASSUME OInv, UNCHANGED <<sender, arrived>>, workflow' \subseteq Keys, history' \subseteq Keys,
           NEW rows \in Seq(RowSet), \A i \in DOMAIN rows : rows[i].state = "PENDING",
           outbox' = outbox \o rows
    PROVE  OInv'
  <1>1. /\ outbox' \in Seq(RowSet) /\ Len(outbox') = Len(outbox) + Len(rows) /\ Len(rows) \in Nat
        /\ \A i \in 1..Len(outbox') :
              IF i <= Len(outbox) THEN outbox'[i] = outbox[i]
              ELSE outbox'[i] = rows[i - Len(outbox)] /\ i - Len(outbox) \in DOMAIN rows
    BY RowAt
  <1>2. /\ \A i \in DOMAIN outbox : i \in DOMAIN outbox' /\ outbox'[i] = outbox[i] /\ i \in Nat
        /\ \A i \in DOMAIN outbox' : i \in DOMAIN outbox \/ outbox'[i].state = "PENDING"
    BY <1>1, RowAt
  <1>3. DeliveryTypeOK'
    BY <1>1 DEF OInv, DeliveryTypeOK, RowSet
  <1>4. ASSUME NEW j \in DOMAIN outbox, NEW i \in 1..(j - 1) PROVE i \in DOMAIN outbox
    BY RowAt, <1>4
  <1>5. InHand'
    BY <1>2, <1>4 DEF OInv, InHand, Settled
  <1>6. ArrivesInOrder'
    BY <1>2, <1>4 DEF OInv, InHand, ArrivesInOrder
  <1> QED BY <1>3, <1>5, <1>6 DEF OInv

LEMMA TakeRowStep == ASSUME OInv, TakeRow PROVE OInv'
  <1> DEFINE r == NextRow
  <1>1. r \in Pending /\ \A j \in Pending : r <= j
    <2>1. Pending # {} /\ Pending \subseteq DOMAIN outbox
      BY DEF TakeRow, Pending
    <2>2. IsFiniteSet(Pending)
      BY <2>1, RowAt, FS_Subset
    <2>3. Pending \subseteq Nat
      BY <2>1, RowAt
    <2>4. \E m \in Pending : \A j \in Pending : m <= j
      BY <2>1, <2>2, <2>3, Least
    <2> QED BY <2>4 DEF NextRow
  <1>2. /\ outbox' = [outbox EXCEPT ![r].state = "SENDING"] /\ sender' = [at |-> "sending", row |-> r]
        /\ sender.at = "idle" /\ UNCHANGED <<arrived, workflow, history>>
    BY DEF TakeRow
  <1> HIDE DEF r
  <1>3. r \in DOMAIN outbox /\ r \in Nat /\ outbox[r].state = "PENDING"
    BY <1>1, RowAt DEF Pending
  <1>4. /\ DOMAIN outbox' = DOMAIN outbox /\ outbox' \in Seq(RowSet) /\ outbox'[r].state = "SENDING"
        /\ \A i \in DOMAIN outbox : i # r => outbox'[i] = outbox[i]
    BY <1>2, <1>3, RowAt DEF RowSet, RowStates
  <1>5. DeliveryTypeOK'
    BY <1>2, <1>3, <1>4 DEF OInv, DeliveryTypeOK, RowSet
  <1>6. ASSUME NEW i \in 1..(r - 1) PROVE i \in DOMAIN outbox /\ i # r /\ Settled(i)
    <2>1. i \in DOMAIN outbox /\ i # r /\ ~(r <= i)
      BY <1>3, <1>6, RowAt
    <2>2. outbox[i].state \in RowStates /\ outbox[i].state # "PENDING" /\ outbox[i].state # "SENDING"
      BY <1>1, <1>2, <2>1, RowAt DEF Pending, RowSet, OInv, InHand
    <2> QED BY <2>1, <2>2 DEF RowStates, Settled
  <1>7. InHand'
    BY <1>2, <1>3, <1>4, <1>6 DEF OInv, InHand, Settled
  <1>8. ArrivesInOrder'
    <2>1. ASSUME NEW j \in arrived, NEW i \in 1..(j - 1) PROVE i \in DOMAIN outbox
      BY RowAt DEF OInv, InHand
    <2> QED BY <1>2, <1>3, <1>4, <2>1 DEF OInv, ArrivesInOrder
  <1> QED BY <1>5, <1>7, <1>8 DEF OInv

LEMMA SendRowStep == ASSUME OInv, SendRow PROVE OInv'
  <1>1. /\ sender.row \in DOMAIN outbox /\ sender.row \in Nat /\ sender.at = "sending"
        /\ UNCHANGED <<outbox, workflow, history>>
        /\ sender' = [sender EXCEPT !.at = sender'.at]
        /\ sender'.at \in {"acknowledged", "refused", "unconfirmed"} /\ sender'.row = sender.row
        /\ arrived' = arrived \/ arrived' = arrived \cup {sender.row}
        /\ sender'.at = "acknowledged" => sender.row \in arrived'
    BY DEF SendRow, durable, OInv, DeliveryTypeOK, InHand
  <1>2. DeliveryTypeOK'
    BY <1>1 DEF OInv, DeliveryTypeOK
  <1>3. InHand'
    BY <1>1 DEF OInv, InHand, Settled
  <1>4. ArrivesInOrder'
    <2>1. ASSUME NEW i \in 1..(sender.row - 1) PROVE i \in arrived \/ outbox[i].state = "BLOCKED"
      <3>1. i \in DOMAIN outbox
        BY <1>1, RowAt
      <3> QED BY <1>1, <3>1 DEF OInv, InHand, Settled
    <2> QED BY <1>1, <2>1 DEF OInv, ArrivesInOrder
  <1> QED BY <1>2, <1>3, <1>4 DEF OInv

LEMMA ConcludeRowStep == ASSUME OInv, ConcludeRow PROVE OInv'
  <1> DEFINE r == sender.row
             o == Outcome
  <1>1. /\ r \in DOMAIN outbox /\ outbox[r].state = "SENDING" /\ o \in {"DELIVERED", "BLOCKED", "PENDING"}
        /\ o = "DELIVERED" => r \in arrived
    BY DEF ConcludeRow, Outcome, OInv, InHand
  <1>2. /\ outbox' = [outbox EXCEPT ![r].state = o] /\ sender' = [at |-> "idle", row |-> 0]
        /\ UNCHANGED <<arrived, workflow, history>>
    BY DEF ConcludeRow
  <1> HIDE DEF r, o
  <1>3. /\ DOMAIN outbox' = DOMAIN outbox /\ outbox' \in Seq(RowSet) /\ outbox'[r].state = o
        /\ \A i \in DOMAIN outbox : i # r => outbox'[i] = outbox[i]
    BY <1>1, <1>2, RowAt DEF RowSet, RowStates
  <1>4. DeliveryTypeOK'
    BY <1>2, <1>3 DEF OInv, DeliveryTypeOK, RowSet
  <1>5. InHand'
    BY <1>1, <1>2, <1>3 DEF OInv, InHand, r
  <1>6. ArrivesInOrder'
    <2>1. ASSUME NEW j \in arrived, NEW i \in 1..(j - 1) PROVE i \in DOMAIN outbox /\ j \in DOMAIN outbox
      BY RowAt DEF OInv, InHand
    <2> QED BY <1>1, <1>2, <1>3, <2>1 DEF OInv, ArrivesInOrder
  <1> QED BY <1>4, <1>5, <1>6 DEF OInv

LEMMA RestartRows == ASSUME OInv, EInv, Restart PROVE OInv'
  <1>1. PICK order \in Orders(CutShort) : outbox' = SentAgain \o Notices(order)
    BY DEF Restart, RecoveredOutbox
  <1>2. sender' = [at |-> "idle", row |-> 0] /\ UNCHANGED <<arrived, workflow, history>>
    BY DEF Restart
  <1>3. /\ SentAgain \in Seq(RowSet) /\ Len(SentAgain) = Len(outbox)
        /\ \A i \in DOMAIN outbox :
              SentAgain[i].state = IF outbox[i].state = "SENDING" THEN "PENDING" ELSE outbox[i].state
    BY RowAt DEF SentAgain, RowSet, RowStates
  <1>4. /\ Notices(order) \in Seq(RowSet)
        /\ \A n \in DOMAIN Notices(order) : Notices(order)[n].state = "PENDING"
    <2>1. CutShort \subseteq DOMAIN queue /\ queue \in Seq(Keys)
      BY DEF CutShort, EInv, RequestTypeOK
    <2>2. Cardinality(CutShort) \in Nat
      <3>1. DOMAIN queue = 1..Len(queue) /\ Len(queue) \in Nat
        BY <2>1
      <3>2. IsFiniteSet(DOMAIN queue)
        BY <3>1, FS_Interval
      <3> QED BY <2>1, <3>2, FS_Subset, FS_CardinalityType
    <2>3. /\ DOMAIN order = 1..Cardinality(CutShort)
          /\ \A n \in DOMAIN order : queue[order[n]] \in Keys
      BY <2>1 DEF Orders
    <2>4. \A k \in Keys : Row(k, "notice") \in RowSet /\ Row(k, "notice").state = "PENDING"
      BY DEF Row, RowSet, RowKinds, RowStates
    <2> QED BY <2>2, <2>3, <2>4 DEF Notices
  <1>5. /\ outbox' \in Seq(RowSet) /\ Len(outbox') \in Nat /\ Len(outbox) <= Len(outbox')
        /\ \A i \in 1..Len(outbox') :
              IF i <= Len(outbox) THEN outbox'[i] = SentAgain[i]
              ELSE outbox'[i].state = "PENDING"
    <2> DEFINE a == SentAgain
               b == Notices(order)
    <2>1. a \in Seq(RowSet) /\ b \in Seq(RowSet) /\ Len(a) = Len(outbox) /\ Len(outbox) \in Nat
          /\ outbox' = a \o b /\ \A n \in DOMAIN b : b[n].state = "PENDING"
      BY <1>1, <1>3, <1>4, RowAt
    <2> HIDE DEF a, b
    <2>2. /\ outbox' \in Seq(RowSet) /\ Len(outbox') = Len(outbox) + Len(b) /\ Len(b) \in Nat
          /\ \A i \in 1..Len(outbox') :
                IF i <= Len(outbox) THEN outbox'[i] = a[i]
                ELSE outbox'[i] = b[i - Len(outbox)] /\ i - Len(outbox) \in DOMAIN b
      BY <2>1
    <2> QED BY <2>1, <2>2 DEF a
  <1>6. /\ \A i \in DOMAIN outbox : /\ i \in DOMAIN outbox'
                                    /\ outbox'[i].state = IF outbox[i].state = "SENDING" THEN "PENDING"
                                                          ELSE outbox[i].state
        /\ \A i \in DOMAIN outbox' : i \in DOMAIN outbox \/ outbox'[i].state = "PENDING"
    BY <1>3, <1>5, RowAt
  <1>7. DeliveryTypeOK'
    BY <1>2, <1>5 DEF OInv, DeliveryTypeOK, RowSet
  <1>8. InHand'
    BY <1>2, <1>6 DEF OInv, InHand
  <1>9. ArrivesInOrder'
    <2>1. ASSUME NEW j \in arrived, NEW i \in 1..(j - 1) PROVE i \in DOMAIN outbox
      BY RowAt DEF OInv, InHand
    <2> QED BY <1>2, <1>6, <2>1 DEF OInv, ArrivesInOrder
  <1> QED BY <1>7, <1>8, <1>9 DEF OInv

LEMMA Rows == \A k \in Keys, kind \in RowKinds : Row(k, kind) \in RowSet /\ Row(k, kind).state = "PENDING"
  BY DEF Row, RowSet, RowStates

\* At most two rows are queued at once: a review's outcome and its report, an answer and a report.
LEMMA WorkRows == ASSUME OInv, EInv, NEW w \in Workers, Work(w) PROVE OInv'
  <1>1. UNCHANGED <<sender, arrived>>
    BY DEF Work, ReadCandidates, Claim, Dispatch, RenewSession, EndReview, RegisterChat, AnswerChat,
           SaveChat, Finish
  <1>2. CASE UNCHANGED <<outbox, workflow>> /\ history' \in SUBSET Keys
    BY <1>1, <1>2, OutboxStays DEF OInv, DeliveryTypeOK
  <1>3. HasJob(w) => Job(w) \in Keys
    BY DEF EInv, Claims
  <1>4. workflow \subseteq Keys /\ history \subseteq Keys
    BY DEF OInv, DeliveryTypeOK
  <1>5. CASE ReadCandidates(w) \/ Claim(w) \/ RegisterChat(w) \/ AnswerChat(w)
    BY <1>2, <1>4, <1>5 DEF ReadCandidates, Claim, RegisterChat, AnswerChat, durable
  <1>6. CASE Dispatch(w) \/ RenewSession(w)
    BY <1>2, <1>4, <1>6 DEF Dispatch, RenewSession, durable
  <1>7. CASE SaveChat(w)
    BY <1>2, <1>3, <1>4, <1>7 DEF SaveChat, At, HasJob
  <1>8. CASE EndReview(w)
    <2>1. Job(w) \in Keys /\ history' = history
      BY <1>3, <1>8 DEF EndReview, At, HasJob
    <2>2. CASE UNCHANGED <<workflow, outbox>>
      BY <1>2, <1>4, <2>1, <2>2
    <2>3. CASE /\ workflow' = workflow \cup {Job(w)}
               /\ outbox' = outbox \o <<Row(Job(w), "outcome"), Row(Job(w), "report")>>
      <3> DEFINE rows == <<Row(Job(w), "outcome"), Row(Job(w), "report")>>
      <3>1. rows \in Seq(RowSet) /\ \A i \in DOMAIN rows : rows[i].state = "PENDING"
        BY <2>1, Rows DEF RowKinds
      <3> HIDE DEF rows
      <3>2. outbox' = outbox \o rows
        BY <2>3 DEF rows
      <3> QED BY <1>1, <1>4, <2>1, <2>3, <3>1, <3>2, OutboxGrows
    <2> QED BY <1>8, <2>2, <2>3 DEF EndReview
  <1>9. CASE Finish(w)
    <2> DEFINE answer == Row(Job(w), "answer")
               report == Row(Job(w), "report")
    <2>1. /\ answer \in RowSet /\ answer.state = "PENDING" /\ report \in RowSet /\ report.state = "PENDING"
          /\ UNCHANGED <<workflow, history>>
      BY <1>3, <1>9, Rows DEF Finish, At, HasJob, RowKinds
    <2>2. \/ outbox' = outbox
          \/ outbox' = Append(outbox, answer)
          \/ outbox' = Append(outbox, report)
          \/ outbox' = Append(Append(outbox, answer), report)
      BY <1>9 DEF Finish, WithRow
    <2> HIDE DEF answer, report
    <2>3. outbox \in Seq(RowSet) /\ workflow' \subseteq Keys /\ history' \subseteq Keys
      BY <1>4, <2>1, RowAt
    <2>4. CASE outbox' = outbox
      BY <1>1, <2>3, <2>4, OutboxStays
    <2>5. ASSUME NEW r \in RowSet, r.state = "PENDING", outbox' = Append(outbox, r) PROVE OInv'
      <3> DEFINE rows == <<r>>
      <3>1. rows \in Seq(RowSet) /\ \A i \in DOMAIN rows : rows[i].state = "PENDING"
        BY <2>5
      <3>2. outbox' = outbox \o rows
        BY <2>3, <2>5
      <3> HIDE DEF rows
      <3> QED BY <1>1, <2>3, <3>1, <3>2, OutboxGrows
    <2>6. CASE outbox' = Append(Append(outbox, answer), report)
      <3> DEFINE rows == <<answer, report>>
      <3>1. rows \in Seq(RowSet) /\ \A i \in DOMAIN rows : rows[i].state = "PENDING"
        BY <2>1
      <3>2. outbox' = outbox \o rows
        BY <2>1, <2>3, <2>6
      <3> HIDE DEF rows
      <3> QED BY <1>1, <2>3, <3>1, <3>2, OutboxGrows
    <2> QED BY <2>1, <2>2, <2>4, <2>5, <2>6
  <1> QED BY <1>5, <1>6, <1>7, <1>8, <1>9 DEF Work

LEMMA OutboxStep == OInv /\ IInv /\ [TelegramNext]_vars => OInv'
  <1> SUFFICES ASSUME OInv, IInv, [TelegramNext]_vars PROVE OInv' OBVIOUS
  <1>1. ASSUME UNCHANGED <<outbox, sender, arrived, workflow, history>> PROVE OInv'
    BY <1>1, OutboxStays DEF OInv, DeliveryTypeOK
  <1>2. CASE GatewayNext
    BY <1>1, <1>2 DEF GatewayNext, HandleUpdate, UserWrites, Poll, NextUpdate, StoreAttachment, Freeze,
       PostToEngine, Rejected, Accepted, MarkConsumed, MarkRequestAccepted, HandlingFails, NoAnswer,
       CleanupExpired, GatewayRestart, queueVars, durable
  <1>3. CASE UNCHANGED vars
    BY <1>1, <1>3 DEF vars, queueVars, durable
  <1>4. CASE EngineNext
    <2>1. CASE LosePost \/ Ingest \/ (\E j \in Jobs : Schedule(j) \/ Requeue(j))
               \/ (\E k \in Keys : DeadlinePasses(k))
      BY <1>1, <2>1 DEF LosePost, Ingest, ReceiveUpdate, RejectUpdate, AcceptUpdate, MarkQueued, Schedule,
         Requeue, DeadlinePasses, durable
    <2>2. CASE Deliver \/ Restart
      BY <2>2, TakeRowStep, SendRowStep, ConcludeRowStep, RestartRows DEF Deliver, IInv
    <2>3. ASSUME NEW w \in Workers, Work(w) PROVE OInv'
      BY <2>3, WorkRows DEF IInv
    <2> QED BY <1>4, <2>1, <2>2, <2>3 DEF EngineNext
  <1> QED BY <1>2, <1>3, <1>4 DEF TelegramNext

\* Rows first reach Telegram in the order they were queued, except a document blocked for
\* good, across losses of the answer and deaths of the process.  (outbox_once, _recover)
THEOREM ArriveOrdered == TelegramSpec => []ArrivesInOrder
  <1>1. TelegramInit => OInv
    BY DEF TelegramInit, QueueInit, OInv, DeliveryTypeOK, InHand, ArrivesInOrder
  <1>2. OInv => ArrivesInOrder
    BY DEF OInv
  <1> QED BY <1>1, <1>2, OutboxStep, Invariance, PTL DEF TelegramSpec
=============================================================================

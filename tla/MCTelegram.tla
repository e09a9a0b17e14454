----------------------------- MODULE MCTelegram -----------------------------
(***************************************************************************)
(* Small instances of the Telegram path. Each behaviour follows one        *)
(* scenario: which updates users send, which jobs are due, which process   *)
(* may die, and whether the outbox thread runs. The scenarios cover the    *)
(* cases that interact and keep those that do not apart.                   *)
(***************************************************************************)
EXTENDS TelegramGateway, TLC

CONSTANTS finalize, morning, collect, exit

VARIABLE scenario

MCUpdates == 1..8
MCFiles == {1, 2}
MCJobs == {finalize, morning, collect, exit}
MCCommand ==
    (1 :> "status") @@ (2 :> "chat") @@ (3 :> "chat") @@ (4 :> "stop")
    @@ (5 :> "chat") @@ (6 :> "new") @@ (7 :> "review") @@ (8 :> "pause")
    @@ (finalize :> "finalize_and_report") @@ (morning :> "full_review")
    @@ (collect :> "collect_disclosures") @@ (exit :> "time_limit_exit")

Case(first, last, due, late, dies, delivers) ==
    [first |-> first, last |-> last, due |-> due, late |-> late, dies |-> dies,
     delivers |-> delivers]

Scenarios ==
    {Case(1, 2, {}, {}, {"engine", "gateway"}, FALSE),  \* a file, and a file with a caption
     Case(3, 4, {}, {}, {}, FALSE),                     \* a chat, and a command that cancels it
     Case(3, 3, {}, {3}, {"engine"}, FALSE),
     Case(5, 6, {}, {}, {}, FALSE),                     \* a chat, and a new session
     Case(7, 7, {finalize}, {7, finalize}, {"engine"}, FALSE),
     Case(7, 8, {morning}, {}, {}, FALSE),              \* two reviews, and a pause
     Case(7, 7, {collect}, {collect}, {"gateway"}, FALSE),
     Case(8, 8, {exit}, {exit}, {"engine"}, FALSE),
     Case(7, 8, {}, {}, {}, TRUE),
     Case(8, 7, {finalize}, {finalize}, {"engine"}, TRUE)}

Allowed ==
    /\ sent' <= scenario.last
    /\ \A j \in Jobs : request'[j] /= "none" => j \in scenario.due
    /\ expired' \subseteq scenario.late
    /\ "engine" \notin scenario.dies => restarts' = 0
    /\ "gateway" \notin scenario.dies => gatewayRestarts' = 0
    /\ ~scenario.delivers => sender' = sender
    \* A review that raises does so after it has begun, which ends in the same.
    /\ \A w \in Workers : At(w, "claimed") /\ worker'[w].outcome = "FAILED" => ~Reviews(Job(w))

MCInit == TelegramInit /\ scenario \in Scenarios /\ kept = scenario.first
MCNext == TelegramNext /\ Allowed /\ UNCHANGED scenario

\* TelegramFairness for the steps the scenario allows.
MCFairness ==
    /\ \A w \in Workers : WF_vars(EngineStep(Work(w)))
    /\ WF_vars(EngineStep(Ingest))
    /\ WF_vars(scenario.delivers /\ EngineStep(Deliver))
    /\ SF_vars(scenario.delivers /\ EngineStep(SendRow /\ sender'.at = "acknowledged"))
    /\ WF_vars(EngineStep(\E k \in scenario.late : DeadlinePasses(k)))
    /\ WF_vars(EngineStep(\E j \in Jobs : Requeue(j)))

MCSpec == MCInit /\ [][MCNext]_<<vars, scenario>> /\ MCFairness

\* Where the outbox thread runs, whatever is queued is in the end delivered or blocked,
\* also when the process dies while it is being sent.  (outbox_once, _recover)
EveryRowSettles ==
    []<>(scenario.delivers => \A i \in DOMAIN outbox : outbox[i].state \in {"DELIVERED", "BLOCKED"})
=============================================================================

---------------------------- MODULE ReviewWorkflow ----------------------------
(***************************************************************************)
(* A review (Application._review) of one instrument: refresh, freeze what  *)
(* the model is to judge, ask it (CodexAdapter.run), check the answer      *)
(* against the sources again (validate_proposal), and send an entry        *)
(* through Executor.submit; beside it the monitor, the service's           *)
(* collection of disclosures and the operator. Evidence is collected under *)
(* collect_lock, but application.bundle is one field that every thread     *)
(* assigns.                                                                *)
(***************************************************************************)
EXTENDS Integers

CONSTANTS MaxEvidence,   \* bound: changes of the official evidence
          MaxVersion,    \* bound: changes of the account
          MaxReviews,    \* bound: reviews, which review_lock lets run one at a time
          MaxRetries, MaxRepairs   \* transient_retries, schema_repair_attempts

ASSUME ReviewAssumption ==
    {MaxEvidence, MaxVersion, MaxReviews, MaxRetries, MaxRepairs} \subseteq Nat

VARIABLES
    evidence,     \* the version of what the official sources say
    newest,       \* that of runtime.latest_bundle
    bundle,       \* that of application.bundle
    protecting,   \* the bundle the monitor was given and has not assigned yet
    collection,   \* who holds collect_lock, and what was collected
    held, working,   \* the strategy has the instrument, or another order for it
    version,      \* account_version
    paused,
    invalid,      \* the thesis has been marked for its exit
    circuit,      \* the model's quota is exhausted
    judged,       \* material_hash of the last complete review
    reviews, review

market == <<evidence, newest, bundle, protecting, collection>>
account == <<held, working, version, paused, invalid>>
model == <<circuit, judged>>
reviewVars == <<market, account, model, reviews, review>>

NoCollection == [by |-> "nobody", evidence |-> 0]
NoReview == [at |-> "idle", owned |-> FALSE, frozen |-> 0, version |-> 0, answered |-> 0, late |-> FALSE,
             retries |-> 0, repairs |-> 0, current |-> 0, intent |-> 0]

ReviewInit ==
    /\ evidence = 0 /\ newest = 0 /\ bundle = 0 /\ protecting = {} /\ collection = NoCollection
    /\ held \in BOOLEAN /\ working \in BOOLEAN /\ ~(held /\ working)
    /\ version = 0 /\ paused = FALSE /\ invalid = FALSE
    /\ circuit = FALSE /\ judged = {} /\ reviews = 0 /\ review = NoReview

To(place) == review' = [review EXCEPT !.at = place]
End == review' = NoReview
Changed == version < MaxVersion /\ version' = version + 1

----------------------------------------------------------------------------
(* The world, the monitor and the operator *)

Disclose ==
    /\ evidence < MaxEvidence /\ evidence' = evidence + 1
    /\ UNCHANGED <<newest, bundle, protecting, collection, account, model, reviews, review>>

\* Executions another thread books, an exit, an expired entry.
AccountMoves ==
    /\ Changed
    /\ \/ working /\ held' = TRUE /\ working' = FALSE /\ UNCHANGED invalid
       \/ working /\ working' = FALSE /\ UNCHANGED <<held, invalid>>
       \/ ~held /\ held' = TRUE /\ UNCHANGED <<working, invalid>>
       \/ held /\ held' = FALSE /\ invalid' = FALSE /\ UNCHANGED working
    /\ UNCHANGED <<market, paused, model, reviews, review>>

\* pause, resume; both are new versions of the account.
Pause ==
    /\ Changed /\ paused' = ~paused
    /\ UNCHANGED <<market, held, working, invalid, model, reviews, review>>

\* _publish of a protection refresh keeps the newest evidence; the monitor assigns what it
\* was given some time later.
MonitorRefresh ==
    /\ protecting = {} /\ protecting' = {newest}
    /\ UNCHANGED <<evidence, newest, bundle, collection, account, model, reviews, review>>

MonitorAssign ==
    /\ bundle' \in protecting /\ protecting' = {}
    /\ UNCHANGED <<evidence, newest, collection, account, model, reviews, review>>

QuotaResets ==
    /\ circuit /\ circuit' = FALSE
    /\ UNCHANGED <<market, account, judged, reviews, review>>

----------------------------------------------------------------------------
(* refresh, refresh_decision, collect_disclosures: under collect_lock *)

CollectBy(who) ==
    /\ collection = NoCollection /\ collection' = [by |-> who, evidence |-> evidence]
    /\ UNCHANGED <<evidence, newest, bundle, protecting>>

PublishBy(who) ==
    /\ collection.by = who /\ newest' = collection.evidence /\ collection' = NoCollection
    /\ UNCHANGED <<evidence, protecting>>

ServiceCollects ==
    /\ CollectBy("service") \/ (PublishBy("service") /\ UNCHANGED bundle)
    /\ UNCHANGED <<account, model, reviews, review>>

\* The reviewer's collection, which may fail, and the assignment of what it returned.
Gather(place, next) ==
    /\ review.at = place
    /\ \/ CollectBy("review") /\ UNCHANGED review
       \/ /\ PublishBy("review") /\ UNCHANGED bundle
          /\ review' = [review EXCEPT !.at = next, !.current = collection.evidence]
       \/ /\ collection.by = "review" /\ collection' = NoCollection /\ End
          /\ UNCHANGED <<evidence, newest, bundle, protecting>>
    /\ UNCHANGED <<account, model, reviews>>

Assign(place, next) ==
    /\ review.at = place /\ bundle' = review.current /\ To(next)
    /\ UNCHANGED <<evidence, newest, protecting, collection, account, model, reviews>>

\* protect and refresh_quotes: the newest bundle with new quotes.
RefreshQuotes(place, next) ==
    /\ review.at = place /\ bundle' = newest /\ To(next)
    /\ UNCHANGED <<evidence, newest, protecting, collection, account, model, reviews>>

----------------------------------------------------------------------------
(* _review, to the question *)

Begin ==
    /\ review.at = "idle" /\ reviews < MaxReviews /\ reviews' = reviews + 1 /\ To("refresh")
    /\ UNCHANGED <<market, account, model>>

\* holdings() and working() are two reads, so an entry that is filled between them is missed.
ReadHoldings ==
    /\ review.at = "holdings" /\ review' = [review EXCEPT !.at = "working", !.owned = held]
    /\ UNCHANGED <<market, account, model, reviews>>

ReadOrders ==
    /\ review.at = "working" /\ review' = [review EXCEPT !.at = "quotes", !.owned = @ \/ working]
    /\ UNCHANGED <<market, account, model, reviews>>

\* freeze_input.  No candidate, an unchanged plan, or a gate that fails ends the review.
Freeze ==
    /\ review.at = "freeze"
    /\ \/ End
       \/ /\ ~paused
          /\ ~(working /\ <<bundle, version>> \in judged)
          /\ review' = [review EXCEPT !.at = "ask", !.frozen = bundle, !.version = version]
    /\ UNCHANGED <<market, account, model, reviews>>

\* CodexCli.run: an open circuit is asked for once, before the attempts.
AskModel ==
    /\ review.at = "ask" /\ IF circuit THEN End ELSE To("attempt")
    /\ UNCHANGED <<market, account, model, reviews>>

\* What an attempt comes to: parse_attempt with classify_failure; FAILED stands for every end
\* that is not tried again.
Outcomes == {"SUCCESS", "TRANSIENT_FAILURE", "SCHEMA_INVALID", "QUOTA_EXHAUSTED", "FAILED"}

Retried(outcome) ==
    \/ outcome = "TRANSIENT_FAILURE" /\ review.retries < MaxRetries
    \/ outcome = "SCHEMA_INVALID" /\ review.repairs < MaxRepairs

\* The loop of run; the expiry may end it at any attempt.
Attempt ==
    /\ review.at = "attempt"
    /\ \E outcome \in Outcomes :
        /\ circuit' = (circuit \/ outcome = "QUOTA_EXHAUSTED")
        /\ \/ /\ outcome = "SUCCESS"
              /\ review' = [review EXCEPT !.at = "answered", !.answered = evidence, !.retries = 0, !.repairs = 0]
           \/ /\ Retried(outcome)
              /\ review' = IF outcome = "SCHEMA_INVALID" THEN [review EXCEPT !.repairs = @ + 1]
                           ELSE [review EXCEPT !.retries = @ + 1]
           \/ outcome /= "SUCCESS" /\ ~Retried(outcome) /\ End
    /\ UNCHANGED <<market, account, judged, reviews>>

----------------------------------------------------------------------------
(* _review, from the answer *)

\* decision_max_age_seconds since the answer.
AnswerAges ==
    /\ review.at \in {"answered", "recheck", "validate", "judge", "protect", "plan", "pending", "intent",
                     "preflight", "arrive", "check", "reserve", "send"}
    /\ ~review.late
    /\ review' = [review EXCEPT !.late = TRUE]
    /\ UNCHANGED <<market, account, model, reviews>>

Answered ==
    /\ review.at = "answered" /\ IF paused THEN End ELSE To("recheck")
    /\ UNCHANGED <<market, account, model, reviews>>

\* Mutant: the evidence is compared with the bundle every thread assigns.
SameBundle == bundle = review.frozen

\* current_facts_hash, current_documents_hash: of what refresh_decision returned.
SameEvidence == review.current = review.frozen

\* validate_proposal.
Validate ==
    /\ review.at = "validate"
    /\ IF SameEvidence /\ ~review.late /\ version = review.version
         THEN bundle' = review.current /\ To("judge")
         ELSE End /\ UNCHANGED bundle
    /\ UNCHANGED <<evidence, newest, protecting, collection, account, model, reviews>>

\* EXIT_THESIS_INVALID marks the thesis of a position that was reviewed; protect then exits.
Judge ==
    /\ review.at = "judge" /\ To("protect")
    /\ invalid' \in {invalid, invalid \/ review.owned}
    /\ UNCHANGED <<market, held, working, version, paused, model, reviews>>

\* portfolio() reads the holdings, and then the orders.
PlanHoldings ==
    /\ review.at = "plan" /\ To(IF review.owned \/ held \/ paused THEN "complete" ELSE "pending")
    /\ UNCHANGED <<market, account, model, reviews>>

PlanPending ==
    /\ review.at = "pending" /\ To(IF working THEN "complete" ELSE "intent")
    /\ UNCHANGED <<market, account, model, reviews>>

MakeIntent ==
    /\ review.at = "intent" /\ review' = [review EXCEPT !.at = "preflight", !.intent = version]
    /\ UNCHANGED <<market, account, model, reviews>>

\* order_evidence_hash is compared with the shared bundle; size_entry is computed again.
OrderValid == ~review.late /\ bundle = review.frozen /\ ~held /\ ~working /\ ~paused

StateValid == ~paused /\ version = review.intent /\ ~review.late

\* _preflight, after its refresh.
Preflight ==
    /\ review.at = "check" /\ IF version = review.intent /\ OrderValid THEN To("reserve") ELSE End
    /\ UNCHANGED <<market, account, model, reviews>>

Reserve ==
    /\ review.at = "reserve" /\ IF StateValid THEN To("send") ELSE End
    /\ UNCHANGED <<market, account, model, reviews>>

\* Under the store's lock: the last checks, then the POST.
Send ==
    /\ review.at = "send" /\ Changed
    /\ IF OrderValid /\ StateValid THEN working' = TRUE /\ To("sent") ELSE UNCHANGED working /\ End
    /\ UNCHANGED <<market, held, paused, invalid, model, reviews>>

Complete ==
    /\ review.at \in {"complete", "sent"} /\ End
    /\ judged' = {<<review.frozen, review.version>>}
    /\ UNCHANGED <<market, account, circuit, reviews>>

\* A step that raises ends the review; what it has sent stays sent.
FailReview ==
    /\ review.at /= "idle" /\ collection.by /= "review" /\ End
    /\ UNCHANGED <<market, account, model, reviews>>

ReviewNext ==
    \/ Disclose \/ AccountMoves \/ Pause \/ MonitorRefresh \/ MonitorAssign \/ QuotaResets
    \/ ServiceCollects \/ Begin
    \/ Gather("refresh", "assign") \/ Assign("assign", "holdings")
    \/ ReadHoldings \/ ReadOrders \/ RefreshQuotes("quotes", "freeze") \/ Freeze \/ AskModel \/ Attempt
    \/ AnswerAges \/ Answered \/ Gather("recheck", "validate") \/ Validate \/ Judge
    \/ RefreshQuotes("protect", "plan") \/ PlanHoldings \/ PlanPending \/ MakeIntent
    \/ Gather("preflight", "arrive") \/ Assign("arrive", "check") \/ Preflight \/ Reserve \/ Send
    \/ Complete \/ FailReview

ReviewSpec == ReviewInit /\ [][ReviewNext]_reviewVars

----------------------------------------------------------------------------
(* Properties *)

\* The model's judgement is acted on, by an entry or by marking a thesis, only if it had seen
\* all evidence that was public when it answered; an entry is sent only while the strategy has
\* neither the instrument nor another order for it, is not paused and the answer is young.
\* Fills between two reads, pauses, and threads that put an older bundle back do not change
\* that.  (_review, validate_proposal, submit)
JudgementCurrent ==
    [][/\ review.at = "send" /\ review'.at = "sent" =>
            /\ review.frozen >= review.answered
            /\ ~held /\ ~working /\ ~paused /\ ~review.late
       /\ invalid' /\ ~invalid => review.frozen >= review.answered]_reviewVars
=============================================================================

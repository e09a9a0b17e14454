--------------------------- MODULE BrokerTransport ---------------------------
(***************************************************************************)
(* Requests to the broker (adapters/kis.py over                            *)
(* runtime.PriorityTransport): one account-wide queue with priorities,     *)
(* pacing and a cooldown, a token shared through a file lock, reads that   *)
(* are repeated, and orders that never are. What the adapter answers about *)
(* an order decides whether the executor takes it for unsent, sent, or of  *)
(* unknown fate.                                                           *)
(***************************************************************************)
EXTENDS Integers, Sequences, SequencesExt, FiniteSetsExt

CONSTANTS Calls,
          Kind,         \* "buy", "sell", "cancel", "account" or "bulk", for each call
          NoCall,
          MaxPages,     \* bound: pages of one read
          MaxLimits,    \* bound: refusals for the rate of requests
          MaxExpiries   \* bound: expiries of the token

ASSUME TransportAssumption ==
    /\ Kind \in [Calls -> {"buy", "sell", "cancel", "account", "bulk"}] /\ NoCall \notin Calls
    /\ {MaxPages, MaxLimits, MaxExpiries} \subseteq Nat

VARIABLES
    call,       \* where each call is
    queue,      \* calls waiting for their turn, in the order of their tickets
    inflight,   \* the call whose turn it is
    cooling,    \* now < cooldown_until
    rested,     \* now >= next_at
    limits,
    token,      \* "valid" or "expired", for a minute to come
    renewer,    \* the call that holds the lock of the token's file
    issued, expired,
    lapsed,     \* orders past their validity
    posted      \* how often each order was handed to the network

line == <<queue, inflight>>
pace == <<cooling, rested, limits>>
tokens == <<token, renewer, issued, expired>>
transportVars == <<call, line, pace, tokens, lapsed, posted>>

Order(c) == Kind[c] \in {"buy", "sell", "cancel"}

TransportInit ==
    /\ call = [c \in Calls |-> [at |-> "idle", phase |-> IF Kind[c] = "sell" THEN "post" ELSE "read",
                                pages |-> 0, rate |-> 1, tries |-> 0, result |-> "none"]]
    /\ queue = <<>> /\ inflight = NoCall
    /\ cooling = FALSE /\ rested = TRUE /\ limits = 0
    /\ token \in {"valid", "expired"} /\ renewer = NoCall /\ issued = 0
    /\ expired = IF token = "expired" THEN 1 ELSE 0
    /\ lapsed = {} /\ posted = [c \in Calls |-> 0]

At(c, place) == call' = [call EXCEPT ![c].at = place]
Ends(c, result) == call' = [call EXCEPT ![c].at = "done", ![c].result = result]

----------------------------------------------------------------------------
(* A request that failed *)

\* _request waits for the rate once in a read; _pages repeats a page at most twice.
Waits(c) == call[c].rate > 0
Repeats(c) == Kind[c] /= "buy" /\ call[c].tries < 2

\* An order's own read that fails leaves the order unsent.
ReadFails(c) ==
    Ends(c, IF Order(c) THEN "NOT_SENT" ELSE IF call[c].pages > 0 THEN "PARTIAL" ELSE "FETCH_FAILED")

\* A renewal that failed gives the token's lock back.
Again(c, next) ==
    call' = [call EXCEPT ![c] = [next EXCEPT !.at = "permit",
                                             !.phase = IF @ = "renew" THEN "read" ELSE @]]

\* The longest pauses are not waited for.
ReadLimited(c) ==
    \/ Waits(c) /\ Again(c, [call[c] EXCEPT !.rate = @ - 1])
    \/ ReadFails(c)

ReadTransient(c) ==
    \/ Repeats(c) /\ Again(c, [call[c] EXCEPT !.tries = @ + 1])
    \/ ~Repeats(c) /\ ReadFails(c)

GiveLock(c) == renewer' = IF renewer = c THEN NoCall ELSE renewer

\* The transport refused before it sent anything.
Unsent(c) ==
    /\ IF call[c].phase = "post" THEN Ends(c, "NOT_SENT") ELSE ReadFails(c)
    /\ GiveLock(c)

UnsentCooling(c) ==
    /\ IF call[c].phase = "post" THEN Ends(c, "NOT_SENT") ELSE ReadLimited(c)
    /\ GiveLock(c)

----------------------------------------------------------------------------
(* _request_once, KisTokenCache *)

Start(c) ==
    /\ call[c].at = "idle" /\ At(c, "permit")
    /\ UNCHANGED <<line, pace, tokens, lapsed, posted>>

\* A refusal by _permit raises; the executor takes an order's for an unknown fate.
Permit(c) ==
    /\ call[c].at = "permit"
    /\ \/ At(c, "token")
       \/ IF call[c].phase = "post" THEN Ends(c, "RAISED") ELSE ReadFails(c)
    /\ UNCHANGED <<line, pace, tokens, lapsed, posted>>

LockFree(c) == renewer = NoCall

\* Under the file's lock: a valid token is used, an expired one renewed, which no order waits for.
TakeToken(c) ==
    /\ call[c].at = "token"
    /\ \/ LockFree(c) /\ token = "valid" /\ At(c, "asked") /\ UNCHANGED renewer
       \/ /\ call[c].phase = "post" /\ (~LockFree(c) \/ token = "expired")
          /\ Ends(c, "NOT_SENT") /\ UNCHANGED renewer
       \/ /\ call[c].phase = "read" /\ LockFree(c) /\ token = "expired"
          /\ call' = [call EXCEPT ![c].at = "asked", ![c].phase = "renew"] /\ renewer' = c
    /\ UNCHANGED <<line, pace, token, issued, expired, lapsed, posted>>

----------------------------------------------------------------------------
(* PriorityTransport *)

Priority(c) == IF call[c].phase = "renew" \/ Kind[c] = "bulk" THEN 1 ELSE 0
Without(c) == SelectSeq(queue, LAMBDA d : d /= c)

\* The least ticket: priority, then order of arrival.
First(c) ==
    LET ahead == {i \in DOMAIN queue : Priority(queue[i]) <= Priority(c)}
        best == {i \in ahead : \A j \in DOMAIN queue : Priority(queue[i]) <= Priority(queue[j])}
    IN best /= {} /\ queue[Min(best)] = c

Ask(c) ==
    /\ call[c].at = "asked"
    /\ \/ cooling /\ UnsentCooling(c) /\ UNCHANGED queue
       \/ ~cooling /\ At(c, "queued") /\ queue' = Append(queue, c) /\ UNCHANGED renewer
    /\ UNCHANGED <<inflight, pace, token, issued, expired, lapsed, posted>>

\* The wait ends with a cooldown, or with the budget of the queue.
LeaveQueue(c) ==
    /\ call[c].at = "queued"
    /\ IF cooling THEN UnsentCooling(c) ELSE Unsent(c)
    /\ queue' = Without(c)
    /\ UNCHANGED <<inflight, pace, token, issued, expired, lapsed, posted>>

\* Mutant: a turn does not wait for the request that is out.
TurnInQueue(c) == ~cooling /\ rested /\ First(c)

Turn(c) == ~cooling /\ rested /\ inflight = NoCall /\ First(c)

TakeTurn(c) ==
    /\ call[c].at = "queued" /\ Turn(c) /\ At(c, "going")
    /\ queue' = Without(c) /\ inflight' = c
    /\ UNCHANGED <<pace, tokens, lapsed, posted>>

\* before_send asks for the permission again, and for the order's validity.
SendRequest(c) ==
    /\ call[c].at = "going"
    /\ \/ /\ call[c].phase = "post" => c \notin lapsed
          /\ At(c, "sent")
          /\ posted' = [posted EXCEPT ![c] = @ + IF call[c].phase = "post" THEN 1 ELSE 0]
          /\ UNCHANGED <<inflight, rested, renewer>>
       \/ /\ call[c].phase /= "renew"
          /\ Unsent(c) /\ inflight' = NoCall /\ rested' = FALSE /\ UNCHANGED posted
    /\ UNCHANGED <<queue, cooling, limits, token, issued, expired, lapsed>>

----------------------------------------------------------------------------
(* The answer, and what is made of it *)

\* Mutant: a refusal for the rate means that the order was not sent.
LimitedUnsent(answer) ==
    CASE answer = "ok"       -> {"ACKNOWLEDGED", "UNKNOWN"}
      [] answer = "rejected" -> {"REJECTED"}
      [] answer = "limited"  -> {"NOT_SENT"}
      [] answer = "unclear"  -> {"UNKNOWN"}
      [] answer = "refused"  -> {"RAISED"}
      [] answer = "more"     -> {}

\* _mutation.  "unclear": a lost or malformed answer, a server error, a rate refused by status.
OrderResult(answer) ==
    CASE answer = "ok"       -> {"ACKNOWLEDGED", "UNKNOWN"}
      [] answer = "rejected" -> {"REJECTED"}
      [] answer = "limited"  -> {"REJECTED", "UNKNOWN"}
      [] answer = "unclear"  -> {"UNKNOWN"}
      [] answer = "refused"  -> {"RAISED"}
      [] answer = "more"     -> {}

AnswerOrder(c, answer) ==
    /\ call[c].phase = "post"
    /\ \E result \in OrderResult(answer) : Ends(c, result)
    /\ UNCHANGED <<token, renewer, issued>>

\* The order's own read lets it go on to the POST, or shows that it is not possible.
AnswerRead(c, answer) ==
    /\ call[c].phase = "read"
    /\ \/ /\ answer = "ok"
          /\ IF Order(c)
               THEN \/ call' = [call EXCEPT ![c].at = "permit", ![c].phase = "post"]
                    \/ Ends(c, "NOT_SENT")
               ELSE Ends(c, "COMPLETE")
       \/ /\ answer = "more" /\ Kind[c] /= "buy"
          /\ IF call[c].pages + 1 < MaxPages
               THEN call' = [call EXCEPT ![c].at = "permit", ![c].pages = @ + 1, ![c].tries = 0]
               ELSE Ends(c, IF Order(c) THEN "NOT_SENT" ELSE "PARTIAL")
       \/ answer = "limited" /\ ReadLimited(c)
       \/ answer = "unclear" /\ ReadTransient(c)
       \/ answer \in {"rejected", "refused"} /\ ReadFails(c)
    /\ UNCHANGED <<token, renewer, issued>>

\* issue_token, and the file replaced before the lock is given back.
AnswerRenewal(c, answer) ==
    /\ call[c].phase = "renew" /\ renewer' = NoCall
    /\ \/ /\ answer = "ok" /\ token' = "valid" /\ issued' = issued + 1
          /\ call' = [call EXCEPT ![c].at = "asked", ![c].phase = "read"]
       \/ /\ UNCHANGED <<token, issued>>
          /\ \/ answer = "limited" /\ ReadLimited(c)
             \/ answer = "unclear" /\ ReadTransient(c)
             \/ answer \in {"rejected", "refused"} /\ ReadFails(c)

Answer(c, answer) ==
    /\ call[c].at = "sent"
    /\ answer = "limited" => limits < MaxLimits
    /\ AnswerOrder(c, answer) \/ AnswerRead(c, answer) \/ AnswerRenewal(c, answer)
    /\ cooling' = (cooling \/ answer = "limited")
    /\ limits' = limits + IF answer = "limited" THEN 1 ELSE 0
    /\ inflight' = IF inflight = c THEN NoCall ELSE inflight
    /\ rested' = FALSE
    /\ UNCHANGED <<queue, expired, lapsed, posted>>

----------------------------------------------------------------------------
(* Time *)

CooldownEnds ==
    /\ cooling /\ cooling' = FALSE
    /\ UNCHANGED <<call, line, rested, limits, tokens, lapsed, posted>>

Rest ==
    /\ ~rested /\ ~cooling /\ rested' = TRUE
    /\ UNCHANGED <<call, line, cooling, limits, tokens, lapsed, posted>>

TokenExpires ==
    /\ token = "valid" /\ expired < MaxExpiries /\ token' = "expired" /\ expired' = expired + 1
    /\ UNCHANGED <<call, line, pace, renewer, issued, lapsed, posted>>

OrderLapses(c) ==
    /\ Order(c) /\ Kind[c] /= "cancel" /\ c \notin lapsed /\ lapsed' = lapsed \cup {c}
    /\ UNCHANGED <<call, line, pace, tokens, posted>>

TransportNext ==
    \/ \E c \in Calls :
        \/ Start(c) \/ Permit(c) \/ TakeToken(c) \/ Ask(c) \/ LeaveQueue(c) \/ TakeTurn(c)
        \/ SendRequest(c) \/ OrderLapses(c)
        \/ \E answer \in {"ok", "more", "limited", "unclear", "rejected", "refused"} :
                Answer(c, answer)
    \/ CooldownEnds \/ Rest \/ TokenExpires

TransportSpec == TransportInit /\ [][TransportNext]_transportVars

----------------------------------------------------------------------------
(* Properties *)

\* What is said of an order is what happened to it: an order called NOT_SENT never reached
\* the network, one with any other answer did exactly once, whatever reads, renewals,
\* cooldowns and repetitions surrounded it.  (_mutation, OrderNotSent)
OutcomeHonest ==
    \A c \in Calls :
        /\ posted[c] <= 1
        /\ call[c].result = "NOT_SENT" => posted[c] = 0
        /\ call[c].result \in {"ACKNOWLEDGED", "REJECTED", "UNKNOWN"} => posted[c] = 1

\* Once the broker refused the rate, no request leaves before the cooldown ends, those that
\* already waited or had been permitted included.  (PriorityTransport.__call__)
CooldownRespected ==
    [][\A c \in Calls : call'[c].at = "sent" /\ call[c].at /= "sent" => ~cooling]_transportVars

\* An expiry of the token costs one renewal that is stored, however many calls meet it.
\* (KisTokenCache)
RenewedOnce == issued <= expired
=============================================================================

---------------------------- MODULE BrokerProofs ----------------------------
(***************************************************************************)
(* The broker's side of the runtime: the line of requests                  *)
(* (BrokerTransport), the shared readings of the account (SnapshotFlight)  *)
(* and the stream of quotes (QuoteStream), each by itself.                 *)
(***************************************************************************)
EXTENDS BrokerTransport, SnapshotFlight, QuoteStream, FiniteSums, TLAPS

----------------------------------------------------------------------------
(* BrokerTransport: OutcomeHonest rests on the only place an order is      *)
(* handed to the network and on every refusal coming before it or being    *)
(* told apart after it (Honest), CooldownRespected on one request being    *)
(* out at a time, so that no other can be refused between a turn and its   *)
(* sending (InLine), RenewedOnce on the file's lock being held for the     *)
(* whole renewal (Renewals).                                               *)

Places == {"idle", "permit", "token", "asked", "queued", "going", "sent", "done"}
Phases == {"read", "renew", "post"}
Outcomes == {"none", "NOT_SENT", "PARTIAL", "FETCH_FAILED", "COMPLETE", "RAISED",
             "ACKNOWLEDGED", "REJECTED", "UNKNOWN"}
CallRecord == [at : Places, phase : Phases, pages : Nat, rate : Nat, tries : Nat, result : Outcomes]

TransportTypeOK ==
    /\ call \in [Calls -> CallRecord] /\ posted \in [Calls -> Nat]
    /\ cooling \in BOOLEAN /\ inflight \in Calls \cup {NoCall}
    /\ token \in {"valid", "expired"} /\ renewer \in Calls \cup {NoCall}
    /\ issued \in Nat /\ expired \in Nat

\* Only the sending of a POST counts, and it is the last thing before the answer.
Honest ==
    \A c \in Calls :
        /\ call[c].at # "done" => call[c].result = "none"
        /\ call[c].at \notin {"sent", "done"} => posted[c] = 0
        /\ call[c].at = "sent" => posted[c] = IF call[c].phase = "post" THEN 1 ELSE 0
        /\ call[c].at = "done" =>
            /\ posted[c] <= 1
            /\ call[c].result = "NOT_SENT" => posted[c] = 0
            /\ call[c].result \in {"ACKNOWLEDGED", "REJECTED", "UNKNOWN"} => posted[c] = 1

\* The request whose turn it is is the only one out, and its turn began without a cooldown.
InLine ==
    \A c \in Calls :
        /\ call[c].at \in {"going", "sent"} => inflight = c
        /\ call[c].at = "going" => ~cooling

\* A renewal holds the lock until the new token is there.
Renewals ==
    /\ \A c \in Calls :
        call[c].phase = "renew" /\ call[c].at # "done" => renewer = c /\ token = "expired"
    /\ IF token = "expired" THEN issued < expired ELSE issued <= expired

IInv == TransportTypeOK /\ Honest /\ InLine /\ Renewals

LEMMA InitIInv == TransportInit => IInv
  <1> SUFFICES ASSUME TransportInit PROVE IInv OBVIOUS
  <1> USE TransportAssumption DEF TransportInit
  <1>1. TransportTypeOK
    BY DEF TransportTypeOK, CallRecord, Places, Phases, Outcomes
  <1>2. Honest /\ InLine /\ Renewals
    BY DEF Honest, InLine, Renewals
  <1> QED BY <1>1, <1>2 DEF IInv

\* A call's record replaced: the others keep theirs.
LEMMA OneCall ==
    ASSUME call \in [Calls -> CallRecord], NEW c \in Calls, NEW v \in CallRecord,
           call' = [call EXCEPT ![c] = v]
    PROVE  /\ call' \in [Calls -> CallRecord] /\ call'[c] = v
           /\ \A d \in Calls : d # c => call'[d] = call[d]
  OBVIOUS

LEMMA Moving ==
    ASSUME call \in [Calls -> CallRecord], NEW c \in Calls, NEW place \in Places, At(c, place)
    PROVE  call' \in [Calls -> CallRecord]
  <1>1. call[c] \in CallRecord OBVIOUS
  <1>2. [call[c] EXCEPT !.at = place] \in CallRecord BY <1>1, ZenonT(30) DEF CallRecord
  <1> QED BY <1>2 DEF At

Replies == {"ok", "more", "limited", "unclear", "rejected", "refused"}
Fallen == {"NOT_SENT", "PARTIAL", "FETCH_FAILED"}

\* A request that failed ends without an answer, or begins again; a renewal is given up.
GivesUp(c) ==
    \E v \in CallRecord :
        /\ call' = [call EXCEPT ![c] = v]
        /\ \/ v.at = "done" /\ v.phase = call[c].phase /\ v.result \in Fallen
           \/ /\ v.at = "permit" /\ v.result = call[c].result
              /\ v.phase = IF call[c].phase = "renew" THEN "read" ELSE call[c].phase

LEMMA EndingGivesUp ==
    ASSUME call \in [Calls -> CallRecord], NEW c \in Calls, NEW result \in Fallen, Ends(c, result)
    PROVE  GivesUp(c)
  <1> DEFINE v == [call[c] EXCEPT !.at = "done", !.result = result]
  <1>1. call[c] \in CallRecord OBVIOUS
  <1>2. /\ v \in CallRecord /\ v.at = "done" /\ v.phase = call[c].phase /\ v.result = result
    BY <1>1 DEF CallRecord, Places, Outcomes, Fallen
  <1>3. call' = [call EXCEPT ![c] = v] BY DEF Ends
  <1> QED BY <1>2, <1>3 DEF GivesUp

LEMMA BeginningAgainGivesUp ==
    ASSUME call \in [Calls -> CallRecord], NEW c \in Calls, NEW next \in CallRecord, Again(c, next),
           next.phase = call[c].phase, next.result = call[c].result
    PROVE  GivesUp(c)
  <1> DEFINE v == [next EXCEPT !.at = "permit", !.phase = IF @ = "renew" THEN "read" ELSE @]
  <1>1. /\ v \in CallRecord /\ v.at = "permit" /\ v.result = call[c].result
        /\ v.phase = IF call[c].phase = "renew" THEN "read" ELSE call[c].phase
    BY DEF CallRecord, Places, Phases
  <1>2. call' = [call EXCEPT ![c] = v] BY DEF Again
  <1> QED BY <1>1, <1>2 DEF GivesUp

LEMMA FailureGivesUp ==
    ASSUME call \in [Calls -> CallRecord], NEW c \in Calls,
           ReadFails(c) \/ ReadLimited(c) \/ ReadTransient(c)
    PROVE  GivesUp(c)
  <1>1. CASE ReadFails(c)
    <2> DEFINE result == IF Order(c) THEN "NOT_SENT" ELSE IF call[c].pages > 0 THEN "PARTIAL" ELSE "FETCH_FAILED"
    <2>1. result \in Fallen BY DEF Fallen
    <2>2. Ends(c, result) BY <1>1 DEF ReadFails
    <2> QED BY <2>1, <2>2, EndingGivesUp
  <1>2. CASE Waits(c) /\ Again(c, [call[c] EXCEPT !.rate = @ - 1])
    <2> DEFINE next == [call[c] EXCEPT !.rate = @ - 1]
    <2>1. next \in CallRecord /\ next.phase = call[c].phase /\ next.result = call[c].result
      BY <1>2 DEF CallRecord, Waits
    <2> QED BY <1>2, <2>1, BeginningAgainGivesUp
  <1>3. CASE Repeats(c) /\ Again(c, [call[c] EXCEPT !.tries = @ + 1])
    <2> DEFINE next == [call[c] EXCEPT !.tries = @ + 1]
    <2>1. next \in CallRecord /\ next.phase = call[c].phase /\ next.result = call[c].result
      BY DEF CallRecord
    <2> QED BY <1>3, <2>1, BeginningAgainGivesUp
  <1> QED BY <1>1, <1>2, <1>3 DEF ReadLimited, ReadTransient

LEMMA UnsentGivesUp ==
    ASSUME call \in [Calls -> CallRecord], NEW c \in Calls, Unsent(c) \/ UnsentCooling(c)
    PROVE  GivesUp(c) /\ GiveLock(c)
  <1>1. CASE Ends(c, "NOT_SENT") BY <1>1, EndingGivesUp DEF Fallen, Unsent, UnsentCooling
  <1>2. CASE ReadFails(c) \/ ReadLimited(c) BY <1>2, FailureGivesUp DEF Unsent, UnsentCooling
  <1> QED BY <1>1, <1>2 DEF Unsent, UnsentCooling

\* A call that gives up before it was sent, or the answer to its read, harms nothing.
LEMMA GivingUpKeeps ==
    ASSUME IInv, NEW c \in Calls, GivesUp(c), GiveLock(c) \/ UNCHANGED renewer,
           call[c].at # "done", posted[c] = 0, UNCHANGED <<posted, token, issued, expired>>,
           cooling' = cooling \/ \A d \in Calls : d # c => call[d].at # "going", cooling' \in BOOLEAN,
           inflight' = inflight \/ (inflight = c /\ inflight' = NoCall)
    PROVE  IInv'
  <1> USE TransportAssumption
  <1>1. PICK v \in CallRecord :
            /\ call' = [call EXCEPT ![c] = v]
            /\ \/ v.at = "done" /\ v.phase = call[c].phase /\ v.result \in Fallen
               \/ /\ v.at = "permit" /\ v.result = call[c].result
                  /\ v.phase = IF call[c].phase = "renew" THEN "read" ELSE call[c].phase
    BY DEF GivesUp
  <1>2. call \in [Calls -> CallRecord] BY DEF IInv, TransportTypeOK
  <1>3. /\ call' \in [Calls -> CallRecord] /\ call'[c] = v
        /\ \A d \in Calls : d # c => call'[d] = call[d]
    BY <1>1, <1>2, OneCall
  <1>4. TransportTypeOK'
    BY <1>3 DEF IInv, TransportTypeOK, GiveLock
  <1>5. Honest'
    BY <1>1, <1>2, <1>3 DEF IInv, TransportTypeOK, Honest, Fallen
  <1>6. InLine'
    BY <1>1, <1>2, <1>3 DEF IInv, TransportTypeOK, InLine
  <1>7. Renewals'
    BY <1>1, <1>2, <1>3 DEF IInv, TransportTypeOK, Renewals, GiveLock
  <1> QED BY <1>4, <1>5, <1>6, <1>7 DEF IInv

LEMMA StartKeeps == ASSUME IInv, NEW c \in Calls, Start(c) PROVE IInv'
  <1> USE TransportAssumption DEF IInv, Start, At, line, pace, tokens
  <1>1. TransportTypeOK'
    BY Moving, "permit" \in Places, call \in [Calls -> CallRecord] DEF TransportTypeOK, Places
  <1>2. Honest'
    BY DEF TransportTypeOK, CallRecord, Places, Phases, Outcomes, Honest
  <1>3. InLine'
    BY DEF TransportTypeOK, CallRecord, Places, Phases, Outcomes, InLine
  <1>4. Renewals'
    BY DEF TransportTypeOK, CallRecord, Places, Phases, Outcomes, Renewals
  <1> QED BY <1>1, <1>2, <1>3, <1>4

LEMMA PermitKeeps == ASSUME IInv, NEW c \in Calls, Permit(c) PROVE IInv'
  <1> USE TransportAssumption DEF IInv, Permit, At, Ends, ReadFails, line, pace, tokens
  <1>1. TransportTypeOK'
    BY DEF TransportTypeOK, CallRecord, Places, Phases, Outcomes
  <1>2. Honest'
    BY DEF TransportTypeOK, CallRecord, Places, Phases, Outcomes, Honest
  <1>3. InLine'
    BY DEF TransportTypeOK, CallRecord, Places, Phases, Outcomes, InLine
  <1>4. Renewals'
    BY DEF TransportTypeOK, CallRecord, Places, Phases, Outcomes, Renewals
  <1> QED BY <1>1, <1>2, <1>3, <1>4

LEMMA TakeTokenKeeps == ASSUME IInv, NEW c \in Calls, TakeToken(c) PROVE IInv'
  <1> USE TransportAssumption DEF IInv, TakeToken, At, Ends, LockFree, line, pace, tokens
  <1>1. TransportTypeOK'
    BY DEF TransportTypeOK, CallRecord, Places, Phases, Outcomes
  <1>2. Honest'
    BY DEF TransportTypeOK, CallRecord, Places, Phases, Outcomes, Honest
  <1>3. InLine'
    BY DEF TransportTypeOK, CallRecord, Places, Phases, Outcomes, InLine
  <1>4. Renewals'
    BY DEF TransportTypeOK, CallRecord, Places, Phases, Outcomes, Renewals
  <1> QED BY <1>1, <1>2, <1>3, <1>4

LEMMA AskKeeps == ASSUME IInv, NEW c \in Calls, Ask(c) PROVE IInv'
  <1> USE TransportAssumption
  <1>1. CASE UnsentCooling(c)
    <2>1. call \in [Calls -> CallRecord] BY DEF IInv, TransportTypeOK
    <2>2. GivesUp(c) /\ GiveLock(c) BY <1>1, <2>1, UnsentGivesUp
    <2>3. call[c].at = "asked" /\ posted[c] = 0 BY DEF Ask, IInv, Honest
    <2> QED BY <2>2, <2>3, GivingUpKeeps DEF Ask, pace, IInv, TransportTypeOK
  <1>2. CASE At(c, "queued") /\ UNCHANGED renewer
    <2> USE <1>2 DEF IInv, Ask, At, pace
    <2>1. TransportTypeOK'
      BY Moving, "queued" \in Places, call \in [Calls -> CallRecord] DEF TransportTypeOK, Places
    <2>2. Honest'
      BY DEF TransportTypeOK, CallRecord, Places, Phases, Outcomes, Honest
    <2>3. InLine'
      BY DEF TransportTypeOK, CallRecord, Places, Phases, Outcomes, InLine
    <2>4. Renewals'
      BY DEF TransportTypeOK, CallRecord, Places, Phases, Outcomes, Renewals
    <2> QED BY <2>1, <2>2, <2>3, <2>4
  <1> QED BY <1>1, <1>2 DEF Ask

LEMMA LeaveQueueKeeps == ASSUME IInv, NEW c \in Calls, LeaveQueue(c) PROVE IInv'
  <1>1. call \in [Calls -> CallRecord] BY DEF IInv, TransportTypeOK
  <1>2. GivesUp(c) /\ GiveLock(c) BY <1>1, UnsentGivesUp DEF LeaveQueue
  <1>3. call[c].at = "queued" /\ posted[c] = 0 BY DEF LeaveQueue, IInv, Honest
  <1> QED BY <1>2, <1>3, GivingUpKeeps DEF LeaveQueue, pace, IInv, TransportTypeOK

LEMMA TakeTurnKeeps == ASSUME IInv, NEW c \in Calls, TakeTurn(c) PROVE IInv'
  <1> USE TransportAssumption DEF IInv, TakeTurn, Turn, At, line, pace, tokens
  <1>1. TransportTypeOK'
    BY Moving, "going" \in Places, call \in [Calls -> CallRecord] DEF TransportTypeOK, Places
  <1>2. Honest'
    BY DEF TransportTypeOK, CallRecord, Places, Phases, Outcomes, Honest
  <1>3. InLine'
    BY DEF TransportTypeOK, CallRecord, Places, Phases, Outcomes, InLine
  <1>4. Renewals'
    BY DEF TransportTypeOK, CallRecord, Places, Phases, Outcomes, Renewals
  <1> QED BY <1>1, <1>2, <1>3, <1>4

LEMMA SendRequestKeeps == ASSUME IInv, NEW c \in Calls, SendRequest(c) PROVE IInv'
  <1> USE TransportAssumption
  <1>1. CASE Unsent(c) /\ inflight' = NoCall /\ UNCHANGED posted
    <2>1. call \in [Calls -> CallRecord] BY DEF IInv, TransportTypeOK
    <2>2. GivesUp(c) /\ GiveLock(c) BY <1>1, <2>1, UnsentGivesUp
    <2>3. call[c].at = "going" /\ posted[c] = 0 /\ inflight = c
      BY DEF SendRequest, IInv, Honest, InLine
    <2> QED BY <1>1, <2>2, <2>3, GivingUpKeeps DEF SendRequest, IInv, TransportTypeOK
  <1>2. CASE /\ At(c, "sent") /\ UNCHANGED <<inflight, renewer>>
             /\ posted' = [posted EXCEPT ![c] = @ + IF call[c].phase = "post" THEN 1 ELSE 0]
    <2> USE <1>2 DEF IInv, SendRequest, At
    <2>1. TransportTypeOK'
      <3>1. call \in [Calls -> CallRecord] /\ "sent" \in Places BY DEF TransportTypeOK, Places
      <3>2. call' \in [Calls -> CallRecord] BY <1>2, <3>1, Moving
      <3>3. posted[c] + (IF call[c].phase = "post" THEN 1 ELSE 0) \in Nat BY DEF TransportTypeOK
      <3>4. posted' \in [Calls -> Nat] BY <3>3 DEF TransportTypeOK
      <3> QED BY <3>2, <3>4 DEF TransportTypeOK
    <2>2. Honest'
      BY DEF TransportTypeOK, CallRecord, Places, Phases, Outcomes, Honest
    <2>3. InLine'
      BY DEF TransportTypeOK, CallRecord, Places, Phases, Outcomes, InLine
    <2>4. Renewals'
      BY DEF TransportTypeOK, CallRecord, Places, Phases, Outcomes, Renewals
    <2> QED BY <2>1, <2>2, <2>3, <2>4
  <1> QED BY <1>1, <1>2 DEF SendRequest

LEMMA OrderLapsesKeeps == ASSUME IInv, NEW c \in Calls, OrderLapses(c) PROVE IInv'
  <1> USE TransportAssumption DEF IInv, OrderLapses, line, pace, tokens
  <1>1. TransportTypeOK'
    BY DEF TransportTypeOK, CallRecord, Places, Phases, Outcomes
  <1>2. Honest'
    BY DEF TransportTypeOK, CallRecord, Places, Phases, Outcomes, Honest
  <1>3. InLine'
    BY DEF TransportTypeOK, CallRecord, Places, Phases, Outcomes, InLine
  <1>4. Renewals'
    BY DEF TransportTypeOK, CallRecord, Places, Phases, Outcomes, Renewals
  <1> QED BY <1>1, <1>2, <1>3, <1>4

\* While a request is out no other has its turn, so that a refusal for the rate disturbs none.
LEMMA AloneInLine ==
    ASSUME IInv, NEW c \in Calls, call[c].at = "sent"
    PROVE  inflight = c /\ \A d \in Calls : d # c => call[d].at \notin {"going", "sent"}
  BY DEF IInv, InLine

LEMMA AnswerOrderKeeps ==
    ASSUME IInv, NEW c \in Calls, NEW answer \in Replies, Answer(c, answer), AnswerOrder(c, answer)
    PROVE  IInv'
  <1> USE TransportAssumption
  <1>1. PICK result \in OrderResult(answer) : Ends(c, result) BY DEF AnswerOrder
  <1>2. result \in {"ACKNOWLEDGED", "UNKNOWN", "REJECTED", "RAISED"}
    BY <1>1 DEF OrderResult, Replies
  <1> DEFINE v == [call[c] EXCEPT !.at = "done", !.result = result]
  <1>3. call \in [Calls -> CallRecord] BY DEF IInv, TransportTypeOK
  <1>4. v \in CallRecord /\ v.at = "done" /\ v.result = result /\ v.phase = "post"
    BY <1>2, <1>3 DEF CallRecord, Places, Outcomes, AnswerOrder
  <1>5. call' = [call EXCEPT ![c] = v] BY <1>1 DEF Ends
  <1> HIDE DEF v
  <1>6. /\ call' \in [Calls -> CallRecord] /\ call'[c] = v
        /\ \A d \in Calls : d # c => call'[d] = call[d]
    BY <1>3, <1>4, <1>5, OneCall
  <1>7. TransportTypeOK'
    BY <1>6 DEF IInv, TransportTypeOK, Answer, AnswerOrder
  <1>8. Honest'
    <2>1. posted[c] = 1 BY DEF IInv, Honest, Answer, AnswerOrder
    <2> QED BY <1>2, <1>4, <1>6, <2>1 DEF IInv, Honest, Answer
  <1>9. InLine'
    BY <1>4, <1>6, AloneInLine DEF IInv, InLine, Answer
  <1>10. Renewals'
    BY <1>4, <1>6 DEF IInv, Renewals, Answer, AnswerOrder
  <1> QED BY <1>7, <1>8, <1>9, <1>10 DEF IInv

\* An answered read or renewal that gives up.
LEMMA FailedAnswerKeeps ==
    ASSUME IInv, NEW c \in Calls, NEW answer \in Replies, Answer(c, answer), call[c].phase # "post",
           ReadFails(c) \/ ReadLimited(c) \/ ReadTransient(c),
           GiveLock(c) \/ UNCHANGED renewer, UNCHANGED <<token, issued>>
    PROVE  IInv'
  <1>1. call \in [Calls -> CallRecord] BY DEF IInv, TransportTypeOK
  <1>2. GivesUp(c) BY <1>1, FailureGivesUp
  <1>3. call[c].at = "sent" /\ posted[c] = 0 BY DEF Answer, IInv, Honest
  <1>4. inflight = c /\ \A d \in Calls : d # c => call[d].at # "going" BY <1>3, AloneInLine
  <1>5. cooling' \in BOOLEAN BY DEF Answer, IInv, TransportTypeOK
  <1> QED BY <1>2, <1>3, <1>4, <1>5, GivingUpKeeps DEF Answer

\* A read that got its answer goes on in another place, or is done.
LEMMA GoingOnKeeps ==
    ASSUME IInv, NEW c \in Calls, NEW answer \in Replies, Answer(c, answer), call[c].phase = "read",
           UNCHANGED <<token, renewer, issued>>,
           NEW v \in CallRecord, call' = [call EXCEPT ![c] = v], v.phase # "renew",
           \/ v.at = "permit" /\ v.result = "none"
           \/ v.at = "done" /\ v.result \in {"NOT_SENT", "PARTIAL", "COMPLETE"}
    PROVE  IInv'
  <1> USE TransportAssumption
  <1>1. call \in [Calls -> CallRecord] BY DEF IInv, TransportTypeOK
  <1>2. /\ call' \in [Calls -> CallRecord] /\ call'[c] = v
        /\ \A d \in Calls : d # c => call'[d] = call[d]
    BY <1>1, OneCall
  <1>3. call[c].at = "sent" /\ posted[c] = 0 BY DEF Answer, IInv, Honest
  <1>4. TransportTypeOK'
    BY <1>2 DEF IInv, TransportTypeOK, Answer
  <1>5. Honest'
    BY <1>2, <1>3 DEF IInv, Honest, Answer
  <1>6. InLine'
    BY <1>2, <1>3, AloneInLine DEF IInv, InLine, Answer
  <1>7. Renewals'
    BY <1>2 DEF IInv, Renewals, Answer
  <1> QED BY <1>4, <1>5, <1>6, <1>7 DEF IInv

LEMMA AnswerReadKeeps ==
    ASSUME IInv, NEW c \in Calls, NEW answer \in Replies, Answer(c, answer), AnswerRead(c, answer)
    PROVE  IInv'
  <1>1. call \in [Calls -> CallRecord] BY DEF IInv, TransportTypeOK
  <1>2. /\ call[c] \in CallRecord /\ call[c].phase = "read" /\ call[c].result = "none"
        /\ UNCHANGED <<token, renewer, issued>>
    BY <1>1 DEF AnswerRead, Answer, IInv, Honest
  <1>3. CASE ReadFails(c) \/ ReadLimited(c) \/ ReadTransient(c)
    BY <1>2, <1>3, FailedAnswerKeeps
  <1>4. CASE call' = [call EXCEPT ![c].at = "permit", ![c].phase = "post"]
    <2> DEFINE v == [call[c] EXCEPT !.at = "permit", !.phase = "post"]
    <2>1. v \in CallRecord /\ v.at = "permit" /\ v.phase = "post" /\ v.result = "none"
      BY <1>2 DEF CallRecord, Places, Phases
    <2>2. call' = [call EXCEPT ![c] = v] BY <1>4
    <2> QED BY <1>2, <2>1, <2>2, GoingOnKeeps
  <1>5. CASE call' = [call EXCEPT ![c].at = "permit", ![c].pages = @ + 1, ![c].tries = 0]
    <2> DEFINE v == [call[c] EXCEPT !.at = "permit", !.pages = @ + 1, !.tries = 0]
    <2>1. call[c].pages + 1 \in Nat BY <1>2 DEF CallRecord
    <2>2. v \in CallRecord BY <1>2, <2>1, ZenonT(30) DEF CallRecord, Places
    <2>3. v.at = "permit" /\ v.phase = "read" /\ v.result = "none" BY <1>2 DEF CallRecord
    <2>4. call' = [call EXCEPT ![c] = v] BY <1>5
    <2> QED BY <1>2, <2>2, <2>3, <2>4, GoingOnKeeps
  <1>6. CASE \E result \in {"NOT_SENT", "PARTIAL", "COMPLETE"} : Ends(c, result)
    <2>1. PICK result \in {"NOT_SENT", "PARTIAL", "COMPLETE"} : Ends(c, result) BY <1>6
    <2> DEFINE v == [call[c] EXCEPT !.at = "done", !.result = result]
    <2>2. v \in CallRecord /\ v.at = "done" /\ v.phase = "read" /\ v.result = result
      BY <1>2 DEF CallRecord, Places, Outcomes
    <2>3. call' = [call EXCEPT ![c] = v] BY <2>1 DEF Ends
    <2> HIDE DEF v
    <2> QED BY <1>2, <2>2, <2>3, GoingOnKeeps
  <1> QED BY <1>3, <1>4, <1>5, <1>6 DEF AnswerRead

LEMMA AnswerRenewalKeeps ==
    ASSUME IInv, NEW c \in Calls, NEW answer \in Replies, Answer(c, answer), AnswerRenewal(c, answer)
    PROVE  IInv'
  <1> USE TransportAssumption
  <1>1. call \in [Calls -> CallRecord] BY DEF IInv, TransportTypeOK
  <1>2. /\ call[c] \in CallRecord /\ call[c].phase = "renew" /\ call[c].at = "sent"
        /\ call[c].result = "none" /\ renewer = c /\ renewer' = NoCall /\ token = "expired"
    BY <1>1 DEF AnswerRenewal, Answer, IInv, Honest, Renewals
  <1>3. CASE (ReadFails(c) \/ ReadLimited(c) \/ ReadTransient(c)) /\ UNCHANGED <<token, issued>>
    BY <1>2, <1>3, FailedAnswerKeeps DEF GiveLock
  <1>4. CASE /\ token' = "valid" /\ issued' = issued + 1
             /\ call' = [call EXCEPT ![c].at = "asked", ![c].phase = "read"]
    <2> DEFINE v == [call[c] EXCEPT !.at = "asked", !.phase = "read"]
    <2>1. v \in CallRecord /\ v.at = "asked" /\ v.phase = "read" /\ v.result = "none"
      BY <1>2 DEF CallRecord, Places, Phases
    <2>2. call' = [call EXCEPT ![c] = v] BY <1>4
    <2> HIDE DEF v
    <2>3. /\ call' \in [Calls -> CallRecord] /\ call'[c] = v
          /\ \A d \in Calls : d # c => call'[d] = call[d]
      BY <1>1, <2>1, <2>2, OneCall
    <2>4. TransportTypeOK'
      BY <1>2, <1>4, <2>3 DEF IInv, TransportTypeOK, Answer
    <2>5. Honest'
      BY <1>2, <2>1, <2>3 DEF IInv, Honest, Answer
    <2>6. InLine'
      BY <1>2, <2>1, <2>3, AloneInLine DEF IInv, InLine, Answer
    <2>7. Renewals'
      BY <1>2, <1>4, <2>1, <2>3 DEF IInv, TransportTypeOK, Renewals, Answer
    <2> QED BY <2>4, <2>5, <2>6, <2>7 DEF IInv
  <1> QED BY <1>3, <1>4 DEF AnswerRenewal

LEMMA AnswerKeeps ==
    ASSUME IInv, NEW c \in Calls, NEW answer \in Replies, Answer(c, answer) PROVE IInv'
  <1>1. CASE AnswerOrder(c, answer) BY <1>1, AnswerOrderKeeps
  <1>2. CASE AnswerRead(c, answer) BY <1>2, AnswerReadKeeps
  <1>3. CASE AnswerRenewal(c, answer) BY <1>3, AnswerRenewalKeeps
  <1> QED BY <1>1, <1>2, <1>3 DEF Answer

LEMMA CooldownEndsKeeps == ASSUME IInv, CooldownEnds PROVE IInv'
  <1> USE TransportAssumption DEF IInv, CooldownEnds, line, pace, tokens
  <1>1. TransportTypeOK'
    BY DEF TransportTypeOK, CallRecord, Places, Phases, Outcomes
  <1>2. Honest'
    BY DEF TransportTypeOK, CallRecord, Places, Phases, Outcomes, Honest
  <1>3. InLine'
    BY DEF TransportTypeOK, CallRecord, Places, Phases, Outcomes, InLine
  <1>4. Renewals'
    BY DEF TransportTypeOK, CallRecord, Places, Phases, Outcomes, Renewals
  <1> QED BY <1>1, <1>2, <1>3, <1>4

LEMMA RestKeeps == ASSUME IInv, Rest PROVE IInv'
  <1> USE TransportAssumption DEF IInv, Rest, line, pace, tokens
  <1>1. TransportTypeOK'
    BY DEF TransportTypeOK, CallRecord, Places, Phases, Outcomes
  <1>2. Honest'
    BY DEF TransportTypeOK, CallRecord, Places, Phases, Outcomes, Honest
  <1>3. InLine'
    BY DEF TransportTypeOK, CallRecord, Places, Phases, Outcomes, InLine
  <1>4. Renewals'
    BY DEF TransportTypeOK, CallRecord, Places, Phases, Outcomes, Renewals
  <1> QED BY <1>1, <1>2, <1>3, <1>4

LEMMA TokenExpiresKeeps == ASSUME IInv, TokenExpires PROVE IInv'
  <1> USE TransportAssumption DEF IInv, TokenExpires, line, pace, tokens
  <1>1. TransportTypeOK'
    BY DEF TransportTypeOK, CallRecord, Places, Phases, Outcomes
  <1>2. Honest'
    BY DEF TransportTypeOK, CallRecord, Places, Phases, Outcomes, Honest
  <1>3. InLine'
    BY DEF TransportTypeOK, CallRecord, Places, Phases, Outcomes, InLine
  <1>4. Renewals'
    BY DEF TransportTypeOK, CallRecord, Places, Phases, Outcomes, Renewals
  <1> QED BY <1>1, <1>2, <1>3, <1>4

\* Only SendRequest brings a call to the network, from its turn.
LEMMA OnlySendingSends ==
    ASSUME IInv, TransportNext, NEW d \in Calls, call'[d].at = "sent", call[d].at # "sent"
    PROVE  call[d].at = "going"
  <1>1. call \in [Calls -> CallRecord] BY DEF IInv, TransportTypeOK
  <1>2. \A c \in Calls : ~GivesUp(c)
    BY <1>1, OneCall DEF GivesUp
  <1>3. \A c \in Calls : \A result : ~Ends(c, result)
    BY <1>1 DEF Ends, CallRecord
  <1>4. ASSUME NEW c \in Calls, Start(c) \/ Permit(c) \/ TakeToken(c) \/ TakeTurn(c) PROVE FALSE
    BY <1>1, <1>2, <1>3, <1>4, FailureGivesUp DEF Start, Permit, TakeToken, TakeTurn, At, CallRecord
  <1>5. ASSUME NEW c \in Calls, Ask(c) \/ LeaveQueue(c) PROVE FALSE
    BY <1>1, <1>2, <1>5, UnsentGivesUp DEF Ask, LeaveQueue, At, CallRecord
  <1>6. ASSUME NEW c \in Calls, SendRequest(c) PROVE call[d].at = "going"
    BY <1>1, <1>2, <1>6, UnsentGivesUp DEF SendRequest, At, CallRecord
  <1>7. ASSUME NEW c \in Calls, NEW answer \in Replies, Answer(c, answer) PROVE FALSE
    <2>1. CASE AnswerOrder(c, answer) BY <1>3, <2>1 DEF AnswerOrder
    <2>2. CASE AnswerRead(c, answer)
      BY <1>1, <1>2, <1>3, <2>2, FailureGivesUp DEF AnswerRead, CallRecord
    <2>3. CASE AnswerRenewal(c, answer)
      BY <1>1, <1>2, <2>3, FailureGivesUp DEF AnswerRenewal, CallRecord
    <2> QED BY <1>7, <2>1, <2>2, <2>3 DEF Answer
  <1>8. CASE OrderLapses(d) \/ CooldownEnds \/ Rest \/ TokenExpires \/ \E c \in Calls : OrderLapses(c)
    BY <1>8 DEF OrderLapses, CooldownEnds, Rest, TokenExpires
  <1> QED BY <1>4, <1>5, <1>6, <1>7, <1>8 DEF TransportNext, Replies

-----------------------------------------------------------------------------
\* IInv holds throughout.
THEOREM Invariance == TransportSpec => []IInv
  <1>1. IInv /\ [TransportNext]_transportVars => IInv'
    <2> SUFFICES ASSUME IInv, [TransportNext]_transportVars PROVE IInv' OBVIOUS
    <2>1. CASE \E c \in Calls : Start(c) BY <2>1, StartKeeps
    <2>2. CASE \E c \in Calls : Permit(c) BY <2>2, PermitKeeps
    <2>3. CASE \E c \in Calls : TakeToken(c) BY <2>3, TakeTokenKeeps
    <2>4. CASE \E c \in Calls : Ask(c) BY <2>4, AskKeeps
    <2>5. CASE \E c \in Calls : LeaveQueue(c) BY <2>5, LeaveQueueKeeps
    <2>6. CASE \E c \in Calls : TakeTurn(c) BY <2>6, TakeTurnKeeps
    <2>7. CASE \E c \in Calls : SendRequest(c) BY <2>7, SendRequestKeeps
    <2>8. CASE \E c \in Calls : OrderLapses(c) BY <2>8, OrderLapsesKeeps
    <2>9. CASE \E c \in Calls, answer \in Replies : Answer(c, answer) BY <2>9, AnswerKeeps
    <2>10. CASE CooldownEnds BY <2>10, CooldownEndsKeeps
    <2>11. CASE Rest BY <2>11, RestKeeps
    <2>12. CASE TokenExpires BY <2>12, TokenExpiresKeeps
    <2>13. CASE UNCHANGED transportVars
      BY <2>13 DEF transportVars, line, pace, tokens, IInv, TransportTypeOK, Honest, InLine, Renewals
    <2> QED BY <2>1, <2>2, <2>3, <2>4, <2>5, <2>6, <2>7, <2>8, <2>9, <2>10, <2>11, <2>12, <2>13
      DEF TransportNext, Replies
  <1> QED BY <1>1, InitIInv, PTL DEF TransportSpec

\* What the adapter says of an order is what happened to it, whatever calls there are and however
\* they are paced, repeated and refused.  (_mutation, OrderNotSent)
THEOREM HonestOutcomes == TransportSpec => []OutcomeHonest
  <1>1. IInv => OutcomeHonest
    BY DEF IInv, TransportTypeOK, CallRecord, Honest, OutcomeHonest
  <1> QED BY <1>1, Invariance, PTL

\* An expiry of the token costs one renewal that is stored, however many calls meet it.
\* (KisTokenCache)
THEOREM OneRenewal == TransportSpec => []RenewedOnce
  <1>1. IInv => RenewedOnce
    BY DEF IInv, TransportTypeOK, Renewals, RenewedOnce
  <1> QED BY <1>1, Invariance, PTL

\* No request leaves during a cooldown.  (PriorityTransport.__call__)
THEOREM NoneWhileCooling == TransportSpec => CooldownRespected
  <1> DEFINE Step == \A c \in Calls : call'[c].at = "sent" /\ call[c].at # "sent" => ~cooling
  <1>1. IInv /\ [TransportNext]_transportVars => [Step]_transportVars
    <2> SUFFICES ASSUME IInv, TransportNext, NEW d \in Calls, call'[d].at = "sent", call[d].at # "sent"
                 PROVE  ~cooling
      BY DEF Step
    <2>1. call[d].at = "going"
      BY OnlySendingSends
    <2> QED BY <2>1 DEF IInv, InLine
  <1> QED BY <1>1, Invariance, PTL DEF TransportSpec, CooldownRespected

----------------------------------------------------------------------------
(* SnapshotFlight: the account version stands for the set of executions    *)
(* booked and the generation for the set of orders begun. Whatever a       *)
(* reading carries as its version, it shows what was booked when that      *)
(* version was read, by whomever (Shows); a flight of the present          *)
(* generation, and a snapshot kept, know every order begun (Flights,       *)
(* KeptKnows). A reader therefore takes over a flight or the snapshot kept *)
(* by comparing these two numbers.                                         *)

Booked == In({"booked"})
Value == [shows: SUBSET Orders, begun: SUBSET Orders, version: Nat, complete: BOOLEAN]
Asked == [begun: SUBSET Orders, booked: SUBSET Orders]
Reader == [at: {"idle", "version", "working", "enter", "leads", "waits", "publishes", "shares",
                "returned"},
           version: Nat, working: BOOLEAN, joined: Nat, fact: Asked, value: Value]
Flight == [generation: Nat, version: Nat, begun: SUBSET Orders, value: Value, done: BOOLEAN,
           failed: BOOLEAN]

FlightTypeOK ==
    /\ reader \in [Readers -> Reader] /\ flights \in Seq(Flight) /\ current \in Nat
    /\ kept \in Value /\ aged \in BOOLEAN /\ generation \in Nat
    /\ trade \in [Orders -> {"none", "begun", "placed", "booked"}] /\ accountVersion \in Nat

\* The reader has read the account version since it was called.
Knows(r) == reader[r].at \notin {"idle", "version"}

\* A reading shows what was booked by the version it carries.
Shows(v) ==
    /\ v.version <= accountVersion
    /\ v.version = accountVersion => Booked \subseteq v.shows
    /\ \A r \in Readers :
        Knows(r) /\ reader[r].version = v.version => reader[r].fact.booked \subseteq v.shows

\* A flight of the present generation knows every order; its reading is one of its own.
Flights ==
    \A i \in DOMAIN flights :
        /\ flights[i].generation <= generation
        /\ flights[i].generation = generation => flights[i].begun = Begun
        /\ flights[i].done /\ ~flights[i].failed =>
            /\ flights[i].value.begun = flights[i].begun
            /\ flights[i].value.version = flights[i].version
            /\ Shows(flights[i].value)

KeptKnows == kept.complete => kept.begun = Begun /\ Shows(kept)

Joined(r) ==
    /\ reader[r].joined \in DOMAIN flights
    /\ flights[reader[r].joined].version = reader[r].version

Asking ==
    \A r \in Readers :
        /\ reader[r].fact.begun \subseteq Begun /\ reader[r].fact.booked \subseteq Booked
        /\ Knows(r) => reader[r].version <= accountVersion
        /\ reader[r].at = "waits" => reader[r].joined \in DOMAIN flights
        /\ reader[r].at \in {"leads", "publishes", "shares"} =>
            Joined(r) /\ reader[r].fact.begun \subseteq flights[reader[r].joined].begun
        /\ reader[r].at = "shares" => flights[reader[r].joined].done
        /\ reader[r].at = "publishes" =>
            /\ reader[r].value.begun = flights[reader[r].joined].begun
            /\ reader[r].value.version = reader[r].version
            /\ Shows(reader[r].value)

FlightIInv ==
    /\ FlightTypeOK /\ Flights /\ KeptKnows /\ Asking /\ SnapshotCurrent
    /\ current # None => current \in DOMAIN flights

-----------------------------------------------------------------------------
(* Helpers *)

LEMMA InitFlight == FlightInit => FlightIInv
  <1> SUFFICES ASSUME FlightInit PROVE FlightIInv OBVIOUS
  <1> USE DEF FlightInit
  <1>1. NoValue \in Value /\ [begun |-> {}, booked |-> {}] \in Asked
    BY DEF NoValue, Value, Asked
  <1>2. ASSUME NEW a \in Asked
        PROVE  [at |-> "idle", version |-> 0, working |-> FALSE, joined |-> None, fact |-> a,
                value |-> NoValue] \in Reader
    BY <1>1, <1>2, Zenon DEF Reader, None
  <1>3. FlightTypeOK
    <2>1. \A r \in Readers : reader[r] \in Reader
      BY <1>1, <1>2
    <2>2. reader \in [Readers -> Reader]
      BY <2>1, Zenon
    <2>3. flights \in Seq(Flight) /\ current \in Nat /\ accountVersion \in Nat /\ generation \in Nat
      BY DEF None
    <2>4. trade \in [Orders -> {"none", "begun", "placed", "booked"}] /\ aged \in BOOLEAN /\ kept \in Value
      BY <1>1
    <2> QED BY <2>2, <2>3, <2>4 DEF FlightTypeOK
  <1>4. Flights /\ KeptKnows /\ Asking /\ SnapshotCurrent
    BY DEF Flights, KeptKnows, NoValue, Asking, SnapshotCurrent, Knows
  <1> QED BY <1>3, <1>4 DEF FlightIInv

\* The reader r is the only one whose record changes.
LEMMA OneReader ==
    ASSUME reader \in [Readers -> Reader], NEW r \in Readers, NEW e \in Reader,
           reader' = [reader EXCEPT ![r] = e]
    PROVE  /\ reader' \in [Readers -> Reader] /\ reader'[r] = e
           /\ \A q \in Readers : q # r => reader'[q] = reader[q]
  OBVIOUS

\* What goes with the state of a reader.
LEMMA Fields ==
    ASSUME NEW e \in Reader
    PROVE  /\ e.version \in Nat /\ e.joined \in Nat /\ e.value \in Value /\ e.working \in BOOLEAN
           /\ e.fact.begun \subseteq Orders /\ e.fact.booked \subseteq Orders
           /\ e.value.begun \subseteq Orders /\ e.value.shows \subseteq Orders /\ e.value.version \in Nat
  BY DEF Reader, Asked, Value

\* The reader r goes to another place; its other fields stay.
LEMMA Moves ==
    ASSUME FlightIInv, NEW r \in Readers,
           NEW at \in {"idle", "working", "enter", "leads", "waits", "publishes", "shares", "version",
                       "returned"},
           reader' = [reader EXCEPT ![r].at = at]
    PROVE  /\ reader' \in [Readers -> Reader] /\ reader'[r].at = at
           /\ \A q \in Readers : /\ reader'[q].version = reader[q].version
                                 /\ reader'[q].joined = reader[q].joined
                                 /\ reader'[q].fact = reader[q].fact /\ reader'[q].value = reader[q].value
                                 /\ q # r => reader'[q].at = reader[q].at
  <1> DEFINE e == [reader[r] EXCEPT !.at = at]
  <1>1. reader[r] \in Reader /\ reader \in [Readers -> Reader]
    BY DEF FlightIInv, FlightTypeOK
  <1>2. e \in Reader /\ e.at = at /\ e.version = reader[r].version /\ e.joined = reader[r].joined
        /\ e.fact = reader[r].fact /\ e.value = reader[r].value
    BY <1>1, Zenon DEF Reader
  <1>3. reader' = [reader EXCEPT ![r] = e]
    OBVIOUS
  <1> HIDE DEF e
  <1> QED BY <1>1, <1>2, <1>3, OneReader

-----------------------------------------------------------------------------
(* A reader's steps *)

LEMMA CallStep == ASSUME FlightIInv, NEW r \in Readers, Call(r) PROVE FlightIInv'
  <1> USE DEF FlightIInv
  <1> DEFINE e == [at |-> "version", version |-> 0, working |-> FALSE, joined |-> None,
                   fact |-> Fact, value |-> NoValue]
  <1>1. Fact \in Asked /\ NoValue \in Value
    BY DEF Fact, Asked, NoValue, Value, Begun, In
  <1>2. e \in Reader
    BY <1>1, Zenon DEF Reader, None
  <1>3. e.at = "version" /\ e.fact.begun = Begun /\ e.fact.booked = Booked
    BY DEF Fact, Booked
  <1>4. /\ reader' \in [Readers -> Reader] /\ reader'[r] = e
        /\ \A q \in Readers : q # r => reader'[q] = reader[q]
    BY <1>2, OneReader DEF Call, FlightTypeOK
  <1>5. UNCHANGED <<flights, current, kept, aged, generation, trade, accountVersion>>
    BY DEF Call
  <1> HIDE DEF e
  <1>6. \A q \in Readers : Knows(q)' => q # r
    BY <1>3, <1>4 DEF Knows
  <1>7. Flights'
    BY <1>4, <1>5, <1>6 DEF Flights, Shows, Knows, Booked, Begun, In
  <1>8. KeptKnows'
    BY <1>4, <1>5, <1>6 DEF KeptKnows, Shows, Knows, Booked, Begun, In
  <1>9. Asking'
    BY <1>3, <1>4, <1>5, <1>6 DEF Asking, Joined, Shows, Knows, Booked, Begun, In
  <1>10. SnapshotCurrent' /\ FlightTypeOK'
    BY <1>3, <1>4, <1>5 DEF SnapshotCurrent, FlightTypeOK
  <1> QED BY <1>5, <1>7, <1>8, <1>9, <1>10

LEMMA VersionStep == ASSUME FlightIInv, NEW r \in Readers, ReadVersion(r) PROVE FlightIInv'
  <1> USE DEF FlightIInv
  <1> DEFINE e == [reader[r] EXCEPT !.at = "working", !.version = accountVersion]
  <1>1. reader[r] \in Reader /\ accountVersion \in Nat /\ reader \in [Readers -> Reader]
    BY DEF FlightTypeOK
  <1>2. e \in Reader /\ e.at = "working" /\ e.version = accountVersion /\ e.fact = reader[r].fact
    BY <1>1, Zenon DEF Reader
  <1>3. reader' = [reader EXCEPT ![r] = e]
    BY DEF ReadVersion
  <1>4. /\ reader' \in [Readers -> Reader] /\ reader'[r] = e
        /\ \A q \in Readers : q # r => reader'[q] = reader[q]
    BY <1>1, <1>2, <1>3, OneReader
  <1>5. UNCHANGED <<flights, current, kept, aged, generation, trade, accountVersion>>
    BY DEF ReadVersion
  <1> HIDE DEF e
  <1>6. reader[r].fact.booked \subseteq Booked
    BY DEF Asking
  <1>7. Flights'
    BY <1>2, <1>4, <1>5, <1>6 DEF Flights, Shows, Knows, Booked, Begun, In
  <1>8. KeptKnows'
    BY <1>2, <1>4, <1>5, <1>6 DEF KeptKnows, Shows, Knows, Booked, Begun, In
  <1>9. Asking'
    <2>1. Booked' = Booked /\ Begun' = Begun
      BY <1>5 DEF Booked, Begun, In
    <2>2. ASSUME NEW v, Shows(v) PROVE Shows(v)'
      BY <1>2, <1>4, <1>5, <1>6, <2>1, <2>2 DEF Shows, Knows
    <2>3. ASSUME NEW q \in Readers
          PROVE  /\ reader'[q].fact = reader[q].fact
                 /\ Knows(q)' => reader'[q].version <= accountVersion'
                 /\ reader'[q].at \in {"waits", "leads", "publishes", "shares"} => reader'[q] = reader[q]
      BY <1>1, <1>2, <1>4, <1>5 DEF Asking, Knows
    <2> QED BY <1>5, <2>1, <2>2, <2>3 DEF Asking, Joined
  <1>10. SnapshotCurrent' /\ FlightTypeOK'
    BY <1>2, <1>4, <1>5 DEF SnapshotCurrent, FlightTypeOK
  <1> QED BY <1>5, <1>7, <1>8, <1>9, <1>10

\* Steps that move a reader without knowing more, and change nothing else.
LEMMA Moved ==
    ASSUME FlightIInv, NEW r \in Readers,
           NEW at \in {"idle", "enter", "version", "shares"},
           \E w \in BOOLEAN, v \in Value :
               reader' = [reader EXCEPT ![r] = [reader[r] EXCEPT !.at = at, !.working = w, !.value = v]],
           at = "enter" => Knows(r),
           at = "shares" => /\ reader[r].at = "waits" /\ flights[reader[r].joined].done
                            /\ flights[reader[r].joined].generation = generation
                            /\ flights[reader[r].joined].version = reader[r].version,
           UNCHANGED <<flights, current, kept, aged, generation, trade, accountVersion>>
    PROVE  FlightIInv'
  <1> USE DEF FlightIInv
  <1>1. PICK w \in BOOLEAN, v \in Value :
            reader' = [reader EXCEPT ![r] = [reader[r] EXCEPT !.at = at, !.working = w, !.value = v]]
    OBVIOUS
  <1> DEFINE e == [reader[r] EXCEPT !.at = at, !.working = w, !.value = v]
  <1>2. reader[r] \in Reader /\ reader \in [Readers -> Reader]
    BY DEF FlightTypeOK
  <1>3. e \in Reader /\ e.at = at /\ e.version = reader[r].version /\ e.joined = reader[r].joined
        /\ e.fact = reader[r].fact
    BY <1>2, Zenon DEF Reader
  <1>4. /\ reader' \in [Readers -> Reader] /\ reader'[r] = e
        /\ \A q \in Readers : q # r => reader'[q] = reader[q]
    BY <1>1, <1>2, <1>3, OneReader
  <1> HIDE DEF e
  <1>5. Booked' = Booked /\ Begun' = Begun
    BY DEF Booked, Begun, In
  <1>6. \A q \in Readers : /\ reader'[q].version = reader[q].version /\ reader'[q].fact = reader[q].fact
                           /\ reader'[q].joined = reader[q].joined /\ (Knows(q)' => Knows(q))
    BY <1>3, <1>4 DEF Knows
  <1>7. ASSUME NEW x, Shows(x) PROVE Shows(x)'
    BY <1>5, <1>6, <1>7 DEF Shows
  <1>8. Flights' /\ KeptKnows'
    BY <1>5, <1>7 DEF Flights, KeptKnows
  <1>9. Asking'
    <2>1. ASSUME NEW q \in Readers, q # r
          PROVE  reader'[q] = reader[q] /\ (Knows(q)' <=> Knows(q)) /\ (Joined(q) => Joined(q)')
      BY <1>4, <2>1 DEF Knows, Joined
    <2>2. at = "shares" => Joined(r)' /\ reader[r].fact.begun \subseteq flights[reader[r].joined].begun
      BY <1>3, <1>4 DEF Asking, Joined, Flights
    <2> QED BY <1>3, <1>4, <1>5, <1>6, <1>7, <2>1, <2>2 DEF Asking
  <1>10. SnapshotCurrent' /\ FlightTypeOK'
    BY <1>3, <1>4 DEF SnapshotCurrent, FlightTypeOK
  <1> QED BY <1>8, <1>9, <1>10

LEMMA WorkingStep == ASSUME FlightIInv, NEW r \in Readers, ReadWorking(r) PROVE FlightIInv'
  <1>1. /\ reader[r] \in Reader /\ reader \in [Readers -> Reader]
        /\ Knows(r) /\ UNCHANGED <<flights, current, kept, aged, generation, trade, accountVersion>>
    BY DEF ReadWorking, FlightIInv, FlightTypeOK, Knows
  <1> DEFINE w == In({"begun", "placed"}) # {}
  <1>2. reader' = [reader EXCEPT ![r] = [reader[r] EXCEPT !.at = "enter", !.working = w]]
    BY DEF ReadWorking
  <1>3. [reader[r] EXCEPT !.at = "enter", !.working = w]
        = [reader[r] EXCEPT !.at = "enter", !.working = w, !.value = reader[r].value]
    BY <1>1, Zenon DEF Reader
  <1>4. w \in BOOLEAN /\ reader[r].value \in Value
    BY <1>1, Fields
  <1> HIDE DEF w
  <1> QED BY <1>1, <1>2, <1>3, <1>4, Moved

LEMMA FailStep == ASSUME FlightIInv, NEW r \in Readers, FailFlight(r) PROVE FlightIInv'
  <1> USE DEF FlightIInv
  <1> DEFINE i == reader[r].joined
             f == [flights[i] EXCEPT !.done = TRUE, !.failed = TRUE]
  <1>1. i \in DOMAIN flights /\ flights[i] \in Flight
    BY DEF FailFlight, Asking, Joined, FlightTypeOK
  <1>2. f \in Flight /\ f.generation = flights[i].generation /\ f.begun = flights[i].begun
        /\ f.version = flights[i].version /\ f.value = flights[i].value /\ f.failed /\ f.done
    BY <1>1, Zenon DEF Flight
  <1>3. /\ flights' = [flights EXCEPT ![i] = f] /\ current' = None
        /\ reader' = [reader EXCEPT ![r].at = "idle"]
        /\ UNCHANGED <<kept, aged, generation, trade, accountVersion>>
    BY DEF FailFlight
  <1> HIDE DEF f
  <1>4. /\ flights' \in Seq(Flight) /\ DOMAIN flights' = DOMAIN flights
        /\ \A j \in DOMAIN flights : flights'[j] = IF j = i THEN f ELSE flights[j]
    BY <1>1, <1>2, <1>3 DEF FlightTypeOK
  <1> HIDE DEF i
  <1>5. /\ reader' \in [Readers -> Reader] /\ reader'[r].at = "idle"
        /\ \A q \in Readers : /\ reader'[q].version = reader[q].version
                              /\ reader'[q].joined = reader[q].joined
                              /\ reader'[q].fact = reader[q].fact /\ reader'[q].value = reader[q].value
                              /\ q # r => reader'[q].at = reader[q].at
    BY <1>3, Moves
  <1>6. Booked' = Booked /\ Begun' = Begun
    BY <1>3 DEF Booked, Begun, In
  <1>7. ASSUME NEW x, Shows(x) PROVE Shows(x)'
    BY <1>3, <1>5, <1>6, <1>7 DEF Shows, Knows
  <1>8. Flights'
    BY <1>2, <1>3, <1>4, <1>6, <1>7 DEF Flights
  <1>9. KeptKnows'
    BY <1>3, <1>6, <1>7 DEF KeptKnows
  <1>10. Asking'
    <2>1. ASSUME NEW q \in Readers, q # r
          PROVE  /\ Knows(q)' <=> Knows(q)
                 /\ Joined(q) => Joined(q)' /\ flights'[reader[q].joined].begun = flights[reader[q].joined].begun
                 /\ reader[q].joined \in DOMAIN flights /\ flights[reader[q].joined].done
                    => flights'[reader[q].joined].done
      BY <1>2, <1>4, <1>5, <2>1 DEF Knows, Joined
    <2>2. ~Knows(r)'
      BY <1>5 DEF Knows
    <2> QED BY <1>3, <1>4, <1>5, <1>6, <1>7, <2>1, <2>2 DEF Asking, Joined
  <1>11. SnapshotCurrent' /\ FlightTypeOK' /\ (current' # None => current' \in DOMAIN flights')
    BY <1>3, <1>4, <1>5 DEF SnapshotCurrent, FlightTypeOK, None
  <1> QED BY <1>8, <1>9, <1>10, <1>11

LEMMA PublishStep == ASSUME FlightIInv, NEW r \in Readers, Publish(r) PROVE FlightIInv'
  <1> USE DEF FlightIInv
  <1> DEFINE i == reader[r].joined
             v == reader[r].value
             f == [flights[i] EXCEPT !.done = TRUE, !.value = v]
  <1>1. i \in DOMAIN flights /\ flights[i] \in Flight /\ v \in Value /\ v.begun = flights[i].begun
        /\ v.version = reader[r].version /\ flights[i].version = reader[r].version /\ Shows(v)
        /\ reader[r].fact.begun \subseteq v.begun /\ reader[r].fact.booked \subseteq v.shows
    <2>1. reader[r].at = "publishes" /\ Joined(r) /\ Knows(r)
      BY DEF Publish, Asking, Knows
    <2>2. reader[r].fact.booked \subseteq v.shows
      BY <2>1 DEF Asking, Shows
    <2> QED BY <2>1, <2>2, Fields DEF Asking, Joined, FlightTypeOK
  <1>2. f \in Flight /\ f.generation = flights[i].generation /\ f.begun = flights[i].begun
        /\ f.version = flights[i].version /\ f.value = v /\ f.done
    BY <1>1, Zenon DEF Flight
  <1>3. /\ flights' = [flights EXCEPT ![i] = f] /\ current' = None /\ aged' = FALSE
        /\ reader' = [reader EXCEPT ![r].at = "returned"]
        /\ UNCHANGED <<generation, trade, accountVersion>>
    BY DEF Publish
  <1>4. kept' = NoValue \/ (kept' = v /\ flights[i].generation = generation)
    BY DEF Publish, Keeps
  <1> HIDE DEF f, v
  <1>5. /\ flights' \in Seq(Flight) /\ DOMAIN flights' = DOMAIN flights
        /\ \A j \in DOMAIN flights : flights'[j] = IF j = i THEN f ELSE flights[j]
    BY <1>1, <1>2, <1>3 DEF FlightTypeOK
  <1> HIDE DEF i
  <1>6. /\ reader' \in [Readers -> Reader] /\ reader'[r].at = "returned"
        /\ \A q \in Readers : /\ reader'[q].version = reader[q].version
                              /\ reader'[q].joined = reader[q].joined
                              /\ reader'[q].fact = reader[q].fact /\ reader'[q].value = reader[q].value
                              /\ q # r => reader'[q].at = reader[q].at
    BY <1>3, Moves
  <1>7. Booked' = Booked /\ Begun' = Begun
    BY <1>3 DEF Booked, Begun, In
  <1>8. Knows(r) /\ \A q \in Readers : q # r => (Knows(q)' <=> Knows(q))
    BY <1>6 DEF Publish, Knows
  <1>9. ASSUME NEW x, Shows(x) PROVE Shows(x)'
    BY <1>3, <1>6, <1>7, <1>8, <1>9 DEF Shows
  <1>10. Flights'
    BY <1>1, <1>2, <1>3, <1>5, <1>7, <1>9 DEF Flights
  <1>11. KeptKnows'
    BY <1>1, <1>3, <1>4, <1>7, <1>9 DEF KeptKnows, Flights, NoValue
  <1>12. Asking'
    <2>1. ASSUME NEW q \in Readers, q # r
          PROVE  /\ Joined(q) => Joined(q)' /\ flights'[reader[q].joined].begun = flights[reader[q].joined].begun
                 /\ reader[q].joined \in DOMAIN flights /\ flights[reader[q].joined].done
                    => flights'[reader[q].joined].done
      BY <1>2, <1>5, <1>6, <2>1 DEF Joined
    <2> QED BY <1>3, <1>5, <1>6, <1>7, <1>8, <1>9, <2>1 DEF Asking, Joined
  <1>13. SnapshotCurrent'
    BY <1>1, <1>6 DEF SnapshotCurrent, v
  <1>14. FlightTypeOK'
    <2>1. NoValue \in Value
      BY DEF NoValue, Value
    <2>2. kept' \in Value
      BY <1>1, <1>4, <2>1
    <2> QED BY <1>3, <1>5, <1>6, <2>2 DEF FlightTypeOK, None
  <1> QED BY <1>3, <1>10, <1>11, <1>12, <1>13, <1>14

LEMMA ReadStep == ASSUME FlightIInv, NEW r \in Readers, ReadAccount(r) PROVE FlightIInv'
  <1> USE DEF FlightIInv
  <1>1. PICK complete \in BOOLEAN :
            reader' = [reader EXCEPT ![r].at = "publishes",
                                     ![r].value = [shows |-> Placed, begun |-> flights[reader[r].joined].begun,
                                                   version |-> reader[r].version, complete |-> complete]]
    BY DEF ReadAccount
  <1> DEFINE i == reader[r].joined
             v == [shows |-> Placed, begun |-> flights[i].begun, version |-> reader[r].version,
                   complete |-> complete]
             e == [reader[r] EXCEPT !.at = "publishes", !.value = v]
  <1>2. /\ reader[r] \in Reader /\ reader \in [Readers -> Reader] /\ Joined(r) /\ Knows(r)
        /\ flights[i] \in Flight /\ reader[r].fact.begun \subseteq flights[i].begun
        /\ reader[r].version <= accountVersion
    BY DEF ReadAccount, Asking, Joined, Knows, FlightTypeOK
  <1>3. v \in Value /\ v.shows = Placed /\ v.begun = flights[i].begun /\ v.version = reader[r].version
    <2>1. flights[i].begun \subseteq Orders /\ reader[r].version \in Nat /\ Placed \subseteq Orders
      BY <1>2 DEF Flight, Reader, Placed, In
    <2> QED BY <2>1 DEF Value
  <1> HIDE DEF v
  <1>4. e \in Reader /\ e.at = "publishes" /\ e.version = reader[r].version /\ e.joined = i
        /\ e.fact = reader[r].fact /\ e.value = v
    BY <1>2, <1>3, Zenon DEF Reader
  <1>5. reader' = [reader EXCEPT ![r] = e]
    BY <1>1 DEF v
  <1> HIDE DEF e
  <1>6. /\ reader' \in [Readers -> Reader] /\ reader'[r] = e
        /\ \A q \in Readers : q # r => reader'[q] = reader[q]
    BY <1>2, <1>4, <1>5, OneReader
  <1>7. UNCHANGED <<flights, current, kept, aged, generation, trade, accountVersion>>
    BY DEF ReadAccount
  <1>8. Booked' = Booked /\ Begun' = Begun
    BY <1>7 DEF Booked, Begun, In
  <1>9. \A q \in Readers : /\ reader'[q].version = reader[q].version /\ reader'[q].fact = reader[q].fact
                           /\ reader'[q].joined = reader[q].joined /\ (Knows(q)' <=> Knows(q))
    BY <1>2, <1>4, <1>6 DEF Knows
  <1>10. ASSUME NEW x, Shows(x) PROVE Shows(x)'
    BY <1>7, <1>8, <1>9, <1>10 DEF Shows
  <1>11. Shows(v)
    <2>1. Booked \subseteq Placed
      BY DEF Booked, Placed, In
    <2> QED BY <1>2, <1>3, <2>1 DEF Shows, Asking
  <1>12. Flights' /\ KeptKnows'
    BY <1>7, <1>8, <1>10 DEF Flights, KeptKnows
  <1>13. Asking'
    <2>1. ASSUME NEW q \in Readers PROVE Joined(q) <=> Joined(q)'
      BY <1>7, <1>9 DEF Joined
    <2>2. PICK u : u = v /\ Shows(u) /\ Shows(u)'
      BY <1>10, <1>11
    <2>3. reader'[r].value = u /\ reader'[r].at = "publishes"
      BY <1>4, <1>6, <2>2
    <2>4. Asking!(r)'
      BY <1>2, <1>3, <1>7, <1>8, <1>9, <2>1, <2>2, <2>3 DEF Asking
    <2>5. ASSUME NEW q \in Readers, q # r PROVE Asking!(q)'
      BY <1>6, <1>7, <1>8, <1>9, <1>10, <2>1, <2>5 DEF Asking
    <2> QED BY <2>4, <2>5 DEF Asking
  <1>14. SnapshotCurrent' /\ FlightTypeOK'
    BY <1>4, <1>6, <1>7 DEF SnapshotCurrent, FlightTypeOK
  <1> QED BY <1>7, <1>12, <1>13, <1>14

\* Joining a flight, or being answered from the snapshot kept.
LEMMA EnterStep == ASSUME FlightIInv, NEW r \in Readers, Enter(r) PROVE FlightIInv'
  <1> USE DEF FlightIInv
  <1>1. /\ reader[r] \in Reader /\ reader \in [Readers -> Reader] /\ Knows(r) /\ reader[r].at = "enter"
        /\ UNCHANGED <<kept, aged, generation, trade, accountVersion>>
    BY DEF Enter, Knows, FlightTypeOK
  <1>2. Booked' = Booked /\ Begun' = Begun
    BY <1>1 DEF Booked, Begun, In
  <1>3. CASE FromCache(r) /\ reader' = [reader EXCEPT ![r].at = "returned", ![r].value = kept]
             /\ UNCHANGED <<flights, current>>
    <2> DEFINE e == [reader[r] EXCEPT !.at = "returned", !.value = kept]
    <2>1. e \in Reader /\ e.at = "returned" /\ e.version = reader[r].version
          /\ e.fact = reader[r].fact /\ e.value = kept
      <3>1. kept \in Value BY DEF FlightTypeOK
      <3> QED BY <1>1, <3>1, Zenon DEF Reader
    <2>2. reader' = [reader EXCEPT ![r] = e]
      BY <1>3
    <2> HIDE DEF e
    <2>3. /\ reader' \in [Readers -> Reader] /\ reader'[r] = e
          /\ \A q \in Readers : q # r => reader'[q] = reader[q]
      BY <1>1, <2>1, <2>2, OneReader
    <2>4. \A q \in Readers : /\ reader'[q].version = reader[q].version /\ reader'[q].fact = reader[q].fact
                             /\ (Knows(q)' => Knows(q))
      BY <1>1, <2>1, <2>3 DEF Knows
    <2>5. ASSUME NEW x, Shows(x) PROVE Shows(x)'
      BY <1>1, <1>2, <2>4, <2>5 DEF Shows
    <2>6. Flights' /\ KeptKnows'
      BY <1>1, <1>2, <1>3, <2>5 DEF Flights, KeptKnows
    <2>7. Asking'
      <3>1. ASSUME NEW q \in Readers, q # r PROVE reader'[q] = reader[q] /\ (Joined(q) <=> Joined(q)')
        BY <1>3, <2>3, <3>1 DEF Joined
      <3> QED BY <1>1, <1>2, <1>3, <2>1, <2>3, <2>4, <2>5, <3>1 DEF Asking
    <2>8. SnapshotCurrent'
      <3>1. kept.begun = Begun /\ reader[r].fact.booked \subseteq kept.shows
        BY <1>1, <1>3 DEF FromCache, KeptKnows, Shows
      <3>2. reader[r].fact.begun \subseteq kept.begun
        BY <3>1 DEF Asking
      <3> QED BY <2>1, <2>3, <3>1, <3>2 DEF SnapshotCurrent
    <2> QED BY <1>1, <1>3, <2>3, <2>6, <2>7, <2>8 DEF FlightTypeOK
  <1>4. CASE /\ flights' = Append(flights, [generation |-> generation, version |-> reader[r].version,
                                            begun |-> Begun, value |-> NoValue, done |-> FALSE,
                                            failed |-> FALSE])
             /\ current' = Len(flights')
             /\ reader' = [reader EXCEPT ![r].at = "leads", ![r].joined = current']
    <2> DEFINE f == [generation |-> generation, version |-> reader[r].version, begun |-> Begun,
                     value |-> NoValue, done |-> FALSE, failed |-> FALSE]
               n == Len(flights) + 1
               e == [reader[r] EXCEPT !.at = "leads", !.joined = n]
    <2>1. f \in Flight /\ f.generation = generation /\ f.version = reader[r].version /\ f.begun = Begun
          /\ ~f.done
      <3>1. NoValue \in Value /\ Begun \subseteq Orders /\ reader[r].version \in Nat /\ generation \in Nat
        BY <1>1, Fields DEF NoValue, Value, Begun, In, FlightTypeOK
      <3> HIDE DEF Begun
      <3> QED BY <3>1 DEF Flight
    <2>2. flights' = Append(flights, f)
      BY <1>4
    <2> HIDE DEF f
    <2>3. /\ flights' \in Seq(Flight) /\ n \in DOMAIN flights' /\ flights'[n] = f /\ n \in Nat
          /\ Len(flights') = n /\ DOMAIN flights' = DOMAIN flights \cup {n}
          /\ \A j \in DOMAIN flights : j # n /\ flights'[j] = flights[j]
      BY <2>1, <2>2 DEF FlightTypeOK
    <2> HIDE DEF n
    <2>4. e \in Reader /\ e.at = "leads" /\ e.version = reader[r].version /\ e.joined = n
          /\ e.fact = reader[r].fact
      BY <1>1, <2>3, Zenon DEF Reader
    <2>5. reader' = [reader EXCEPT ![r] = e] /\ current' = n
      BY <1>4, <2>3
    <2> HIDE DEF e
    <2>6. /\ reader' \in [Readers -> Reader] /\ reader'[r] = e
          /\ \A q \in Readers : q # r => reader'[q] = reader[q]
      BY <1>1, <2>4, <2>5, OneReader
    <2>7. \A q \in Readers : /\ reader'[q].version = reader[q].version /\ reader'[q].fact = reader[q].fact
                             /\ (Knows(q)' => Knows(q))
      BY <1>1, <2>4, <2>6 DEF Knows
    <2>8. ASSUME NEW x, Shows(x) PROVE Shows(x)'
      BY <1>1, <1>2, <2>7, <2>8 DEF Shows
    <2>9. Flights'
      <3>1. generation \in Nat BY DEF FlightTypeOK
      <3> QED BY <1>1, <1>2, <2>1, <2>3, <2>8, <3>1 DEF Flights
    <2>10. KeptKnows'
      BY <1>1, <1>2, <2>8 DEF KeptKnows
    <2>11. Asking'
      <3>1. ASSUME NEW q \in Readers, q # r
            PROVE  /\ reader'[q] = reader[q] /\ (Joined(q) => Joined(q)')
                   /\ reader[q].joined \in DOMAIN flights => reader[q].joined \in DOMAIN flights'
                      /\ flights'[reader[q].joined] = flights[reader[q].joined]
        BY <2>3, <2>6, <3>1 DEF Joined
      <3>2. Joined(r)' /\ reader'[r].fact.begun \subseteq flights'[reader'[r].joined].begun
        BY <2>1, <2>3, <2>4, <2>6 DEF Joined, Asking
      <3>3. \A q \in Readers : Knows(q)' => reader'[q].version <= accountVersion'
        BY <1>1, <2>7 DEF Asking
      <3> QED BY <1>1, <1>2, <2>4, <2>6, <2>7, <2>8, <3>1, <3>2, <3>3 DEF Asking, Joined
    <2>12. SnapshotCurrent'
      BY <2>4, <2>6 DEF SnapshotCurrent
    <2> QED BY <1>1, <2>3, <2>5, <2>6, <2>9, <2>10, <2>11, <2>12 DEF FlightTypeOK
  <1>5. CASE current # None /\ reader' = [reader EXCEPT ![r].at = "waits", ![r].joined = current]
             /\ UNCHANGED <<flights, current>>
    <2> DEFINE e == [reader[r] EXCEPT !.at = "waits", !.joined = current]
    <2>1. e \in Reader /\ e.at = "waits" /\ e.version = reader[r].version
          /\ e.fact = reader[r].fact /\ e.joined = current
      <3>1. current \in Nat BY DEF FlightTypeOK
      <3> QED BY <1>1, <3>1, Zenon DEF Reader
    <2>2. reader' = [reader EXCEPT ![r] = e]
      BY <1>5
    <2> HIDE DEF e
    <2>3. /\ reader' \in [Readers -> Reader] /\ reader'[r] = e
          /\ \A q \in Readers : q # r => reader'[q] = reader[q]
      BY <1>1, <2>1, <2>2, OneReader
    <2>4. \A q \in Readers : /\ reader'[q].version = reader[q].version /\ reader'[q].fact = reader[q].fact
                             /\ (Knows(q)' => Knows(q))
      BY <1>1, <2>1, <2>3 DEF Knows
    <2>5. ASSUME NEW x, Shows(x) PROVE Shows(x)'
      BY <1>1, <1>2, <2>4, <2>5 DEF Shows
    <2>6. Flights' /\ KeptKnows'
      BY <1>1, <1>2, <1>5, <2>5 DEF Flights, KeptKnows
    <2>7. Asking'
      <3>1. ASSUME NEW q \in Readers, q # r PROVE reader'[q] = reader[q] /\ (Joined(q) <=> Joined(q)')
        BY <1>5, <2>3, <3>1 DEF Joined
      <3> QED BY <1>1, <1>2, <1>5, <2>1, <2>3, <2>4, <2>5, <3>1 DEF Asking
    <2>8. SnapshotCurrent'
      BY <2>1, <2>3 DEF SnapshotCurrent
    <2> QED BY <1>1, <1>5, <2>3, <2>6, <2>7, <2>8 DEF FlightTypeOK
  <1> QED BY <1>3, <1>4, <1>5 DEF Enter

LEMMA WakeStep == ASSUME FlightIInv, NEW r \in Readers, Wake(r) PROVE FlightIInv'
  <1>1. /\ reader[r] \in Reader /\ reader[r].at = "waits" /\ flights[reader[r].joined].done
        /\ UNCHANGED <<flights, current, kept, aged, generation, trade, accountVersion>>
    BY DEF Wake, FlightIInv, FlightTypeOK
  <1> DEFINE at == IF Shared(r) THEN "shares" ELSE "version"
  <1>2. [reader[r] EXCEPT !.at = at]
        = [reader[r] EXCEPT !.at = at, !.working = reader[r].working, !.value = reader[r].value]
    <2> HIDE DEF at
    <2> QED BY <1>1, Zenon DEF Reader
  <1>3. reader[r].working \in BOOLEAN /\ reader[r].value \in Value
    BY <1>1, Fields
  <1>4. reader' = [reader EXCEPT ![r] = [reader[r] EXCEPT !.at = at, !.working = reader[r].working,
                                                          !.value = reader[r].value]]
    BY <1>2 DEF Wake
  <1>5. at \in {"idle", "enter", "version", "shares"} /\ at # "enter"
        /\ (at = "shares" => flights[reader[r].joined].generation = generation
                             /\ flights[reader[r].joined].version = reader[r].version)
    BY DEF Shared
  <1> HIDE DEF at
  <1> QED BY <1>1, <1>3, <1>4, <1>5, Moved

\* A reading is shared: it is one of the reader's own version, after the last order begun.
LEMMA ShareStep == ASSUME FlightIInv, NEW r \in Readers, Share(r) PROVE FlightIInv'
  <1> USE DEF FlightIInv
  <1> DEFINE f == flights[reader[r].joined]
             v == IF f.failed THEN reader[r].value ELSE f.value
             at == IF accountVersion # reader[r].version THEN "version"
                   ELSE IF f.failed THEN "idle" ELSE "returned"
             e == [reader[r] EXCEPT !.at = at, !.value = v]
  <1>1. /\ reader[r] \in Reader /\ reader \in [Readers -> Reader] /\ reader[r].at = "shares" /\ Knows(r)
        /\ f \in Flight /\ Joined(r) /\ f.done /\ reader[r].fact.begun \subseteq f.begun
        /\ UNCHANGED <<flights, current, kept, aged, generation, trade, accountVersion>>
    BY DEF Share, Asking, Joined, Knows, FlightTypeOK
  <1>2. reader' = [reader EXCEPT ![r] = e]
    BY DEF Share
  <1>3. v \in Value
    BY <1>1, Fields DEF Flight
  <1>4. at = "returned" => reader[r].fact.begun \subseteq v.begun /\ reader[r].fact.booked \subseteq v.shows
    <2>1. ASSUME ~f.failed PROVE f.value.begun = f.begun /\ f.value.version = f.version /\ Shows(f.value)
      BY <1>1, <2>1 DEF Flights, Joined
    <2>2. f.version = reader[r].version
      BY <1>1 DEF Joined
    <2> QED BY <1>1, <2>1, <2>2 DEF Shows
  <1>5. CASE at # "returned"
    <2>1. at \in {"idle", "version"}
      BY <1>5
    <2>2. e = [reader[r] EXCEPT !.at = at, !.working = reader[r].working, !.value = v]
      <3> HIDE DEF at, v
      <3> QED BY <1>1, Zenon DEF Reader
    <2>3. reader[r].working \in BOOLEAN
      BY <1>1, Fields
    <2> HIDE DEF at, v
    <2>4. reader' = [reader EXCEPT ![r] = [reader[r] EXCEPT !.at = at, !.working = reader[r].working,
                                                            !.value = v]]
      BY <1>2, <2>2
    <2> QED BY <1>1, <1>3, <2>1, <2>3, <2>4, Moved
  <1>6. CASE at = "returned"
    <2> HIDE DEF v
    <2>1. e \in Reader /\ e.at = "returned" /\ e.version = reader[r].version
          /\ e.fact = reader[r].fact /\ e.value = v
      <3> HIDE DEF at
      <3> QED BY <1>1, <1>3, <1>6, Zenon DEF Reader
    <2> HIDE DEF e, at, f
    <2>2. /\ reader' \in [Readers -> Reader] /\ reader'[r] = e
          /\ \A q \in Readers : q # r => reader'[q] = reader[q]
      BY <1>1, <1>2, <2>1, OneReader
    <2>3. Booked' = Booked /\ Begun' = Begun
      BY <1>1 DEF Booked, Begun, In
    <2>4. \A q \in Readers : /\ reader'[q].version = reader[q].version /\ reader'[q].fact = reader[q].fact
                             /\ (Knows(q)' => Knows(q))
      BY <1>1, <2>1, <2>2 DEF Knows
    <2>5. ASSUME NEW x, Shows(x) PROVE Shows(x)'
      BY <1>1, <2>3, <2>4, <2>5 DEF Shows
    <2>6. Flights' /\ KeptKnows'
      BY <1>1, <2>3, <2>5 DEF Flights, KeptKnows
    <2>7. Asking'
      <3>1. ASSUME NEW q \in Readers, q # r PROVE reader'[q] = reader[q] /\ (Joined(q) <=> Joined(q)')
        BY <1>1, <2>2, <3>1 DEF Joined
      <3> QED BY <1>1, <2>1, <2>2, <2>3, <2>4, <2>5, <3>1 DEF Asking
    <2>8. SnapshotCurrent'
      BY <1>4, <1>6, <2>1, <2>2 DEF SnapshotCurrent
    <2> QED BY <1>1, <2>2, <2>6, <2>7, <2>8 DEF FlightTypeOK
  <1> QED BY <1>5, <1>6

-----------------------------------------------------------------------------
(* Orders, and the ledger *)

LEMMA BeginStep == ASSUME FlightIInv, NEW t \in Orders, BeginOrder(t) PROVE FlightIInv'
  <1> USE DEF FlightIInv
  <1>1. /\ trade' = [trade EXCEPT ![t] = "begun"] /\ trade[t] = "none" /\ generation' = generation + 1
        /\ kept' = NoValue /\ UNCHANGED <<reader, flights, current, aged, accountVersion>>
    BY DEF BeginOrder
  <1>2. Booked' = Booked /\ Begun \subseteq Begun'
    BY <1>1 DEF Booked, Begun, In, FlightTypeOK
  <1>3. ASSUME NEW x, Shows(x) PROVE Shows(x)'
    BY <1>1, <1>2, <1>3 DEF Shows, Knows
  <1>4. generation \in Nat /\ NoValue \in Value /\ ~NoValue.complete /\ flights \in Seq(Flight)
    BY DEF FlightTypeOK, NoValue, Value
  <1>5. Flights'
    <2>1. ASSUME NEW i \in DOMAIN flights PROVE flights[i].generation \in Nat
      <3>1. flights[i] \in Flight BY <1>4
      <3> QED BY <3>1 DEF Flight
    <2> QED BY <1>1, <1>3, <1>4, <2>1 DEF Flights
  <1>6. KeptKnows' /\ Asking'
    BY <1>1, <1>2, <1>3, <1>4 DEF KeptKnows, Asking, Knows, Joined
  <1>7. SnapshotCurrent' /\ FlightTypeOK'
    BY <1>1, <1>4 DEF SnapshotCurrent, FlightTypeOK
  <1> QED BY <1>1, <1>5, <1>6, <1>7

LEMMA BookStep == ASSUME FlightIInv, NEW r \in Readers, NEW t \in Orders, Book(r, t) PROVE FlightIInv'
  <1> USE DEF FlightIInv
  <1>1. /\ trade' = [trade EXCEPT ![t] = "booked"] /\ trade[t] = "placed"
        /\ accountVersion' = accountVersion + 1 /\ accountVersion \in Nat
        /\ UNCHANGED <<reader, flights, current, kept, aged, generation>>
    BY DEF Book, FlightTypeOK
  <1>2. Booked \subseteq Booked' /\ Begun' = Begun
    BY <1>1 DEF Booked, Begun, In, FlightTypeOK
  <1>3. ASSUME NEW x \in Value, Shows(x) PROVE Shows(x)'
    <2>1. x.version \in Nat
      BY DEF Value
    <2> QED BY <1>1, <1>3, <2>1 DEF Shows, Knows
  <1>4. Flights'
    <2>1. ASSUME NEW i \in DOMAIN flights PROVE flights[i].value \in Value
      <3>1. flights[i] \in Flight BY DEF FlightTypeOK
      <3> QED BY <3>1 DEF Flight
    <2> QED BY <1>1, <1>2, <1>3, <2>1 DEF Flights
  <1>5. KeptKnows'
    BY <1>1, <1>2, <1>3 DEF KeptKnows, FlightTypeOK
  <1>6. Asking'
    <2>1. \A q \in Readers : reader[q].value \in Value /\ reader[q].version \in Nat
      BY Fields DEF FlightTypeOK
    <2> QED BY <1>1, <1>2, <1>3, <2>1 DEF Asking, Knows, Joined
  <1>7. SnapshotCurrent' /\ FlightTypeOK'
    BY <1>1 DEF SnapshotCurrent, FlightTypeOK
  <1> QED BY <1>1, <1>4, <1>5, <1>6, <1>7

\* An order placed, and the passing of time.
LEMMA QuietStep ==
    ASSUME FlightIInv, (\E t \in Orders : PlaceOrder(t)) \/ Age \/ UNCHANGED flightVars
    PROVE  FlightIInv'
  <1> USE DEF FlightIInv
  <1>1. UNCHANGED <<reader, flights, current, kept, generation, accountVersion>>
    BY DEF PlaceOrder, Age, flightVars
  <1>2. /\ Booked' = Booked /\ Begun' = Begun /\ aged' \in BOOLEAN
        /\ trade' \in [Orders -> {"none", "begun", "placed", "booked"}]
    BY DEF PlaceOrder, Age, flightVars, Booked, Begun, In, FlightTypeOK
  <1>3. ASSUME NEW x, Shows(x) PROVE Shows(x)'
    BY <1>1, <1>2, <1>3 DEF Shows, Knows
  <1>4. Flights' /\ KeptKnows' /\ Asking'
    BY <1>1, <1>2, <1>3 DEF Flights, KeptKnows, Asking, Knows, Joined
  <1>5. SnapshotCurrent' /\ FlightTypeOK'
    BY <1>1, <1>2 DEF SnapshotCurrent, FlightTypeOK
  <1> QED BY <1>1, <1>4, <1>5

-----------------------------------------------------------------------------

\* Whoever asks for the account is given one read after every order submitted before, with
\* every execution booked by then.  (snapshot, _invalidate_snapshot)
THEOREM CurrentSnapshot == FlightSpec => []SnapshotCurrent
  <1>1. FlightIInv /\ [FlightNext]_flightVars => FlightIInv'
    BY CallStep, VersionStep, WorkingStep, EnterStep, ReadStep, PublishStep, FailStep, WakeStep, ShareStep,
       BeginStep, BookStep, QuietStep DEF FlightNext
  <1>2. FlightIInv => SnapshotCurrent
    BY DEF FlightIInv
  <1> QED BY <1>1, <1>2, InitFlight, PTL DEF FlightSpec

-----------------------------------------------------------------------------
(* QuoteStream: the registrations.  RegistrationsHeld is inductive with    *)
(* the types and the bound of Wanted: a registration is asked for only     *)
(* when everything registered is still wanted, and what is wanted fits.    *)

Sent == [op : {"1", "2"}, ticker : Tickers, feed : {Trades, Books}]

RegistrationTypes ==
    /\ targets \subseteq Tickers /\ active \subseteq Tickers /\ bookActive \subseteq Tickers
    /\ change = NoChange \/ change \in Sent

Registrations == RegistrationTypes /\ Cardinality(targets) <= Slots /\ RegistrationsHeld

\* The books wanted and the trades wanted fit together.
LEMMA BooksFit ==
    ASSUME targets \subseteq Tickers
    PROVE  /\ IsFiniteSet(BookTargets) /\ Cardinality(BookTargets) \in Nat
           /\ BookTargets # {} => Cardinality(BookTargets) + Cardinality(targets) <= Slots
<1>1. IsFiniteSet(targets) /\ targets \subseteq Nat /\ Cardinality(targets) \in Nat /\ Slots \in Nat
  BY StreamAssumption, FS_Subset, FS_CardinalityType
<1>2. BookTargets \subseteq targets
  BY DEF BookTargets
<1>3. IsFiniteSet(BookTargets) /\ Cardinality(BookTargets) \in Nat
  BY <1>1, <1>2, FS_Subset, FS_CardinalityType
<1>4. ASSUME BookTargets # {} PROVE Cardinality(BookTargets) + Cardinality(targets) <= Slots
  <2>1. PICK m \in BookTargets : \A u \in BookTargets : u <= m
    BY <1>1, <1>2, <1>3, <1>4, Greatest
  <2> DEFINE Up == {u \in targets : u <= m}
  <2>2. Cardinality(Up) <= Slots - Cardinality(targets)
    BY <2>1 DEF BookTargets
  <2>3. BookTargets \subseteq Up /\ Up \subseteq targets
    BY <1>2, <2>1
  <2> HIDE DEF Up
  <2>4. Cardinality(BookTargets) <= Cardinality(Up) /\ Cardinality(Up) \in Nat
    BY <1>1, <2>3, FS_Subset, FS_CardinalityType
  <2> QED BY <1>1, <1>3, <2>2, <2>4
<1> QED BY <1>3, <1>4

\* What is registered is finite.
LEMMA Counted ==
    ASSUME NEW S, S \subseteq Tickers
    PROVE  IsFiniteSet(S) /\ Cardinality(S) \in Nat
BY StreamAssumption, FS_Subset, FS_CardinalityType

LEMMA MoreOf ==
    ASSUME NEW S, S \subseteq Tickers, NEW T, T \subseteq S, NEW t \in S, t \notin T
    PROVE  Cardinality(T) + 1 <= Cardinality(S)
<1>1. IsFiniteSet(S) /\ IsFiniteSet(T) /\ T \cup {t} \in SUBSET S
  BY Counted
<1>2. Cardinality(T \cup {t}) = Cardinality(T) + 1
  BY <1>1, FS_AddElement
<1>3. Cardinality(T \cup {t}) <= Cardinality(S)
  BY <1>1, FS_Subset
<1> QED BY <1>2, <1>3

\* The wanted tickers fit.
LEMMA WantedFits ==
    ASSUME NEW c \in SUBSET Tickers
    PROVE  Wanted(c) \subseteq Tickers /\ Cardinality(Wanted(c)) <= Slots
<1>1. Cardinality({}) = 0 /\ Slots \in Nat /\ Protected \subseteq Tickers
  BY FS_EmptySet, StreamAssumption
<1> QED BY <1>1 DEF Wanted

\* What is asked for next leaves the provider's limit.
LEMMA ChangeFits ==
    ASSUME Registrations, Change
    PROVE  Registrations'
<1>1. /\ UNCHANGED <<targets, active, bookActive>> /\ NextChange
  BY DEF Change
<1>2. /\ targets \subseteq Tickers /\ active \subseteq Tickers /\ bookActive \subseteq Tickers
      /\ Cardinality(targets) <= Slots /\ Slots \in Nat /\ Tickers \subseteq Nat
      /\ Cardinality(active) + Cardinality(bookActive) <= Slots
  <2>1. change = NoChange
    BY DEF Change
  <2>2. targets \subseteq Tickers /\ active \subseteq Tickers /\ bookActive \subseteq Tickers
    BY DEF Registrations, RegistrationTypes
  <2>3. Cardinality(active) \in Nat /\ Cardinality(bookActive) \in Nat /\ change.op # "1"
    BY <2>1, <2>2, Counted DEF NoChange
  <2> QED BY <2>2, <2>3, StreamAssumption DEF Registrations, RegistrationsHeld
<1>3. /\ Cardinality(active) \in Nat /\ Cardinality(bookActive) \in Nat /\ Cardinality(targets) \in Nat
      /\ BookTargets \subseteq Tickers
  BY <1>2, Counted DEF BookTargets
<1>4. ASSUME NEW feed \in {Trades, Books}, NEW S \in SUBSET Tickers, Pick("2", feed, S)
      PROVE  Registrations'
  <2>1. PICK t \in S : change' = [op |-> "2", ticker |-> t, feed |-> feed]
    BY <1>4 DEF Pick
  <2>2. change' \in Sent /\ change'.op = "2"
    BY <1>2, <2>1 DEF Sent
  <2> QED BY <1>1, <1>2, <1>3, <2>2 DEF Registrations, RegistrationTypes, RegistrationsHeld
<1>5. ASSUME NEW feed \in {Trades, Books}, NEW S \in SUBSET Tickers, Pick("1", feed, S),
             \A t \in S : Cardinality(active) + Cardinality(bookActive) + 1 <= Slots
      PROVE  Registrations'
  <2>1. PICK t \in S : change' = [op |-> "1", ticker |-> t, feed |-> feed]
    BY <1>5 DEF Pick
  <2>2. change' \in Sent /\ change'.op = "1"
    BY <1>2, <2>1 DEF Sent
  <2>3. Cardinality(active) + Cardinality(bookActive) + 1 <= Slots
    BY <1>5
  <2> QED BY <1>1, <1>2, <1>3, <2>2, <2>3 DEF Registrations, RegistrationTypes, RegistrationsHeld
<1>6. CASE Pick("2", Books, bookActive \ BookTargets)
  BY <1>2, <1>4, <1>6
<1>7. CASE Pick("2", Trades, active \ targets)
  BY <1>2, <1>4, <1>7
<1>8. CASE /\ bookActive \subseteq BookTargets /\ active \subseteq targets
           /\ Pick("1", Trades, targets \ active)
  <2>1. ASSUME NEW t \in targets \ active
        PROVE  Cardinality(active) + Cardinality(bookActive) + 1 <= Slots
    <3>1. Cardinality(active) + 1 <= Cardinality(targets)
      BY <1>2, <1>8, <2>1, MoreOf
    <3>2. CASE BookTargets = {}
      <4>1. bookActive = {}
        BY <1>8, <3>2
      <4> QED BY <4>1, <3>1, <1>2, <1>3, FS_EmptySet
    <3>3. CASE BookTargets # {}
      <4>1. /\ Cardinality(BookTargets) + Cardinality(targets) <= Slots
            /\ IsFiniteSet(BookTargets) /\ Cardinality(BookTargets) \in Nat
        BY <1>2, <3>3, BooksFit
      <4>2. Cardinality(bookActive) <= Cardinality(BookTargets)
        BY <1>8, <4>1, FS_Subset
      <4> QED BY <1>2, <1>3, <3>1, <4>1, <4>2
    <3> QED BY <3>2, <3>3
  <2>2. targets \ active \in SUBSET Tickers
    BY <1>2
  <2> QED BY <1>5, <1>8, <2>1, <2>2
<1>9. CASE /\ bookActive \subseteq BookTargets /\ active = targets
           /\ Pick("1", Books, BookTargets \ bookActive)
  <2>1. ASSUME NEW t \in BookTargets \ bookActive
        PROVE  Cardinality(active) + Cardinality(bookActive) + 1 <= Slots
    <3>1. Cardinality(bookActive) + 1 <= Cardinality(BookTargets)
      BY <1>3, <1>9, <2>1, MoreOf
    <3>2. /\ Cardinality(BookTargets) + Cardinality(targets) <= Slots
          /\ Cardinality(BookTargets) \in Nat
      BY <1>2, <2>1, BooksFit
    <3> QED BY <1>2, <1>3, <1>9, <3>1, <3>2
  <2>2. BookTargets \ bookActive \in SUBSET Tickers
    BY <1>3
  <2> QED BY <1>5, <1>9, <2>1, <2>2
<1> QED BY <1>1, <1>6, <1>7, <1>8, <1>9 DEF NextChange

LEMMA AcknowledgeFits ==
    ASSUME Registrations, Acknowledge
    PROVE  Registrations'
<1> DEFINE t == change.ticker
           With(set) == IF change.op = "1" THEN set \cup {t} ELSE set \ {t}
<1>1. /\ UNCHANGED targets /\ change # NoChange /\ change' = NoChange
      /\ change.feed = Trades => active' = With(active) /\ UNCHANGED bookActive
      /\ change.feed # Trades => bookActive' = With(bookActive) /\ UNCHANGED active
  BY DEF Acknowledge
<1>2. /\ targets \subseteq Tickers /\ active \subseteq Tickers /\ bookActive \subseteq Tickers
      /\ Cardinality(targets) <= Slots /\ Slots \in Nat /\ Tickers \subseteq Nat
      /\ Cardinality(active) \in Nat /\ Cardinality(bookActive) \in Nat
  BY StreamAssumption, Counted DEF Registrations, RegistrationTypes
<1>3. change.op \in {"1", "2"} /\ change.feed \in {Trades, Books} /\ t \in Tickers
  BY <1>1 DEF Registrations, RegistrationTypes, Sent
<1>4. Cardinality(active) + Cardinality(bookActive) + (IF change.op = "1" THEN 1 ELSE 0) <= Slots
  BY DEF Registrations, RegistrationsHeld
<1>5. ASSUME NEW S, S \subseteq Tickers
      PROVE  /\ With(S) \subseteq Tickers /\ Cardinality(With(S)) \in Nat
             /\ Cardinality(With(S)) <= Cardinality(S) + IF change.op = "1" THEN 1 ELSE 0
  <2>1. IsFiniteSet(S) /\ Cardinality(S) \in Nat
    BY <1>5, Counted
  <2>2. /\ Cardinality(S \cup {t}) = IF t \in S THEN Cardinality(S) ELSE Cardinality(S) + 1
        /\ Cardinality(S \ {t}) = IF t \in S THEN Cardinality(S) - 1 ELSE Cardinality(S)
    BY <2>1, FS_AddElement, FS_RemoveElement
  <2>3. With(S) \subseteq Tickers
    BY <1>3, <1>5
  <2>4. Cardinality(With(S)) \in Nat
    BY <2>3, Counted
  <2>5. CASE change.op = "1"
    BY <2>1, <2>2, <2>3, <2>4, <2>5
  <2>6. CASE change.op # "1"
    BY <2>1, <2>2, <2>3, <2>4, <2>6
  <2> QED BY <2>5, <2>6
<1>7. change'.op = "none"
  BY <1>1 DEF NoChange
<1> HIDE DEF t, With
<1>8. CASE change.feed = Trades
  <2>1. active' = With(active) /\ bookActive' = bookActive
    BY <1>1, <1>8
  <2>2. /\ active' \subseteq Tickers /\ Cardinality(active') \in Nat
        /\ Cardinality(active') <= Cardinality(active) + IF change.op = "1" THEN 1 ELSE 0
    BY <1>2, <1>5, <2>1
  <2>3. RegistrationsHeld'
    BY <1>2, <1>4, <1>7, <2>1, <2>2 DEF RegistrationsHeld
  <2> QED BY <1>1, <1>2, <2>1, <2>2, <2>3 DEF Registrations, RegistrationTypes
<1>9. CASE change.feed # Trades
  <2>1. bookActive' = With(bookActive) /\ active' = active
    BY <1>1, <1>9
  <2>2. /\ bookActive' \subseteq Tickers /\ Cardinality(bookActive') \in Nat
        /\ Cardinality(bookActive') <= Cardinality(bookActive) + IF change.op = "1" THEN 1 ELSE 0
    BY <1>2, <1>5, <2>1
  <2>3. RegistrationsHeld'
    BY <1>2, <1>4, <1>7, <2>1, <2>2 DEF RegistrationsHeld
  <2> QED BY <1>1, <1>2, <2>1, <2>2, <2>3 DEF Registrations, RegistrationTypes
<1> QED BY <1>8, <1>9

\* The other steps leave the registrations, or give all of them up.
LEMMA ReplaceFits ==
    ASSUME Registrations, NEW c \in SUBSET Tickers, NEW open \in BOOLEAN, Replace(c, open)
    PROVE  Registrations'
<1>1. UNCHANGED regs
  BY DEF Replace
<1>2. targets' \subseteq Tickers /\ Cardinality(targets') <= Slots
  BY WantedFits, FS_EmptySet, StreamAssumption DEF Replace
<1> QED BY <1>1, <1>2 DEF Registrations, RegistrationTypes, RegistrationsHeld, regs

LEMMA RegistrationsQuiet ==
    ASSUME Registrations,
           \/ UNCHANGED <<targets, regs>>
           \/ UNCHANGED targets /\ active' = {} /\ bookActive' = {} /\ change' = NoChange
    PROVE  Registrations'
<1>1. Cardinality({}) = 0 /\ Slots \in Nat /\ NoChange.op = "none"
  BY FS_EmptySet, StreamAssumption DEF NoChange
<1> QED BY <1>1 DEF Registrations, RegistrationTypes, RegistrationsHeld, regs

LEMMA RegistrationsStep == Registrations /\ [StreamNext]_streamVars => Registrations'
<1> SUFFICES ASSUME Registrations, [StreamNext]_streamVars PROVE Registrations'
  OBVIOUS
<1>1. CASE Tick \/ OpenLink \/ UNCHANGED streamVars
  BY <1>1, RegistrationsQuiet DEF Tick, OpenLink, streamVars, regs
<1>2. CASE Lose \/ Close
  BY <1>2, RegistrationsQuiet DEF Lose, Close
<1>3. ASSUME NEW t, NEW stamp, NEW regular,
             ReceiveBook(t, stamp) \/ ReceiveTrade(t, stamp, regular) \/ Quote(t)
      PROVE  Registrations'
  <2>1. UNCHANGED <<targets, regs>>
    BY <1>3 DEF ReceiveBook, ReceiveTrade, Quote
  <2> QED BY <2>1, RegistrationsQuiet
<1> QED BY <1>1, <1>2, <1>3, ChangeFits, AcknowledgeFits, ReplaceFits DEF StreamNext

\* However the wanted tickers change, the provider never holds more registrations than it
\* allows.  (_run, replace)
THEOREM SlotsKept == StreamSpec => []RegistrationsHeld
<1>1. StreamInit => Registrations
  <2>1. Cardinality({}) = 0 /\ Slots \in Nat /\ NoChange.op = "none"
    BY FS_EmptySet, StreamAssumption DEF NoChange
  <2> QED BY <2>1 DEF StreamInit, Registrations, RegistrationTypes, RegistrationsHeld
<1>2. Registrations => RegistrationsHeld
  BY DEF Registrations
<1> QED BY <1>1, <1>2, RegistrationsStep, PTL DEF StreamSpec

-----------------------------------------------------------------------------
(* QuoteStream: the quotes.  Whatever is kept of a ticker came over the    *)
(* connection that stands and after the ticker was last asked for          *)
(* (Session); a ticker that is not wanted, or a lost connection, keeps     *)
(* nothing, so that neither can bring anything back.                       *)

PacketRecord == [stamp : Nat, received : Nat, link : Nat]
Feed == [Tickers -> SUBSET PacketRecord]

OfSession(t, p) == p.link = link /\ wantedSince[t] <= p.received

StreamTypes ==
    /\ now \in Nat /\ link \in Nat /\ targets \subseteq Tickers
    /\ wantedSince \in [Tickers -> Nat] /\ cache \in Feed /\ books \in Feed

Session ==
    /\ StreamTypes
    /\ ~connected => cache = Empty /\ books = Empty
    /\ \A t \in Tickers :
        /\ wantedSince[t] <= now
        /\ t \notin targets => cache[t] = {} /\ books[t] = {}
        /\ \A p \in cache[t] \cup books[t] : OfSession(t, p)

LEMMA EmptyFeed ==
    /\ Empty \in Feed /\ \A t \in Tickers : Empty[t] = {}
    /\ \A f \in Feed : (\A t \in Tickers : f[t] = {}) => f = Empty
BY DEF Empty, Feed

\* A step that adds nothing to what is kept, over the same connection and for the same tickers.
LEMMA SessionShrinks ==
    ASSUME Session, UNCHANGED <<now, targets, link, wantedSince>>, cache' \in Feed, books' \in Feed,
           \A t \in Tickers : cache'[t] \subseteq cache[t] /\ books'[t] \subseteq books[t],
           connected' = connected
    PROVE  Session'
<1>1. StreamTypes'
  BY DEF Session, StreamTypes
<1>2. ~connected' => cache' = Empty /\ books' = Empty
  <2>1. ASSUME ~connected PROVE \A t \in Tickers : cache'[t] = {} /\ books'[t] = {}
    BY <2>1, EmptyFeed DEF Session
  <2> QED BY <2>1 DEF Feed, Empty
<1>3. ASSUME NEW t \in Tickers
      PROVE  /\ wantedSince'[t] <= now'
             /\ t \notin targets' => cache'[t] = {} /\ books'[t] = {}
             /\ \A p \in cache'[t] \cup books'[t] : OfSession(t, p)'
  BY DEF Session, OfSession
<1> QED BY <1>1, <1>2, <1>3 DEF Session

\* A packet that arrives now.
LEMMA SessionArrives ==
    ASSUME Session, UNCHANGED <<now, targets, link, wantedSince, connected>>, connected,
           cache' \in Feed, books' \in Feed,
           \A t \in Tickers : \A p \in cache'[t] \cup books'[t] :
                \/ p \in cache[t] \cup books[t]
                \/ t \in targets /\ p.link = link /\ p.received = now
    PROVE  Session'
<1>1. StreamTypes'
  BY DEF Session, StreamTypes
<1>2. ASSUME NEW t \in Tickers
      PROVE  /\ wantedSince'[t] <= now'
             /\ t \notin targets' => cache'[t] = {} /\ books'[t] = {}
             /\ \A p \in cache'[t] \cup books'[t] : OfSession(t, p)'
  <2>1. wantedSince'[t] <= now' /\ (t \notin targets => cache[t] = {} /\ books[t] = {})
    BY DEF Session
  <2>2. \A p \in cache[t] \cup books[t] : OfSession(t, p)
    BY DEF Session
  <2> QED BY <2>1, <2>2 DEF OfSession
<1> QED BY <1>1, <1>2 DEF Session

LEMMA SessionReplace ==
    ASSUME Session, NEW c \in SUBSET Tickers, NEW open \in BOOLEAN, Replace(c, open)
    PROVE  Session'
<1>1. PICK ts \in SUBSET Tickers :
        /\ targets' = ts /\ cache' = Kept(cache, ts, {}) /\ books' = Kept(books, ts, {})
        /\ wantedSince' = [t \in Tickers |-> IF t \in ts \ targets THEN now ELSE wantedSince[t]]
        /\ UNCHANGED <<now, link, connected>>
  <2>1. Wanted(c) \in SUBSET Tickers
    BY WantedFits
  <2> QED BY <2>1 DEF Replace, BooksOf
<1>2. cache' \in Feed /\ books' \in Feed
  BY <1>1 DEF Session, StreamTypes, Feed, Kept
<1>3. StreamTypes'
  BY <1>1, <1>2 DEF Session, StreamTypes
<1>4. ASSUME NEW t \in Tickers
      PROVE  /\ wantedSince'[t] <= now'
             /\ t \notin targets' => cache'[t] = {} /\ books'[t] = {}
             /\ \A p \in cache'[t] \cup books'[t] : OfSession(t, p)'
             /\ cache'[t] \subseteq cache[t] /\ books'[t] \subseteq books[t]
  <2>1. /\ cache'[t] = IF t \in ts THEN cache[t] ELSE {}
        /\ books'[t] = IF t \in ts THEN books[t] ELSE {}
        /\ wantedSince'[t] = IF t \in ts \ targets THEN now ELSE wantedSince[t]
    BY <1>1 DEF Kept
  <2>2. /\ wantedSince[t] <= now /\ now \in Nat /\ (t \notin targets => cache[t] = {} /\ books[t] = {})
        /\ \A p \in cache[t] \cup books[t] : OfSession(t, p)
    BY DEF Session, StreamTypes
  <2>3. CASE t \in ts /\ t \in targets
    BY <1>1, <2>1, <2>2, <2>3 DEF OfSession
  <2>4. CASE ~(t \in ts /\ t \in targets)
    BY <1>1, <2>1, <2>2, <2>4
  <2> QED BY <2>3, <2>4
<1>5. ~connected' => cache' = Empty /\ books' = Empty
  <2>1. ASSUME ~connected PROVE \A t \in Tickers : cache'[t] = {} /\ books'[t] = {}
    BY <1>4, <2>1, EmptyFeed DEF Session
  <2>2. ASSUME ~connected PROVE cache' = Empty /\ books' = Empty
    <3>1. \A t \in Tickers : cache'[t] = {} /\ books'[t] = {}
      BY <2>1, <2>2
    <3> QED BY <1>2, <3>1, EmptyFeed
  <2> QED BY <1>1, <2>2
<1> QED BY <1>3, <1>4, <1>5 DEF Session

LEMMA SessionReceive ==
    ASSUME Session, NEW t \in Tickers, NEW stamp \in 0..MaxClock, NEW regular \in BOOLEAN,
           ReceiveBook(t, stamp) \/ ReceiveTrade(t, stamp, regular)
    PROVE  Session'
<1>1. /\ connected /\ UNCHANGED <<now, targets, link, wantedSince, connected>>
      /\ cache \in Feed /\ books \in Feed
  BY DEF ReceiveBook, ReceiveTrade, Session, StreamTypes
<1>2. Packet(stamp) \in PacketRecord /\ Packet(stamp).link = link /\ Packet(stamp).received = now
  BY StreamAssumption DEF Packet, PacketRecord, Session, StreamTypes
<1>3. \/ UNCHANGED <<cache, books>>
      \/ t \in targets /\ books' = [books EXCEPT ![t] = {Packet(stamp)}] /\ cache' = cache
      \/ t \in targets /\ cache' = [cache EXCEPT ![t] = {Packet(stamp)}] /\ books' = books
      \/ cache' = [cache EXCEPT ![t] = {}] /\ books' = books
  BY DEF ReceiveBook, ReceiveTrade
<1>4. cache' \in Feed /\ books' \in Feed
  BY <1>1, <1>2, <1>3 DEF Feed
<1>5. \A u \in Tickers : \A p \in cache'[u] \cup books'[u] :
          \/ p \in cache[u] \cup books[u]
          \/ u \in targets /\ p.link = link /\ p.received = now
  <2> DEFINE new == Packet(stamp)
  <2>1. new.link = link /\ new.received = now
    BY <1>2
  <2> HIDE DEF new
  <2>2. ASSUME NEW u \in Tickers, NEW p \in cache'[u] \cup books'[u], p \notin cache[u] \cup books[u]
        PROVE  u \in targets /\ p.link = link /\ p.received = now
    <3>1. CASE t \in targets /\ books' = [books EXCEPT ![t] = {Packet(stamp)}] /\ cache' = cache
      BY <1>1, <2>1, <2>2, <3>1 DEF Feed, new
    <3>2. CASE t \in targets /\ cache' = [cache EXCEPT ![t] = {Packet(stamp)}] /\ books' = books
      BY <1>1, <2>1, <2>2, <3>2 DEF Feed, new
    <3>3. CASE books' = books /\ (cache' = cache \/ cache' = [cache EXCEPT ![t] = {}])
      BY <1>1, <2>2, <3>3 DEF Feed
    <3> QED BY <1>3, <3>1, <3>2, <3>3
  <2> QED BY <2>2
<1> QED BY <1>1, <1>4, <1>5, SessionArrives

LEMMA SessionStep == Session /\ [StreamNext]_streamVars => Session'
<1> SUFFICES ASSUME Session, [StreamNext]_streamVars PROVE Session'
  OBVIOUS
<1>0. cache \in Feed /\ books \in Feed
  BY DEF Session, StreamTypes
<1>1. CASE Change \/ UNCHANGED streamVars
  BY <1>0, <1>1, SessionShrinks DEF Change, streamVars, feeds
<1>2. CASE Tick
  <2>1. now' = now + 1 /\ UNCHANGED <<targets, cache, books, link, wantedSince, connected>>
    BY <1>2 DEF Tick, feeds
  <2>2. \A t \in Tickers : wantedSince[t] \in Nat /\ wantedSince[t] <= now /\ now \in Nat
    BY DEF Session, StreamTypes
  <2> QED BY <2>1, <2>2 DEF Session, StreamTypes, OfSession
<1>3. CASE OpenLink
  <2>1. /\ cache = Empty /\ books = Empty /\ link' = link + 1
        /\ UNCHANGED <<now, targets, cache, books, wantedSince>> /\ connected'
    BY <1>3 DEF OpenLink, Session, feeds
  <2> QED BY <2>1, EmptyFeed DEF Session, StreamTypes, OfSession
<1>4. CASE Acknowledge
  <2>1. /\ UNCHANGED <<now, targets, link, wantedSince, connected>>
        /\ \/ cache' = cache \/ cache' = [cache EXCEPT ![change.ticker] = {}]
        /\ \/ books' = books \/ books' = [books EXCEPT ![change.ticker] = {}]
    BY <1>4 DEF Acknowledge
  <2>2. cache' \in Feed /\ books' \in Feed
    BY <1>0, <2>1 DEF Feed
  <2>3. \A t \in Tickers : cache'[t] \subseteq cache[t] /\ books'[t] \subseteq books[t]
    BY <1>0, <2>1 DEF Feed
  <2> QED BY <2>1, <2>2, <2>3, SessionShrinks
<1>5. CASE Lose \/ Close
  <2>1. /\ cache' = Empty /\ books' = Empty
        /\ UNCHANGED <<now, targets, link, wantedSince>>
    BY <1>5 DEF Lose, Close
  <2> QED BY <2>1, EmptyFeed DEF Session, StreamTypes
<1>6. ASSUME NEW t \in Tickers, Quote(t) PROVE Session'
  <2>1. /\ UNCHANGED <<now, targets, link, wantedSince, connected, books>>
        /\ \/ cache' = cache \/ cache' = [cache EXCEPT ![t] = {}]
    BY <1>6 DEF Quote
  <2>2. cache' \in Feed /\ books' \in Feed
    BY <1>0, <2>1 DEF Feed
  <2>3. \A u \in Tickers : cache'[u] \subseteq cache[u] /\ books'[u] \subseteq books[u]
    BY <1>0, <2>1 DEF Feed
  <2> QED BY <2>1, <2>2, <2>3, SessionShrinks
<1> QED BY <1>1, <1>2, <1>3, <1>4, <1>5, <1>6, SessionReplace, SessionReceive DEF StreamNext

\* Only a quote gives, and what it gives is kept and fresh.
LEMMA GivenKept ==
    ASSUME Session, [StreamNext]_streamVars, given' # given
    PROVE  \A q \in given' : /\ q.packet.link = link
                              /\ q.packet.received >= wantedSince[q.ticker]
                              /\ now - q.packet.stamp <= MaxAge
<1>1. PICK t \in Tickers : Quote(t)
  BY DEF StreamNext, streamVars, Tick, OpenLink, Change, Acknowledge, Lose, Close, Replace,
         ReceiveBook, ReceiveTrade
<1>2. PICK p \in cache[t] \cup books[t] : Fresh(p) /\ given' = {[ticker |-> t, packet |-> p, at |-> now]}
  BY <1>1 DEF Quote, Give
<1>3. OfSession(t, p) /\ p.received \in Nat /\ wantedSince[t] \in Nat
  BY DEF Session, StreamTypes, Feed, PacketRecord
<1> QED BY <1>2, <1>3 DEF OfSession, Fresh

\* A quote is never one of a connection that was lost, nor of the time before its ticker was
\* last asked for.  (quote, replace, _reset)
THEOREM SessionQuotes == StreamSpec => QuoteOfThisSession
<1>1. StreamInit => Session
  BY EmptyFeed DEF StreamInit, Session, StreamTypes
<1>2. StreamSpec => []Session
  BY <1>1, SessionStep, PTL DEF StreamSpec
<1>3. Session /\ [StreamNext]_streamVars =>
        [given' /= given =>
            \A q \in given' : /\ q.packet.link = link
                               /\ q.packet.received >= wantedSince[q.ticker]
                               /\ now - q.packet.stamp <= MaxAge]_streamVars
  BY GivenKept
<1> QED BY <1>2, <1>3, PTL DEF StreamSpec, QuoteOfThisSession
=============================================================================

------------------------------- MODULE NavRisk -------------------------------
(***************************************************************************)
(* Net asset value, the flow-adjusted return index, and the new risk they  *)
(* allow (accounting.py: performance; risk.py: DrawdownCircuit;            *)
(* application.py: record_nav, finalize_nav, resume). The monitor, a       *)
(* review, the finalization and the operator run in threads of their own;  *)
(* any of them may be the one whose reconciliation finds a cash flow.      *)
(***************************************************************************)
EXTENDS Integers, Sequences, FiniteSets

CONSTANTS Start,       \* net asset value at the adoption of the account
          Moves,       \* what the market may do to it
          Deposits,    \* deposits (withdrawals if negative) by the owner
          MinWorth,    \* bound: the market takes it no lower
          MaxClock     \* bound: moments told apart

ASSUME NavAssumption ==
    Start \in Nat \ {0} /\ Moves \subseteq Int /\ Deposits \subseteq Int
    /\ MinWorth \in Nat \ {0} /\ MaxClock \in Nat

VARIABLES
    now,
    worth,            \* cash and positions in the ledger, at current marks
    unseen,           \* a transfer the ledger has not observed
    unclassified,     \* performance_uncertain
    unexplained,      \* the cash adjustment waiting for evidence
    navFlows,         \* external_flows
    points,           \* nav_points
    high,             \* drawdown_high_watermark
    riskUnverified,   \* nav_risk_unverified
    drawdownPaused,   \* drawdown_paused
    operatorPaused,   \* paused
    version,          \* account_version
    monitor,          \* where the monitor's tick is
    review,           \* the entry a review is about to make
    resuming,         \* where a resume is
    closing,          \* the session's close, and the market's moves since
    truth,            \* the anchor of the index the market really gave since the adoption
    best              \* and its high when a verified valuation was recorded

entry == <<review, resuming>>
navVars == <<now, worth, unseen, unclassified, unexplained, navFlows, points, high, riskUnverified,
             drawdownPaused, operatorPaused, version, monitor, review, resuming, closing, truth, best>>

----------------------------------------------------------------------------
(* performance: an index linked over every flow, as fractions *)

One == [n |-> 1, d |-> 1]
Ratio(x, a, b) == [n |-> x.n * a, d |-> x.d * b]
AtMost(x, y) == x.n * y.d <= y.n * x.d
Larger(x, y) == IF AtMost(x, y) THEN y ELSE x

\* Ten percent below the high.
Fell(x, top) == 10 * x.n * top.d <= 9 * top.n * x.d

Earliest(ps) == CHOOSE p \in ps : \A q \in ps : p.at <= q.at
Newest(ps) == CHOOSE p \in ps : \A q \in ps : q.at <= p.at
During(fs, ps) == {f \in fs : Earliest(ps).at < f.at /\ f.at <= Newest(ps).at}

\* A point is the valuation after a flow of the same time.
Events(ps, fs) ==
    {[at |-> f.at, before |-> f.before, after |-> f.after, flow |-> TRUE] : f \in During(fs, ps)}
    \cup {[at |-> p.at, before |-> p.nav, after |-> p.nav, flow |-> FALSE] :
            p \in {q \in ps : q.at > Earliest(ps).at /\ \A f \in During(fs, ps) : f.at /= q.at}}

\* Mutant: values are compared as if every change of value were a return.
RawWalk(ps, fs) ==
    LET x == Ratio(One, Newest(ps).nav, Earliest(ps).nav)
    IN [index |-> x, top |-> Larger(One, x)]

\* The index after an event; a flow is the anchor of what follows it.
After(acc, e) ==
    LET x == Ratio(acc.anchor, e.before, acc.nav)
    IN [index |-> x, top |-> Larger(acc.top, x),
        anchor |-> IF e.flow THEN x ELSE acc.anchor,
        nav |-> IF e.flow THEN e.after ELSE acc.nav]

\* The events in the order of their times, of which each has one at most.
Walk(ps, fs) ==
    LET first == Earliest(ps)
        At(t) == {e \in Events(ps, fs) : e.at = t}
        walk[t \in first.at..Newest(ps).at] ==
            IF t = first.at THEN [index |-> One, top |-> One, anchor |-> One, nav |-> first.nav]
            ELSE IF At(t) = {} THEN walk[t - 1] ELSE After(walk[t - 1], CHOOSE e \in At(t) : TRUE)
    IN walk[Newest(ps).at]

\* Every flow is valued before and after, and agrees with a point of the same time.
Linked(ps, fs) ==
    /\ \A f \in During(fs, ps) :
        /\ f.before >= 0 /\ f.after > 0 /\ f.before + f.amount = f.after
        /\ \A p \in ps : p.at = f.at => p.nav = f.after
    /\ \A p \in ps : p.nav > 0

----------------------------------------------------------------------------

NavInit ==
    /\ now = 1 /\ worth = Start /\ unseen = 0
    /\ unclassified = FALSE /\ unexplained = <<>> /\ navFlows = {}
    /\ points = {[at |-> 0, nav |-> Start, exact |-> TRUE, completed |-> FALSE]}
    /\ high = One /\ riskUnverified = FALSE /\ drawdownPaused = FALSE /\ operatorPaused = FALSE
    /\ version = 0 /\ monitor = "idle" /\ resuming = "no"
    /\ review = [at |-> "idle", version |-> 0]
    /\ closing = [at |-> 0, moved |-> 0, done |-> FALSE]
    /\ truth = [anchor |-> One, nav |-> Start] /\ best = One

Tick == now < MaxClock /\ now' = now + 1
TrueIndex == Ratio(truth.anchor, worth, truth.nav)

MarketMoves ==
    /\ Tick /\ \E m \in Moves : worth + m >= MinWorth /\ worth' = worth + m
                                /\ closing' = [closing EXCEPT !.moved = @ + m]
    /\ UNCHANGED <<unseen, unclassified, unexplained, navFlows, points, high, riskUnverified,
                   drawdownPaused, operatorPaused, version, monitor, entry, truth, best>>

OwnerTransfers ==
    /\ Tick /\ unseen = 0 /\ navFlows = {} /\ ~unclassified
    /\ \E a \in Deposits : worth + a > 0 /\ unseen' = a
    /\ UNCHANGED <<worth, unclassified, unexplained, navFlows, points, high, riskUnverified,
                   drawdownPaused, operatorPaused, version, monitor, entry, closing, truth, best>>

SessionCloses ==
    /\ Tick /\ closing.at = 0 /\ closing' = [at |-> now, moved |-> 0, done |-> FALSE]
    /\ UNCHANGED <<worth, unseen, unclassified, unexplained, navFlows, points, high, riskUnverified,
                   drawdownPaused, operatorPaused, version, monitor, entry, truth, best>>

----------------------------------------------------------------------------
(* Reconciliation, by whichever thread *)

\* Cash that no trade explains changes the ledger and its version, and waits for evidence.
Observe ==
    IF unseen = 0 THEN UNCHANGED <<worth, unseen, unclassified, unexplained, version, truth>>
    ELSE /\ worth' = worth + unseen /\ unseen' = 0
         /\ unexplained' = <<[at |-> now, amount |-> unseen, before |-> worth,
                              after |-> worth + unseen]>>
         /\ unclassified' = TRUE /\ version' = version + 1
         /\ truth' = [truth EXCEPT !.anchor = TrueIndex, !.nav = worth + unseen]

\* The operator's evidence explains the flow.
Explain ==
    /\ Tick /\ unexplained /= <<>>
    /\ navFlows' = navFlows \cup {Head(unexplained)} /\ unexplained' = <<>>
    /\ unclassified' = FALSE /\ version' = version + 1
    /\ UNCHANGED <<worth, unseen, points, high, riskUnverified, drawdownPaused, operatorPaused,
                   monitor, entry, closing, truth, best>>

----------------------------------------------------------------------------
(* record_nav *)

Verified(ps) == {p \in ps : p.exact}

\* Points of the same time are replaced, unless one of them is a completed close.
Recorded(point) ==
    LET same == {p \in points : p.at = point.at}
    IN IF \E p \in same : p.completed THEN points ELSE (points \ same) \cup {point}

\* The risk index spans the verified points only; unclassified cash leaves it unverified.
RiskExact(ps) == ps /= {} /\ ~unclassified /\ (Cardinality(ps) = 1 \/ Linked(ps, navFlows))

RecordPoint(point) ==
    LET all == Recorded(point)
        ps == Verified(all)
        walk == Walk(ps, navFlows)
        top == Larger(high, walk.top)
    IN /\ points' = all
       /\ riskUnverified' = (~point.exact \/ ~RiskExact(ps))
       /\ IF RiskExact(ps)
            THEN /\ high' = top
                 /\ drawdownPaused' = (drawdownPaused \/ Fell(walk.index, top))
            ELSE UNCHANGED <<high, drawdownPaused>>

\* Now, if marks are fresh and the account is reconciled.
RecordNow ==
    /\ \E fresh \in BOOLEAN :
        RecordPoint([at |-> now, nav |-> worth, exact |-> fresh /\ ~unclassified, completed |-> FALSE])
    /\ best' = IF riskUnverified' THEN best ELSE Larger(best, TrueIndex)

----------------------------------------------------------------------------
(* The monitor: protect reconciles, then records *)

MonitorReconciles ==
    /\ Tick /\ monitor = "idle" /\ monitor' = "reconciled" /\ Observe
    /\ UNCHANGED <<navFlows, points, high, riskUnverified, drawdownPaused, operatorPaused, entry,
                   closing, best>>

MonitorRecords ==
    /\ Tick /\ monitor = "reconciled" /\ monitor' = "recorded" /\ RecordNow
    /\ UNCHANGED <<worth, unseen, unclassified, unexplained, navFlows, operatorPaused, version, entry,
                   closing, truth>>

\* The tick ends: an exit order was sent, whose preflight reconciles again, or not; or it
\* raised before it recorded.
MonitorEnds ==
    /\ Tick /\ monitor /= "idle" /\ monitor' = "idle"
    /\ \/ monitor = "recorded" /\ Observe
       \/ UNCHANGED <<worth, unseen, unclassified, unexplained, version, truth>>
    /\ UNCHANGED <<navFlows, points, high, riskUnverified, drawdownPaused, operatorPaused, entry,
                   closing, best>>

----------------------------------------------------------------------------
(* finalize_nav *)

\* The close is valued with the cash now and the closing prices, as of the close.
Finalize ==
    /\ Tick /\ closing.at > 0 /\ ~closing.done
    /\ Observe
    /\ IF unclassified'
         THEN UNCHANGED <<points, high, riskUnverified, drawdownPaused, closing>>
         ELSE /\ RecordPoint([at |-> closing.at, nav |-> worth - closing.moved, exact |-> TRUE,
                              completed |-> TRUE])
              /\ closing' = [closing EXCEPT !.done = TRUE]
    /\ UNCHANGED <<navFlows, operatorPaused, monitor, entry, best>>

----------------------------------------------------------------------------
(* pause, resume *)

Pause ==
    /\ Tick /\ operatorPaused' = TRUE /\ version' = version + 1
    /\ UNCHANGED <<worth, unseen, unclassified, unexplained, navFlows, points, high, riskUnverified,
                   drawdownPaused, monitor, entry, closing, truth, best>>

\* resume reconciles, as the others do.
ResumeReconciles ==
    /\ Tick /\ resuming = "no" /\ (operatorPaused \/ drawdownPaused)
    /\ resuming' = "reconciled" /\ Observe
    /\ UNCHANGED <<navFlows, points, high, riskUnverified, drawdownPaused, operatorPaused, monitor,
                   review, closing, best>>

\* It records and checks; approved: its approval covers a drawdown.
ResumeRecords ==
    /\ Tick /\ resuming = "reconciled" /\ RecordNow
    /\ \E approved \in BOOLEAN :
        resuming' = IF ~riskUnverified' /\ (drawdownPaused' => approved) THEN "checked" ELSE "no"
    /\ UNCHANGED <<worth, unseen, unclassified, unexplained, navFlows, operatorPaused, version,
                   monitor, review, closing, truth>>

ResumeCommits ==
    /\ Tick /\ resuming = "checked" /\ resuming' = "no"
    /\ operatorPaused' = FALSE /\ drawdownPaused' = FALSE
    /\ UNCHANGED <<worth, unseen, unclassified, unexplained, navFlows, points, high, riskUnverified,
                   version, monitor, review, closing, truth, best>>

----------------------------------------------------------------------------
(* A review's entry *)

NewRisk == ~operatorPaused /\ ~drawdownPaused /\ ~riskUnverified

\* size_entry plans from a portfolio that allows new risk.
SizeEntry ==
    /\ Tick /\ review.at = "idle" /\ NewRisk
    /\ review' = [review EXCEPT !.at = "sized"]
    /\ UNCHANGED <<worth, unseen, unclassified, unexplained, navFlows, points, high, riskUnverified,
                   drawdownPaused, operatorPaused, version, monitor, resuming, closing, truth, best>>

\* The intent takes the account version read after that.
PlanEntry ==
    /\ Tick /\ review.at = "sized"
    /\ review' = [at |-> "planned", version |-> version]
    /\ UNCHANGED <<worth, unseen, unclassified, unexplained, navFlows, points, high, riskUnverified,
                   drawdownPaused, operatorPaused, version, monitor, resuming, closing, truth, best>>

\* _preflight reconciles a fresh account if the version still stands.
PreflightEntry ==
    /\ Tick /\ review.at = "planned"
    /\ IF version = review.version
         THEN Observe /\ review' = [review EXCEPT !.at = "checked"]
         ELSE /\ review' = [review EXCEPT !.at = "idle"]
              /\ UNCHANGED <<worth, unseen, unclassified, unexplained, version, truth>>
    /\ UNCHANGED <<navFlows, points, high, riskUnverified, drawdownPaused, operatorPaused, monitor,
                   resuming, closing, best>>

\* _validate_state: the last check before the order is sent.
MaySend == NewRisk /\ version = review.version

SendEntry ==
    /\ Tick /\ review.at = "checked"
    /\ review' = [review EXCEPT !.at = IF MaySend THEN "sent" ELSE "idle"]
    /\ UNCHANGED <<worth, unseen, unclassified, unexplained, navFlows, points, high, riskUnverified,
                   drawdownPaused, operatorPaused, version, monitor, resuming, closing, truth, best>>

NavNext ==
    \/ MarketMoves \/ OwnerTransfers \/ SessionCloses \/ Explain
    \/ MonitorReconciles \/ MonitorRecords \/ MonitorEnds \/ Finalize
    \/ Pause \/ ResumeReconciles \/ ResumeRecords \/ ResumeCommits
    \/ SizeEntry \/ PlanEntry \/ PreflightEntry \/ SendEntry

NavSpec == NavInit /\ [][NavNext]_navVars

----------------------------------------------------------------------------
(* Properties *)

\* The domains of the variables; the verified points are in the order of their times.
NavTypeOK ==
    /\ now \in 1..MaxClock /\ worth > 0 /\ unseen \in Deposits \cup {0}
    /\ unclassified = (unexplained /= <<>>)
    /\ \A p, q \in points : p.at <= now /\ (p.at = q.at => p = q)
    /\ \A f \in navFlows : f.at < now
    /\ monitor \in {"idle", "reconciled", "recorded"}
    /\ resuming \in {"no", "reconciled", "checked"}
    /\ review.at \in {"idle", "sized", "planned", "checked", "sent"} /\ review.version <= version

\* After a tick recorded a verified index, a loss of ten percent against the best verified
\* valuation has paused new risk; neither a deposit, a withdrawal, a missing valuation nor
\* the valuation of the session's close, which comes later, hides it.
\* (record_nav, performance, DrawdownCircuit)
LossPauses ==
    [][monitor' = "recorded" /\ monitor = "reconciled" /\ ~riskUnverified' /\ Fell(TrueIndex, best)
        => drawdownPaused']_navVars

\* Cash that nothing explains blocks new purchases.  (docs/cash-reconciliation.md)
UnexplainedBlocksBuys == [][review'.at = "sent" /\ review.at /= "sent" => ~unclassified]_navVars
=============================================================================

---------------------------- MODULE OrderPromise ----------------------------
(***************************************************************************)
(* What the trading engine promises of the orders it sends, with none of   *)
(* the machinery: no rows, locks, threads, snapshots or restarts.          *)
(*                                                                         *)
(* An order is posted to the broker at most once, and never while the fate *)
(* of any order is in doubt.  The broker trades it; the engine books what  *)
(* traded, never more, and never takes a booking back.                     *)
(***************************************************************************)
EXTENDS Integers

CONSTANTS
    Intents,
    Quantity            \* [Intents -> Nat \ {0}]

VARIABLES
    posts,              \* how often each order was posted to the broker
    traded,             \* the shares each order has traded there
    booked,             \* the shares the engine has booked of it
    doubtful            \* the orders whose fate the engine does not know

vars == <<posts, traded, booked, doubtful>>

Init ==
    /\ posts = [i \in Intents |-> 0]
    /\ traded = [i \in Intents |-> 0]
    /\ booked = [i \in Intents |-> 0]
    /\ doubtful = {}

\* The answer may be lost with the order.
Send(i) ==
    /\ posts[i] = 0
    /\ doubtful = {}
    /\ posts' = [posts EXCEPT ![i] = 1]
    /\ doubtful' \in {{}, {i}}
    /\ UNCHANGED <<traded, booked>>

Trade(i) ==
    /\ posts[i] = 1
    /\ traded[i] < Quantity[i]
    /\ traded' = [traded EXCEPT ![i] = @ + 1]
    /\ UNCHANGED <<posts, booked, doubtful>>

\* The bookings may lag behind, and catch up by several shares at once.
Book(i) ==
    /\ \E n \in (booked[i] + 1)..traded[i] : booked' = [booked EXCEPT ![i] = n]
    /\ doubtful' \in {doubtful, doubtful \ {i}}
    /\ UNCHANGED <<posts, traded>>

\* An answer is lost, or a restart finds what may have been sent.
Doubt(S) ==
    /\ doubtful' = doubtful \cup S
    /\ UNCHANGED <<posts, traded, booked>>

Resolve(i) ==
    /\ doubtful' = doubtful \ {i}
    /\ UNCHANGED <<posts, traded, booked>>

Next ==
    \/ \E i \in Intents : Send(i) \/ Trade(i) \/ Book(i) \/ Resolve(i)
    \/ \E S \in SUBSET Intents : Doubt(S)

Spec == Init /\ [][Next]_vars

=============================================================================

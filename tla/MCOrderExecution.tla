-------------------------- MODULE MCOrderExecution --------------------------
(***************************************************************************)
(* Small instances of OrderExecution.  t1 runs the monitor, t2 the reviews *)
(* or a second monitor; b1 and b2 are entries in the one instrument, s1    *)
(* and s2 exits from it.  A share costs 1 of the 5 won there are, and an   *)
(* entry reserves 2 per share: the two shares of b1 leave too little for   *)
(* the one share of b2 until some of them have filled or were released.    *)
(***************************************************************************)
EXTENDS OrderExecution

CONSTANTS t1, t2, b1, b2, s1, s2, stock

OneStock == [i \in Intents |-> stock]
TwoShares == [i \in Intents |-> 2]
OneShare == [i \in Intents |-> 1]
TwoAndOne == [i \in Intents |-> IF i = b1 THEN 2 ELSE 1]
OneWon == [i \in Intents |-> 1]
ReserveTwo == [i \in Intents |-> IF i \in Buys THEN 2 ELSE 0]
OneHeld == [x \in Instruments |-> 1]
TwoHeld == [x \in Instruments |-> 2]
=============================================================================

----------------------------- MODULE PaperProofs -----------------------------
(***************************************************************************)
(* OpenOrdersCovered and BooksBalance for any instruments, prices, fees,   *)
(* capital and number of orders: no replay is aborted by a fill, and the   *)
(* arm's cash and quantities are those its theses account for.             *)
(*                                                                         *)
(* Both rest on one working order for an instrument (Alone), since an exit *)
(* waits for the cancels of the entries, and an entry for a flat book: it  *)
(* makes what is held belong to one thesis (Owned, Quits) and what may     *)
(* fill next known (Exits, Enters).  A fill of an entry costs no more than *)
(* what its reservation falls by (EntryPays), so that the cash covers the  *)
(* reservations (Affordable) after every fill, and a fill of an exit never *)
(* costs more than it brings (SalePays).                                   *)
(***************************************************************************)
EXTENDS PaperLedger, FiniteSums, SequenceTheorems, TLAPS

-----------------------------------------------------------------------------
(* The inductive invariant, of a book b *)

Statuses == {"PENDING", "PARTIAL", "CANCEL_REQUESTED", "CANCELLED", "EXPIRED", "FILLED"}
Order == [side: {"BUY", "SELL"}, symbol: Symbols, qty: Nat, filled: Nat, gross: Nat, charged: Nat,
          status: Statuses, asked: BOOLEAN, ack: Int, eligible: Int, expires: Int, thesis: Nat]
Holding == [qty: Nat, thesis: Nat]
Stats == [spent: Int, bought: Int, got: Int, sold: Int]
Theses == 1..MaxOrders
Book == [cash: Int, orders: Seq(Order), holds: [Symbols -> Holding], stats: [Theses -> Stats],
         paused: BOOLEAN, tripped: BOOLEAN, unresolved: BOOLEAN, halted: SUBSET Symbols]

Typed(b) == b \in Book /\ Len(b.orders) <= MaxOrders

\* What order i says of itself, and, while it works, of the holding and the thesis it is for.
Sound(b, i) ==
    /\ b.orders[i].filled <= b.orders[i].qty
    /\ Working(b.orders[i]) => b.orders[i].filled < b.orders[i].qty
    /\ b.orders[i].charged = Fee(b.orders[i].gross)
    /\ b.orders[i].asked /\ Working(b.orders[i]) => b.orders[i].status = "CANCEL_REQUESTED"
    /\ b.orders[i].side = "BUY" => b.orders[i].thesis = i

Exits(b, i) ==
    b.orders[i].side = "SELL" /\ Working(b.orders[i]) =>
        /\ Unfilled(b.orders[i]) <= b.holds[b.orders[i].symbol].qty
        /\ b.orders[i].thesis = b.holds[b.orders[i].symbol].thesis

Enters(b, i) ==
    b.orders[i].side = "BUY" /\ Working(b.orders[i]) =>
        /\ b.holds[b.orders[i].symbol].qty = 0 => b.stats[i] = NoStats
        /\ b.holds[b.orders[i].symbol].qty > 0 => b.holds[b.orders[i].symbol].thesis = i

\* An instrument has one working order: an exit waits for the cancels of the entries.
Alone(b) ==
    \A i, j \in DOMAIN b.orders :
        Working(b.orders[i]) /\ Working(b.orders[j]) /\ b.orders[i].symbol = b.orders[j].symbol => i = j

\* A holding is what its thesis bought and has not sold; a thesis without one has sold all.
Owned(b, s) ==
    /\ b.holds[s].qty = 0 => b.holds[s].thesis = 0
    /\ b.holds[s].qty > 0 =>
           /\ b.holds[s].thesis \in DOMAIN b.orders
           /\ b.orders[b.holds[s].thesis].side = "BUY" /\ b.orders[b.holds[s].thesis].symbol = s
           /\ b.stats[b.holds[s].thesis].bought - b.stats[b.holds[s].thesis].sold = b.holds[s].qty

Quits(b, t) ==
    /\ (\A s \in Symbols : b.holds[s].thesis # t) => b.stats[t].bought = b.stats[t].sold
    /\ t > Len(b.orders) => b.stats[t] = NoStats

\* The cash is what the theses gained, and covers what working entries reserve.
Gains(b) == [t \in Theses |-> b.stats[t].got - b.stats[t].spent]
Claims(b) == [i \in Theses |-> IF i \in OpenOf(b, "BUY", Symbols) THEN ReservedFor(b.orders[i]) ELSE 0]
Paid(b) == b.cash = Capital + SumFunctionOnSet(Gains(b), Theses)
Affordable(b) == SumFunctionOnSet(Claims(b), Theses) <= b.cash

Placed(b) ==
    /\ \A i \in DOMAIN b.orders : Sound(b, i) /\ Exits(b, i) /\ Enters(b, i)
    /\ Alone(b)
    /\ \A s \in Symbols : Owned(b, s)
    /\ \A t \in Theses : Quits(b, t)

BookInv(b) == Typed(b) /\ Placed(b) /\ Paid(b) /\ Affordable(b)

PaperInv ==
    /\ BookInv(book) /\ clock \in Nat
    /\ event.at # "aborted" /\ event.left \subseteq Symbols

-----------------------------------------------------------------------------
(* Fees and reservations *)

\* The larger and the smaller of two numbers, as Max and Min choose them.
LEMMA MaxOf ==
    ASSUME NEW a \in Int, NEW b \in Int
    PROVE  Max({a, b}) = IF a >= b THEN a ELSE b
  <1> DEFINE m == IF a >= b THEN a ELSE b
             P(x) == x \in {a, b} /\ \A y \in {a, b} : x >= y
  <1>1. P(m)
    OBVIOUS
  <1>2. P(Max({a, b}))
    <2>1. Max({a, b}) = CHOOSE x : P(x)
      BY DEF Max
    <2> HIDE DEF P
    <2> QED BY <1>1, <2>1
  <1> QED BY <1>1, <1>2

LEMMA MinOf ==
    ASSUME NEW a \in Int, NEW b \in Int
    PROVE  Min({a, b}) = IF a <= b THEN a ELSE b
  <1> DEFINE m == IF a <= b THEN a ELSE b
             P(x) == x \in {a, b} /\ \A y \in {a, b} : x <= y
  <1>1. P(m)
    OBVIOUS
  <1>2. P(Min({a, b}))
    <2>1. Min({a, b}) = CHOOSE x : P(x)
      BY DEF Min
    <2> HIDE DEF P
    <2> QED BY <1>1, <2>1
  <1> QED BY <1>1, <1>2

LEMMA DivMonotone ==
    ASSUME NEW k \in Nat \ {0}, NEW a \in Nat, NEW b \in Nat, a <= b
    PROVE  a \div k \in Nat /\ a \div k <= b \div k
  OBVIOUS

LEMMA Constants ==
    /\ Capital \in Nat /\ Limit \in Nat /\ MinFee \in Nat /\ MaxOrders \in Nat /\ MaxQuantity \in Nat
    /\ MaxTime \in Nat /\ TransmissionDelay \in Nat /\ CancelDelay \in Nat /\ Life \in Nat
    /\ Asks \subseteq Nat /\ Bids \subseteq Nat
    /\ RatePart \in Nat \ {0} /\ TaxPart \in Nat \ {0}
  BY PaperAssumption

\* The commission is a natural number.
LEMMA FeeIs ==
    ASSUME NEW g \in Nat
    PROVE  /\ Fee(g) = IF g = 0 THEN 0 ELSE IF g \div RatePart >= MinFee THEN g \div RatePart ELSE MinFee
           /\ Fee(g) \in Nat
  <1>1. g \div RatePart \in Nat /\ MinFee \in Nat
    BY Constants, DivMonotone
  <1>2. Max({g \div RatePart, MinFee}) = IF g \div RatePart >= MinFee THEN g \div RatePart ELSE MinFee
    BY <1>1, MaxOf
  <1> QED BY <1>1, <1>2 DEF Fee

\* A larger gross has no smaller commission.
LEMMA FeeMonotone ==
    ASSUME NEW g \in Nat, NEW h \in Nat, g <= h
    PROVE  Fee(g) <= Fee(h)
  <1>1. g \div RatePart \in Nat /\ h \div RatePart \in Nat /\ g \div RatePart <= h \div RatePart
    BY Constants, DivMonotone
  <1> QED BY <1>1, FeeIs, Constants

\* A sale pays its costs: what is due for it is not more than it brings.
LEMMA SalePays ==
    ASSUME NEW g \in Nat, NEW p \in Bids, NEW n \in Nat, n > 0
    PROVE  n * p - (Fee(g + n * p) - Fee(g)) - (n * p) \div TaxPart >= 0
  <1> DEFINE k == p \div RatePart
             t == p \div TaxPart
             q == g \div RatePart
  <1>0. p \in Nat /\ p % RatePart = 0 /\ p % TaxPart = 0
    BY PaperAssumption, Constants
  <1>1. p \in Nat /\ p > MinFee + t /\ p > k + t /\ k \in Nat /\ t \in Nat /\ q \in Nat
    <2>1. p > MinFee + t /\ p > k + t
      BY PaperAssumption
    <2>2. k \in Nat /\ t \in Nat /\ q \in Nat
      BY <1>0, Constants
    <2> QED BY <1>0, <2>1, <2>2
  <1>2. n * p \in Nat /\ g + n * p \in Nat
    BY <1>1
  <1>3. (g + n * p) \div RatePart = q + n * k
    <2>1. RatePart \in Nat \ {0}
      BY Constants
    <2> QED BY <1>0, <2>1
  <1>4. (n * p) \div TaxPart = n * t
    <2>1. TaxPart \in Nat \ {0}
      BY Constants
    <2> QED BY <1>0, <2>1
  <1> HIDE DEF k, t, q
  <1>5. n * p >= n * k + n * t
    BY <1>1
  <1>6. n * p >= MinFee + n * t
    <2>1. n * p >= n * MinFee + n * t
      BY <1>1, Constants
    <2>2. n * MinFee >= MinFee
      BY Constants
    <2>3. n * p \in Int /\ n * MinFee \in Int /\ n * t \in Int
      BY <1>1, Constants
    <2> QED BY <2>1, <2>2, <2>3, Constants
  <1>7. /\ Fee(g + n * p) = IF g + n * p = 0 THEN 0 ELSE IF q + n * k >= MinFee THEN q + n * k ELSE MinFee
        /\ Fee(g) = IF g = 0 THEN 0 ELSE IF q >= MinFee THEN q ELSE MinFee
    BY <1>2, <1>3, FeeIs DEF q
  <1>8. g = 0 => q = 0
    BY Constants DEF q
  <1>9. n * k \in Nat /\ n * t \in Nat
    BY <1>1
  <1> DEFINE A == n * p
             B == n * k
             C == n * t
  <1>10. A \in Nat /\ B \in Nat /\ C \in Nat /\ A >= B + C /\ A >= MinFee + C
    BY <1>2, <1>5, <1>6, <1>9
  <1>11. /\ Fee(g + A) = IF g + A = 0 THEN 0 ELSE IF q + B >= MinFee THEN q + B ELSE MinFee
         /\ (n * p) \div TaxPart = C
    BY <1>4, <1>7
  <1> HIDE DEF A, B, C
  <1>12. A - (Fee(g + A) - Fee(g)) - C >= 0
    BY <1>1, <1>7, <1>8, <1>10, <1>11, Constants
  <1> QED BY <1>11, <1>12 DEF A

\* What an order reserves, by what it has filled.
Due(g, c, u) == u * Limit + (IF Fee(g + u * Limit) >= c THEN Fee(g + u * Limit) - c ELSE 0)

LEMMA ReserveIs ==
    ASSUME NEW o \in Order, o.filled <= o.qty
    PROVE  /\ Unfilled(o) \in Nat
           /\ ReservedFor(o) = Due(o.gross, o.charged, Unfilled(o))
           /\ ReservedFor(o) \in Nat
  <1>1. Unfilled(o) \in Nat /\ o.gross \in Nat /\ o.charged \in Nat
    BY DEF Order, Unfilled
  <1> DEFINE g == o.gross + Unfilled(o) * Limit
  <1>2. Unfilled(o) * Limit \in Nat /\ g \in Nat
    BY <1>1, Constants
  <1> HIDE DEF g
  <1>3. Fee(g) \in Nat
    BY <1>2, FeeIs
  <1>4. Max({Fee(g) - o.charged, 0}) = IF Fee(g) - o.charged >= 0 THEN Fee(g) - o.charged ELSE 0
    BY <1>1, <1>3, MaxOf
  <1>5. ReservedFor(o) = Unfilled(o) * Limit + Max({Fee(g) - o.charged, 0})
    BY DEF ReservedFor, g
  <1>6. Due(o.gross, o.charged, Unfilled(o)) =
            Unfilled(o) * Limit + (IF Fee(g) >= o.charged THEN Fee(g) - o.charged ELSE 0)
    BY DEF Due, g
  <1> QED BY <1>1, <1>2, <1>3, <1>4, <1>5, <1>6

\* An entry pays for a fill at or below its limit from what it has reserved.
LEMMA EntryPays ==
    ASSUME NEW g \in Nat, NEW u \in Nat, NEW n \in Nat, n <= u, NEW p \in Nat, p <= Limit
    PROVE  LET h == g + n * p
           IN  /\ h \in Nat /\ n * p + (Fee(h) - Fee(g)) >= 0
               /\ n * p + (Fee(h) - Fee(g)) + Due(h, Fee(h), u - n) <= Due(g, Fee(g), u)
  <1> DEFINE h  == g + n * p
             v  == u - n
             up == g + u * Limit
             vp == h + v * Limit
  <1>1. Limit \in Nat /\ v \in Nat /\ n * p \in Nat /\ n * Limit \in Nat /\ v * Limit \in Nat /\ u * Limit \in Nat
    BY Constants
  <1>2. u * Limit = n * Limit + v * Limit
    BY <1>1
  <1>3. n * p <= n * Limit
    BY <1>1
  <1>4. h \in Nat /\ up \in Nat /\ vp \in Nat /\ g <= h /\ h <= vp /\ vp <= up /\ g <= up
    BY <1>1, <1>2, <1>3
  <1>5. v * Limit + n * p <= u * Limit
    BY <1>1, <1>2, <1>3
  <1>6. /\ Due(h, Fee(h), v) = v * Limit + (IF Fee(vp) >= Fee(h) THEN Fee(vp) - Fee(h) ELSE 0)
        /\ Due(g, Fee(g), u) = u * Limit + (IF Fee(up) >= Fee(g) THEN Fee(up) - Fee(g) ELSE 0)
    BY DEF Due
  <1> HIDE DEF h, v, up, vp
  <1>7. /\ Fee(g) \in Nat /\ Fee(h) \in Nat /\ Fee(vp) \in Nat /\ Fee(up) \in Nat
        /\ Fee(g) <= Fee(h) /\ Fee(h) <= Fee(vp) /\ Fee(vp) <= Fee(up) /\ Fee(g) <= Fee(up)
    BY <1>4, FeeIs, FeeMonotone
  <1> DEFINE A == n * p
             C == v * Limit
             D == u * Limit
  <1>8. A \in Nat /\ C \in Nat /\ D \in Nat /\ C + A <= D
    BY <1>1, <1>5
  <1>9. Due(h, Fee(h), v) = C + (Fee(vp) - Fee(h)) /\ Due(g, Fee(g), u) = D + (Fee(up) - Fee(g))
    BY <1>6, <1>7
  <1> HIDE DEF A, C, D
  <1>10. A + (Fee(h) - Fee(g)) >= 0 /\ A + (Fee(h) - Fee(g)) + Due(h, Fee(h), v) <= Due(g, Fee(g), u)
    BY <1>7, <1>8, <1>9
  <1> QED BY <1>4, <1>10 DEF A, h, v

-----------------------------------------------------------------------------
(* Books *)

\* The fields of a book.
LEMMA BookIs ==
    ASSUME NEW b, Typed(b)
    PROVE  /\ b \in Book /\ b.cash \in Int /\ b.orders \in Seq(Order)
           /\ Len(b.orders) \in Nat /\ Len(b.orders) <= MaxOrders
           /\ DOMAIN b.orders = 1..Len(b.orders) /\ DOMAIN b.orders \subseteq Theses
           /\ b.holds \in [Symbols -> Holding] /\ b.stats \in [Theses -> Stats]
           /\ \A i \in DOMAIN b.orders : b.orders[i] \in Order
  BY Constants DEF Typed, Book, Theses

LEMMA ThesesFinite == IsFiniteSet(Theses) /\ MaxOrders \in Nat
  BY Constants, FS_Interval DEF Theses

\* What an order is as its thesis and its reservation see it; only a working order may work.
Alike(o, p) ==
    /\ p.side = o.side /\ p.symbol = o.symbol /\ p.qty = o.qty /\ p.filled = o.filled /\ p.gross = o.gross
    /\ p.charged = o.charged /\ p.thesis = o.thesis
    /\ Working(p) => Working(o)
    /\ o.asked => p.asked
    /\ p.asked /\ Working(p) => p.status = "CANCEL_REQUESTED"

\* A book whose orders have at most been asked to end, or ended.
Eased(b, c) ==
    /\ c \in Book /\ Len(c.orders) = Len(b.orders)
    /\ c.cash = b.cash /\ c.holds = b.holds /\ c.stats = b.stats
    /\ \A i \in DOMAIN b.orders : Alike(b.orders[i], c.orders[i])

LEMMA OpenEntry ==
    ASSUME NEW b, Typed(b), NEW i
    PROVE  i \in OpenOf(b, "BUY", Symbols) <=>
               i \in DOMAIN b.orders /\ Working(b.orders[i]) /\ b.orders[i].side = "BUY"
  BY BookIs DEF OpenOf, Order

LEMMA ClaimIs ==
    ASSUME NEW b, Typed(b), \A i \in DOMAIN b.orders : Sound(b, i), NEW i \in Theses
    PROVE  /\ Claims(b)[i] = IF i \in OpenOf(b, "BUY", Symbols) THEN ReservedFor(b.orders[i]) ELSE 0
           /\ Claims(b)[i] \in Nat
  <1>1. Claims(b)[i] = IF i \in OpenOf(b, "BUY", Symbols) THEN ReservedFor(b.orders[i]) ELSE 0
    BY DEF Claims
  <1>2. CASE i \in OpenOf(b, "BUY", Symbols)
    <2>1. i \in DOMAIN b.orders /\ b.orders[i] \in Order /\ b.orders[i].filled <= b.orders[i].qty
      BY <1>2, OpenEntry, BookIs DEF Sound
    <2>2. ReservedFor(b.orders[i]) \in Nat
      BY <2>1, ReserveIs
    <2> QED BY <1>1, <1>2, <2>2
  <1>3. CASE i \notin OpenOf(b, "BUY", Symbols)
    BY <1>1, <1>3
  <1> QED BY <1>1, <1>2, <1>3

LEMMA ReserveSame ==
    ASSUME NEW o, NEW p, Alike(o, p)
    PROVE  ReservedFor(p) = ReservedFor(o)
  BY DEF Alike, ReservedFor, Unfilled

\* Easing a book keeps the invariant: reservations are only given back.
LEMMA EasedKeeps ==
    ASSUME NEW b, NEW c, BookInv(b), Eased(b, c)
    PROVE  BookInv(c)
  <1>1. Typed(b) /\ Typed(c)
    BY DEF BookInv, Typed, Eased
  <1>2. DOMAIN c.orders = DOMAIN b.orders
    BY <1>1, BookIs DEF Eased
  <1>3. ASSUME NEW i \in DOMAIN c.orders PROVE Sound(c, i) /\ Exits(c, i) /\ Enters(c, i)
    <2>1. Alike(b.orders[i], c.orders[i]) /\ Sound(b, i) /\ Exits(b, i) /\ Enters(b, i)
      BY <1>2, <1>3 DEF BookInv, Placed, Eased
    <2>2. Sound(c, i)
      BY <2>1 DEF Alike, Sound
    <2>3. c.holds = b.holds /\ c.stats = b.stats
      BY DEF Eased
    <2>4. Exits(c, i)
      BY <2>1, <2>3 DEF Alike, Exits, Unfilled
    <2>5. Enters(c, i)
      BY <2>1, <2>3 DEF Alike, Enters
    <2> QED BY <2>2, <2>4, <2>5
  <1>4. Alone(c)
    BY <1>2 DEF BookInv, Placed, Alone, Eased, Alike
  <1>5. ASSUME NEW s \in Symbols PROVE Owned(c, s)
    <2>1. Owned(b, s) /\ c.holds = b.holds /\ c.stats = b.stats
      BY DEF BookInv, Placed, Eased
    <2>2. \A i \in DOMAIN b.orders : c.orders[i].side = b.orders[i].side /\ c.orders[i].symbol = b.orders[i].symbol
      BY DEF Eased, Alike
    <2> QED BY <1>2, <2>1, <2>2 DEF Owned
  <1>6. ASSUME NEW t \in Theses PROVE Quits(c, t)
    BY DEF BookInv, Placed, Eased, Quits
  <1>7. Placed(c)
    BY <1>3, <1>4, <1>5, <1>6 DEF Placed
  <1>8. Paid(c)
    <2>1. Gains(c) = Gains(b) /\ c.cash = b.cash
      BY DEF Gains, Eased
    <2> QED BY <2>1 DEF BookInv, Paid
  <1>9. Affordable(c)
    <2>1. ASSUME NEW i \in Theses PROVE Claims(c)[i] \in Int /\ Claims(b)[i] \in Int /\ Claims(c)[i] <= Claims(b)[i]
      <3>1. Claims(c)[i] = IF i \in OpenOf(c, "BUY", Symbols) THEN ReservedFor(c.orders[i]) ELSE 0
        BY <1>1, <1>3, ClaimIs
      <3>2. /\ Claims(b)[i] = IF i \in OpenOf(b, "BUY", Symbols) THEN ReservedFor(b.orders[i]) ELSE 0
            /\ Claims(b)[i] \in Nat
        BY <1>1, ClaimIs DEF BookInv, Placed
      <3>3. i \in OpenOf(c, "BUY", Symbols) =>
                i \in OpenOf(b, "BUY", Symbols) /\ ReservedFor(c.orders[i]) = ReservedFor(b.orders[i])
        BY <1>1, <1>2, OpenEntry, ReserveSame DEF Eased, Alike
      <3> QED BY <3>1, <3>2, <3>3
    <2>2. SumFunctionOnSet(Claims(c), Theses) <= SumFunctionOnSet(Claims(b), Theses)
      BY <2>1, ThesesFinite, SumMonotone
    <2>3. SumFunctionOnSet(Claims(c), Theses) \in Int /\ SumFunctionOnSet(Claims(b), Theses) \in Int
      BY <2>1, ThesesFinite, SumInt
    <2>4. SumFunctionOnSet(Claims(b), Theses) <= b.cash /\ c.cash = b.cash /\ b.cash \in Int
      BY <1>1, BookIs DEF BookInv, Affordable, Eased
    <2> QED BY <2>2, <2>3, <2>4 DEF Affordable
  <1> QED BY <1>1, <1>7, <1>8, <1>9 DEF BookInv

LEMMA MappedOrders ==
    ASSUME NEW s \in Seq(Order), NEW f, f = [i \in DOMAIN s |-> f[i]], \A i \in DOMAIN s : f[i] \in Order
    PROVE  f \in Seq(Order) /\ Len(f) = Len(s)
  <1>1. Len(s) \in Nat /\ DOMAIN s = 1..Len(s)
    OBVIOUS
  <1>2. f \in [1..Len(s) -> Order]
    BY <1>1
  <1> QED BY <1>1, <1>2

\* Two ways to ease a book: other orders that are alike, and other flags.
LEMMA OrdersEase ==
    ASSUME NEW b, Typed(b), NEW f, f = [i \in DOMAIN b.orders |-> f[i]],
           \A i \in DOMAIN b.orders : f[i] \in Order /\ Alike(b.orders[i], f[i])
    PROVE  Eased(b, [b EXCEPT !.orders = f])
  <1>1. b \in Book /\ b.orders \in Seq(Order)
    BY BookIs
  <1>2. f \in Seq(Order) /\ Len(f) = Len(b.orders)
    BY <1>1, MappedOrders
  <1>3. [b EXCEPT !.orders = f] \in Book /\ [b EXCEPT !.orders = f].orders = f
    BY <1>1, <1>2 DEF Book
  <1>4. /\ [b EXCEPT !.orders = f].cash = b.cash /\ [b EXCEPT !.orders = f].holds = b.holds
        /\ [b EXCEPT !.orders = f].stats = b.stats
    BY <1>1 DEF Book
  <1> QED BY <1>2, <1>3, <1>4 DEF Eased

LEMMA FlagsEase ==
    ASSUME NEW b, BookInv(b), NEW c \in Book, c.orders = b.orders, c.cash = b.cash, c.holds = b.holds,
           c.stats = b.stats
    PROVE  BookInv(c)
  <1>1. \A i \in DOMAIN b.orders : Alike(b.orders[i], c.orders[i])
    BY DEF BookInv, Placed, Sound, Alike
  <1> QED BY <1>1, EasedKeeps DEF Eased

\* Acknowledgements and expiries ease a book (advance).
LEMMA AdvancedKeeps ==
    ASSUME NEW b, BookInv(b), NEW at
    PROVE  /\ BookInv(Advanced(b, at))
           /\ Advanced(b, at).holds = b.holds /\ Advanced(b, at).stats = b.stats
           /\ Advanced(b, at).unresolved = b.unresolved /\ Advanced(b, at).halted = b.halted
           /\ Len(Advanced(b, at).orders) = Len(b.orders)
           /\ \A i \in DOMAIN b.orders : Alike(b.orders[i], Advanced(b, at).orders[i])
  <1> DEFINE Now(o) == CASE ~Working(o)                      -> o
                    [] Working(o) /\ o.ack \in 0..at         -> [o EXCEPT !.status = "CANCELLED"]
                    [] Working(o) /\ o.ack \notin 0..at      ->
                         IF o.expires \in 0..at THEN [o EXCEPT !.status = "EXPIRED"] ELSE o
             f == [i \in DOMAIN b.orders |-> Now(b.orders[i])]
  <1>1. Advanced(b, at) = [b EXCEPT !.orders = f]
    BY DEF Advanced
  <1>2. Typed(b)
    BY DEF BookInv
  <1>3. ASSUME NEW i \in DOMAIN b.orders PROVE f[i] \in Order /\ Alike(b.orders[i], f[i])
    <2> DEFINE o == b.orders[i]
    <2>1. o \in Order /\ (o.asked /\ Working(o) => o.status = "CANCEL_REQUESTED")
      BY <1>2, <1>3, BookIs DEF BookInv, Placed, Sound
    <2> HIDE DEF o
    <2>2. Now(o) \in {o, [o EXCEPT !.status = "CANCELLED"], [o EXCEPT !.status = "EXPIRED"]}
      BY DEF Working
    <2>3. [o EXCEPT !.status = "CANCELLED"] \in Order /\ [o EXCEPT !.status = "EXPIRED"] \in Order
      BY <2>1 DEF Order, Statuses
    <2>4. Alike(o, [o EXCEPT !.status = "CANCELLED"]) /\ Alike(o, [o EXCEPT !.status = "EXPIRED"]) /\ Alike(o, o)
      BY <2>1 DEF Order, Alike, Working
    <2>5. Now(o) \in Order /\ Alike(o, Now(o))
      BY <2>1, <2>2, <2>3, <2>4
    <2> QED BY <1>3, <2>5 DEF o
  <1>4. f = [i \in DOMAIN b.orders |-> f[i]]
    OBVIOUS
  <1> HIDE DEF f
  <1>5. Eased(b, Advanced(b, at))
    BY <1>1, <1>2, <1>3, <1>4, OrdersEase
  <1>6. Advanced(b, at).unresolved = b.unresolved /\ Advanced(b, at).halted = b.halted
    BY <1>1, <1>2, BookIs DEF Book
  <1> QED BY <1>5, <1>6, EasedKeeps DEF Eased

\* Every order chosen that works is asked to end.
LEMMA CancelledKeeps ==
    ASSUME NEW b, BookInv(b), NEW chosen, NEW ack \in Int
    PROVE  /\ BookInv(Cancelled(b, chosen, ack))
           /\ Cancelled(b, chosen, ack).holds = b.holds /\ Cancelled(b, chosen, ack).stats = b.stats
           /\ Cancelled(b, chosen, ack).unresolved = b.unresolved
           /\ Len(Cancelled(b, chosen, ack).orders) = Len(b.orders)
           /\ \A i \in DOMAIN b.orders :
                /\ Alike(b.orders[i], Cancelled(b, chosen, ack).orders[i])
                /\ b.orders[i].asked => Cancelled(b, chosen, ack).orders[i].asked
                /\ i \in chosen /\ Working(b.orders[i]) => Cancelled(b, chosen, ack).orders[i].asked
  <1> DEFINE Asked(o) == [o EXCEPT !.status = "CANCEL_REQUESTED", !.asked = TRUE, !.ack = ack]
             f == [i \in DOMAIN b.orders |-> IF i \in chosen /\ Working(b.orders[i])
                                               THEN Asked(b.orders[i]) ELSE b.orders[i]]
  <1>1. Cancelled(b, chosen, ack) = [b EXCEPT !.orders = f]
    BY DEF Cancelled
  <1>2. Typed(b)
    BY DEF BookInv
  <1>3. ASSUME NEW i \in DOMAIN b.orders
        PROVE  /\ f[i] \in Order /\ Alike(b.orders[i], f[i])
               /\ b.orders[i].asked => f[i].asked
               /\ i \in chosen /\ Working(b.orders[i]) => f[i].asked
    <2> DEFINE o == b.orders[i]
    <2>1. o \in Order /\ (o.asked /\ Working(o) => o.status = "CANCEL_REQUESTED")
      BY <1>2, <1>3, BookIs DEF BookInv, Placed, Sound
    <2>2. f[i] = IF i \in chosen /\ Working(o) THEN Asked(o) ELSE o
      BY <1>3
    <2> HIDE DEF o, f
    <2>3. Asked(o) \in Order /\ Asked(o).asked
      BY <2>1 DEF Order, Statuses
    <2>4. (Working(o) => Alike(o, Asked(o))) /\ Alike(o, o)
      BY <2>1 DEF Order, Alike, Working
    <2> HIDE DEF Asked
    <2>5. f[i] \in Order /\ Alike(o, f[i]) /\ (o.asked => f[i].asked) /\ (i \in chosen /\ Working(o) => f[i].asked)
      BY <2>1, <2>2, <2>3, <2>4
    <2> QED BY <2>5 DEF o
  <1>4. f = [i \in DOMAIN b.orders |-> f[i]]
    OBVIOUS
  <1> HIDE DEF f
  <1>5. Eased(b, Cancelled(b, chosen, ack))
    BY <1>1, <1>2, <1>3, <1>4, OrdersEase
  <1>6. Cancelled(b, chosen, ack).unresolved = b.unresolved /\ Cancelled(b, chosen, ack).orders = f
    BY <1>1, <1>2, BookIs DEF Book
  <1> QED BY <1>3, <1>5, <1>6, EasedKeeps DEF Eased

-----------------------------------------------------------------------------
(* Submissions *)

\* What pending_entries reserves, as a sum over all the orders there may be.
LEMMA ReservedIsClaims ==
    ASSUME NEW b, BookInv(b)
    PROVE  Reserved(b) = SumFunctionOnSet(Claims(b), Theses)
  <1> DEFINE f == [i \in DOMAIN b.orders |-> ReservedFor(b.orders[i])]
             g == Claims(b)
             R == OpenOf(b, "BUY", Symbols)
  <1>1. Typed(b) /\ \A i \in DOMAIN b.orders : Sound(b, i)
    BY DEF BookInv, Placed
  <1>2. R \in SUBSET Theses
    BY <1>1, BookIs, OpenEntry
  <1>3. ASSUME NEW i \in R PROVE f[i] \in Int /\ g[i] = f[i]
    <2>1. i \in DOMAIN b.orders
      BY <1>1, <1>3, OpenEntry
    <2>2. f[i] = ReservedFor(b.orders[i])
      BY <2>1
    <2>3. g[i] = ReservedFor(b.orders[i]) /\ g[i] \in Nat
      BY <1>1, <1>2, <1>3, ClaimIs
    <2> QED BY <2>2, <2>3
  <1>4. ASSUME NEW i \in Theses \ R PROVE g[i] = 0
    BY <1>1, ClaimIs
  <1>5. Reserved(b) = SumFunctionOnSet(f, R)
    BY DEF Reserved
  <1> HIDE DEF f, g, R
  <1>6. SumFunctionOnSet(f, R) = SumFunctionOnSet(g, Theses)
    BY <1>2, <1>3, <1>4, ThesesFinite, SumWhere
  <1> QED BY <1>5, <1>6 DEF g

LEMMA SumsInt ==
    ASSUME NEW b, BookInv(b)
    PROVE  SumFunctionOnSet(Claims(b), Theses) \in Nat /\ SumFunctionOnSet(Gains(b), Theses) \in Int
  <1>1. Typed(b) /\ \A i \in DOMAIN b.orders : Sound(b, i)
    BY DEF BookInv, Placed
  <1>2. \A i \in Theses : Claims(b)[i] \in Nat
    BY <1>1, ClaimIs
  <1>3. \A t \in Theses : Gains(b)[t] \in Int
    BY <1>1, BookIs DEF Gains, Stats
  <1> QED BY <1>2, <1>3, ThesesFinite, SumNat, SumInt

\* An instrument of which nothing is held has no exit at work.
LEMMA NothingToSell ==
    ASSUME NEW b, BookInv(b), NEW i \in DOMAIN b.orders, Working(b.orders[i]),
           b.holds[b.orders[i].symbol].qty = 0
    PROVE  b.orders[i].side = "BUY"
  <1>1. b.orders[i] \in Order /\ Sound(b, i) /\ Exits(b, i)
    BY BookIs DEF BookInv, Placed
  <1> QED BY <1>1 DEF Order, Sound, Exits, Unfilled

\* A new order, at the end.
LEMMA SubmittedKeeps ==
    ASSUME NEW b, BookInv(b), Len(b.orders) < MaxOrders,
           NEW o \in Order, o.qty > 0, o.filled = 0, o.gross = 0, o.charged = 0, ~o.asked,
           \A i \in DOMAIN b.orders : Working(b.orders[i]) => b.orders[i].symbol # o.symbol,
           o.side = "BUY" => /\ o.thesis = Len(b.orders) + 1 /\ b.holds[o.symbol].qty = 0
                             /\ Reserved(b) + ReservedFor(o) <= b.cash,
           o.side = "SELL" => o.qty = b.holds[o.symbol].qty /\ o.thesis = b.holds[o.symbol].thesis
    PROVE  BookInv(Submitted(b, o))
  <1> DEFINE c == Submitted(b, o)
             k == Len(b.orders) + 1
  <1>1. Typed(b) /\ Placed(b) /\ Paid(b) /\ Affordable(b)
    BY DEF BookInv
  <1>2. /\ b \in Book /\ b.orders \in Seq(Order) /\ Len(b.orders) \in Nat /\ DOMAIN b.orders = 1..Len(b.orders)
        /\ b.cash \in Int
    BY <1>1, BookIs
  <1>3. /\ Append(b.orders, o) \in Seq(Order) /\ Len(Append(b.orders, o)) = k
        /\ \A i \in DOMAIN b.orders : Append(b.orders, o)[i] = b.orders[i]
        /\ Append(b.orders, o)[k] = o
    BY <1>2
  <1>4. /\ c \in Book /\ c.orders = Append(b.orders, o) /\ c.cash = b.cash /\ c.holds = b.holds
        /\ c.stats = b.stats
    BY <1>2, <1>3 DEF Submitted, Book
  <1>5. Typed(c)
    BY <1>2, <1>3, <1>4, ThesesFinite DEF Typed
  <1>6. /\ DOMAIN c.orders = DOMAIN b.orders \cup {k} /\ k \notin DOMAIN b.orders /\ k \in Theses
        /\ \A i \in DOMAIN b.orders : c.orders[i] = b.orders[i]
        /\ c.orders[k] = o
    BY <1>2, <1>3, <1>4, ThesesFinite DEF Theses
  <1> HIDE DEF c, k
  <1>7. ASSUME NEW i \in DOMAIN c.orders PROVE Sound(c, i) /\ Exits(c, i) /\ Enters(c, i)
    <2>1. CASE i \in DOMAIN b.orders
      <3>1. c.orders[i] = b.orders[i] /\ Sound(b, i) /\ Exits(b, i) /\ Enters(b, i)
        BY <1>1, <1>6, <2>1 DEF Placed
      <3> QED BY <1>4, <3>1 DEF Sound, Exits, Enters
    <2>2. CASE i = k
      <3>1. c.orders[i] = o
        BY <1>6, <2>2
      <3>2. Fee(0) = 0
        BY DEF Fee
      <3>3. o.side = "BUY" => o.thesis = i
        BY <2>2 DEF k
      <3>4. Sound(c, i)
        BY <3>1, <3>2, <3>3 DEF Sound, Order
      <3>5. Unfilled(o) = o.qty
        BY DEF Unfilled, Order
      <3>6. Exits(c, i)
        <4>1. o.side = "SELL" =>
                  Unfilled(o) <= b.holds[o.symbol].qty /\ o.thesis = b.holds[o.symbol].thesis
          BY <3>5 DEF Order
        <4> QED BY <1>4, <3>1, <4>1 DEF Exits
      <3>7. o.side = "BUY" => b.stats[k] = NoStats /\ b.holds[o.symbol].qty = 0
        BY <1>1, <1>2, <1>6 DEF Placed, Quits, k
      <3>8. Enters(c, i)
        BY <1>4, <2>2, <3>1, <3>7 DEF Enters
      <3> QED BY <3>4, <3>6, <3>8
    <2> QED BY <1>6, <2>1, <2>2
  <1>8. Alone(c)
    <2>1. Alone(b)
      BY <1>1 DEF Placed
    <2> QED BY <1>6, <2>1 DEF Alone
  <1>9. ASSUME NEW s \in Symbols PROVE Owned(c, s)
    <2>1. Owned(b, s)
      BY <1>1 DEF Placed
    <2> QED BY <1>4, <1>6, <2>1 DEF Owned
  <1>10. ASSUME NEW t \in Theses PROVE Quits(c, t)
    <2>1. Quits(b, t)
      BY <1>1 DEF Placed
    <2>2. Len(c.orders) = Len(b.orders) + 1
      BY <1>3, <1>4 DEF k
    <2> QED BY <1>2, <1>4, <2>1, <2>2 DEF Quits, Theses
  <1>11. Placed(c)
    BY <1>7, <1>8, <1>9, <1>10 DEF Placed
  <1>12. Paid(c)
    <2>1. Gains(c) = Gains(b)
      BY <1>4 DEF Gains
    <2> QED BY <1>1, <1>4, <2>1 DEF Paid
  <1>13. Affordable(c)
    <2>1. ASSUME NEW i \in Theses
          PROVE  /\ Claims(b)[i] \in Nat /\ Claims(c)[i] \in Nat
                 /\ i # k => Claims(c)[i] = Claims(b)[i]
                 /\ i = k => Claims(b)[i] = 0 /\ Claims(c)[i] = IF Working(o) /\ o.side = "BUY" THEN ReservedFor(o) ELSE 0
      <3>1. /\ Claims(b)[i] = IF i \in OpenOf(b, "BUY", Symbols) THEN ReservedFor(b.orders[i]) ELSE 0
            /\ Claims(b)[i] \in Nat
        BY <1>1, ClaimIs DEF Placed
      <3>2. /\ Claims(c)[i] = IF i \in OpenOf(c, "BUY", Symbols) THEN ReservedFor(c.orders[i]) ELSE 0
            /\ Claims(c)[i] \in Nat
        BY <1>5, <1>7, ClaimIs
      <3>3. i # k => (i \in OpenOf(c, "BUY", Symbols) <=> i \in OpenOf(b, "BUY", Symbols))
        BY <1>1, <1>5, <1>6, OpenEntry
      <3>4. i \in OpenOf(b, "BUY", Symbols) => i \in DOMAIN b.orders
        BY <1>1, OpenEntry
      <3>5. k \in OpenOf(c, "BUY", Symbols) <=> Working(o) /\ o.side = "BUY"
        BY <1>5, <1>6, OpenEntry
      <3> QED BY <1>6, <3>1, <3>2, <3>3, <3>4, <3>5
    <2>2. SumFunctionOnSet(Claims(c), Theses) = SumFunctionOnSet(Claims(b), Theses) + Claims(c)[k] - Claims(b)[k]
      <3> DEFINE f == Claims(b)
                 g == Claims(c)
      <3>1. f[k] \in Int /\ g[k] \in Int
        BY <1>6, <2>1
      <3>2. \A z \in Theses \ {k} : f[z] \in Int /\ f[z] = g[z]
        BY <2>1
      <3> HIDE DEF f, g
      <3>3. SumFunctionOnSet(g, Theses) = SumFunctionOnSet(f, Theses) + g[k] - f[k]
        BY <1>6, <3>1, <3>2, ThesesFinite, SumBut
      <3> QED BY <3>3 DEF f, g
    <2>3. SumFunctionOnSet(Claims(b), Theses) \in Nat /\ Reserved(b) = SumFunctionOnSet(Claims(b), Theses)
      BY SumsInt, ReservedIsClaims
    <2>4. SumFunctionOnSet(Claims(b), Theses) <= b.cash
      BY <1>1 DEF Affordable
    <2>5. Claims(b)[k] = 0 /\ Claims(c)[k] = IF Working(o) /\ o.side = "BUY" THEN ReservedFor(o) ELSE 0
      BY <1>6, <2>1
    <2>6. ReservedFor(o) \in Nat
      BY ReserveIs DEF Order
    <2>7. SumFunctionOnSet(Claims(c), Theses) <= b.cash
      BY <1>2, <2>2, <2>3, <2>4, <2>5, <2>6
    <2> QED BY <1>4, <2>7 DEF Affordable
  <1> QED BY <1>5, <1>11, <1>12, <1>13 DEF BookInv, c

-----------------------------------------------------------------------------
(* Fills and corporate actions *)

\* A holding moves with the thesis it belongs to, and at most with orders of its instrument.
LEMMA PlacedMoves ==
    ASSUME NEW b, Typed(b), Placed(b), NEW c, Typed(c), Len(c.orders) = Len(b.orders),
           NEW s \in Symbols, NEW t \in DOMAIN b.orders, b.orders[t].side = "BUY", b.orders[t].symbol = s,
           b.holds[s].qty > 0 => b.holds[s].thesis = t,
           \A x \in Symbols : x # s => c.holds[x] = b.holds[x],
           \A u \in Theses : u # t => c.stats[u] = b.stats[u],
           c.holds[s].qty = 0 => c.holds[s].thesis = 0, c.holds[s].qty > 0 => c.holds[s].thesis = t,
           c.stats[t].bought - c.stats[t].sold = c.holds[s].qty,
           \A j \in DOMAIN b.orders :
             /\ c.orders[j].side = b.orders[j].side /\ c.orders[j].symbol = b.orders[j].symbol
             /\ Working(c.orders[j]) => Working(b.orders[j])
             /\ Sound(c, j)
             /\ b.orders[j].symbol # s => c.orders[j] = b.orders[j]
             /\ b.orders[j].symbol = s => Exits(c, j) /\ Enters(c, j)
    PROVE  Placed(c)
  <1>1. /\ Len(b.orders) \in Nat /\ DOMAIN c.orders = DOMAIN b.orders /\ DOMAIN b.orders = 1..Len(b.orders)
        /\ DOMAIN b.orders \subseteq Theses /\ b.holds \in [Symbols -> Holding] /\ c.holds \in [Symbols -> Holding]
        /\ b.stats \in [Theses -> Stats] /\ c.stats \in [Theses -> Stats]
        /\ \A j \in DOMAIN b.orders : b.orders[j] \in Order
    BY BookIs
  <1>2. ASSUME NEW j \in DOMAIN c.orders PROVE Sound(c, j) /\ Exits(c, j) /\ Enters(c, j)
    <2>1. CASE b.orders[j].symbol = s
      BY <1>1, <1>2, <2>1
    <2>2. CASE b.orders[j].symbol # s
      <3>1. j # t /\ j \in Theses /\ b.orders[j].symbol \in Symbols
        BY <1>1, <1>2, <2>2 DEF Order
      <3>2. /\ c.orders[j] = b.orders[j] /\ c.holds[b.orders[j].symbol] = b.holds[b.orders[j].symbol]
            /\ c.stats[j] = b.stats[j]
        BY <1>1, <1>2, <2>2, <3>1
      <3>3. Exits(b, j) /\ Enters(b, j)
        BY <1>1, <1>2 DEF Placed
      <3> QED BY <1>1, <1>2, <3>2, <3>3 DEF Exits, Enters
    <2> QED BY <2>1, <2>2
  <1>3. Alone(c)
    BY <1>1 DEF Placed, Alone
  <1>4. ASSUME NEW x \in Symbols PROVE Owned(c, x)
    <2>1. CASE x = s
      BY <1>1, <2>1 DEF Owned
    <2>2. CASE x # s
      <3>1. Owned(b, x) /\ c.holds[x] = b.holds[x]
        BY <2>2 DEF Placed
      <3>2. b.holds[x].qty > 0 => b.holds[x].thesis \in Theses \ {t}
        BY <1>1, <2>2, <3>1 DEF Owned
      <3> QED BY <1>1, <3>1, <3>2 DEF Owned
    <2> QED BY <2>1, <2>2
  <1>5. ASSUME NEW u \in Theses PROVE Quits(c, u)
    <2>1. CASE u = t
      <3>1. t <= Len(c.orders)
        BY <1>1
      <3>2. (\A x \in Symbols : c.holds[x].thesis # t) => c.holds[s].qty = 0
        BY <1>1 DEF Holding
      <3>3. c.stats[t].bought \in Int /\ c.stats[t].sold \in Int
        BY <1>1 DEF Stats
      <3> QED BY <1>1, <2>1, <3>1, <3>2, <3>3 DEF Quits
    <2>2. CASE u # t
      <3>1. Quits(b, u) /\ c.stats[u] = b.stats[u]
        BY <2>2 DEF Placed
      <3>2. b.holds[s].thesis # u
        <4>1. Owned(b, s) /\ b.holds[s].qty \in Nat /\ u # 0
          BY <1>1 DEF Placed, Holding, Theses
        <4> QED BY <2>2, <4>1 DEF Owned
      <3>3. (\A x \in Symbols : c.holds[x].thesis # u) => (\A x \in Symbols : b.holds[x].thesis # u)
        BY <3>2
      <3> QED BY <3>1, <3>3 DEF Quits
    <2> QED BY <2>1, <2>2
  <1> QED BY <1>2, <1>3, <1>4, <1>5 DEF Placed

\* The cash moves by what its thesis gains.
LEMMA PaidMoves ==
    ASSUME NEW b, BookInv(b), NEW c, Typed(c), NEW t \in Theses,
           \A u \in Theses : u # t => c.stats[u] = b.stats[u],
           c.cash - b.cash = (c.stats[t].got - c.stats[t].spent) - (b.stats[t].got - b.stats[t].spent)
    PROVE  Paid(c)
  <1> DEFINE f == Gains(b)
             g == Gains(c)
  <1>1. /\ b.cash \in Int /\ c.cash \in Int
        /\ \A u \in Theses : b.stats[u] \in Stats /\ c.stats[u] \in Stats
    BY BookIs DEF BookInv
  <1>2. \A u \in Theses : /\ f[u] = b.stats[u].got - b.stats[u].spent /\ f[u] \in Int
                          /\ g[u] = c.stats[u].got - c.stats[u].spent /\ g[u] \in Int
    BY <1>1 DEF Gains, Stats
  <1>3. \A u \in Theses \ {t} : f[u] \in Int /\ f[u] = g[u]
    BY <1>2
  <1>4. b.cash = Capital + SumFunctionOnSet(f, Theses) /\ SumFunctionOnSet(f, Theses) \in Int
    BY SumsInt DEF BookInv, Paid
  <1>5. f[t] \in Int /\ g[t] \in Int /\ c.cash - b.cash = g[t] - f[t]
    BY <1>2
  <1> HIDE DEF f, g
  <1>6. SumFunctionOnSet(g, Theses) = SumFunctionOnSet(f, Theses) + g[t] - f[t]
    BY <1>3, <1>5, ThesesFinite, SumBut
  <1>7. c.cash = Capital + SumFunctionOnSet(g, Theses)
    BY <1>1, <1>4, <1>5, <1>6, Constants
  <1> QED BY <1>7 DEF Paid, g

\* One order's reservation and the cash move together.
LEMMA ClaimMoves ==
    ASSUME NEW b, BookInv(b), NEW c, Typed(c), \A j \in DOMAIN c.orders : Sound(c, j),
           Len(c.orders) = Len(b.orders), NEW i \in Theses,
           \A j \in DOMAIN b.orders : j # i => c.orders[j] = b.orders[j],
           c.cash - b.cash >= Claims(c)[i] - Claims(b)[i]
    PROVE  Affordable(c)
  <1> DEFINE f == Claims(b)
             g == Claims(c)
  <1>1. Typed(b) /\ DOMAIN c.orders = DOMAIN b.orders /\ b.cash \in Int /\ c.cash \in Int
    BY BookIs DEF BookInv
  <1>2. \A j \in Theses : f[j] \in Nat /\ g[j] \in Nat
    BY <1>1, ClaimIs DEF BookInv, Placed
  <1>3. ASSUME NEW j \in Theses \ {i} PROVE f[j] \in Int /\ f[j] = g[j]
    <2>1. j \in OpenOf(b, "BUY", Symbols) <=> j \in OpenOf(c, "BUY", Symbols)
      BY <1>1, OpenEntry
    <2>2. j \in OpenOf(b, "BUY", Symbols) => c.orders[j] = b.orders[j]
      BY <1>1, OpenEntry
    <2> QED BY <1>2, <2>1, <2>2 DEF Claims
  <1>4. SumFunctionOnSet(f, Theses) <= b.cash /\ SumFunctionOnSet(f, Theses) \in Int
    BY SumsInt DEF BookInv, Affordable
  <1>5. f[i] \in Int /\ g[i] \in Int /\ c.cash - b.cash >= g[i] - f[i]
    BY <1>2
  <1> HIDE DEF f, g
  <1>6. SumFunctionOnSet(g, Theses) = SumFunctionOnSet(f, Theses) + g[i] - f[i]
    BY <1>3, <1>5, ThesesFinite, SumBut
  <1>7. SumFunctionOnSet(g, Theses) <= c.cash
    BY <1>1, <1>4, <1>5, <1>6
  <1> QED BY <1>7 DEF Affordable, g

\* An order after a fill.
LEMMA CountedIs ==
    ASSUME NEW o \in Order, NEW n \in Nat, NEW gross \in Nat, Working(o), o.filled < o.qty,
           o.asked => o.status = "CANCEL_REQUESTED", n <= Unfilled(o)
    PROVE  LET p == Counted(o, n, gross)
           IN  /\ p \in Order
               /\ p.side = o.side /\ p.symbol = o.symbol /\ p.qty = o.qty /\ p.thesis = o.thesis
               /\ p.filled = o.filled + n /\ p.gross = o.gross + gross /\ p.charged = Fee(o.gross + gross)
               /\ p.filled <= p.qty /\ Unfilled(p) = Unfilled(o) - n
               /\ Working(p) => p.filled < p.qty
               /\ p.asked /\ Working(p) => p.status = "CANCEL_REQUESTED"
  <1> DEFINE p == Counted(o, n, gross)
             st == IF o.filled + n = o.qty THEN "FILLED" ELSE IF o.asked THEN "CANCEL_REQUESTED" ELSE "PARTIAL"
  <1>1. /\ o.filled \in Nat /\ o.qty \in Nat /\ o.gross \in Nat /\ o.gross + gross \in Nat
        /\ Fee(o.gross + gross) \in Nat /\ o.filled + n \in Nat
    <2>1. o.filled \in Nat /\ o.qty \in Nat /\ o.gross \in Nat
      BY DEF Order
    <2>2. o.gross + gross \in Nat
      BY <2>1
    <2> QED BY <2>1, <2>2, FeeIs
  <1>2. o.filled + n <= o.qty
    BY <1>1 DEF Unfilled
  <1>3. p = [o EXCEPT !.filled = o.filled + n, !.gross = o.gross + gross, !.charged = Fee(o.gross + gross),
                      !.status = st]
    BY DEF Counted, Order
  <1>4. st \in Statuses
    BY DEF Statuses
  <1>5. /\ p \in Order
        /\ p.side = o.side /\ p.symbol = o.symbol /\ p.qty = o.qty /\ p.thesis = o.thesis /\ p.asked = o.asked
        /\ p.filled = o.filled + n /\ p.gross = o.gross + gross /\ p.charged = Fee(o.gross + gross)
        /\ p.status = st
    <2> HIDE DEF p, st
    <2> QED BY <1>1, <1>3, <1>4 DEF Order
  <1> HIDE DEF p
  <1>6. Working(p) => o.filled + n # o.qty
    BY <1>5 DEF Working
  <1>7. p.asked /\ Working(p) => p.status = "CANCEL_REQUESTED"
    BY <1>5, <1>6
  <1>8. Unfilled(p) = Unfilled(o) - n
    BY <1>1, <1>5 DEF Unfilled
  <1> QED BY <1>1, <1>2, <1>5, <1>6, <1>7, <1>8 DEF p

\* What holds of a working order and the book it fills in.
LEMMA FillingIs ==
    ASSUME NEW b, BookInv(b), NEW i \in DOMAIN b.orders, Working(b.orders[i]), NEW n \in Nat,
           n <= Unfilled(b.orders[i]), NEW gross \in Nat
    PROVE  LET o == b.orders[i]
               d == [b EXCEPT !.orders[i] = Counted(o, n, gross)]
           IN  /\ o \in Order /\ o.filled < o.qty /\ o.charged = Fee(o.gross) /\ Unfilled(o) \in Nat
               /\ o.asked => o.status = "CANCEL_REQUESTED"
               /\ Counted(o, n, gross) \in Order
               /\ d \in Book /\ Len(d.orders) = Len(b.orders) /\ d.cash = b.cash /\ d.holds = b.holds
               /\ d.stats = b.stats /\ d.orders[i] = Counted(o, n, gross)
               /\ \A j \in DOMAIN b.orders : j # i => d.orders[j] = b.orders[j]
               /\ \A j \in DOMAIN b.orders : b.orders[j].symbol = o.symbol /\ j # i => ~Working(b.orders[j])
  <1> DEFINE o == b.orders[i]
             p == Counted(o, n, gross)
             f == [b.orders EXCEPT ![i] = p]
             d == [b EXCEPT !.orders[i] = p]
  <1>1. Typed(b) /\ Sound(b, i) /\ Alone(b)
    BY DEF BookInv, Placed
  <1>2. o \in Order /\ o.filled < o.qty /\ o.charged = Fee(o.gross) /\ (o.asked => o.status = "CANCEL_REQUESTED")
    BY <1>1, BookIs DEF Sound
  <1>3. p \in Order
    BY <1>2, CountedIs
  <1>4. Unfilled(o) \in Nat
    BY <1>2 DEF Unfilled, Order
  <1>5. b \in Book /\ b.orders \in Seq(Order) /\ i \in 1..Len(b.orders) /\ DOMAIN b.orders = 1..Len(b.orders)
    BY <1>1, BookIs
  <1> HIDE DEF p
  <1>6. f \in Seq(Order) /\ Len(f) = Len(b.orders) /\ f[i] = p /\ \A j \in DOMAIN b.orders : j # i => f[j] = b.orders[j]
    BY <1>3, <1>5
  <1>7. d = [b EXCEPT !.orders = f]
    BY <1>5 DEF Book
  <1> HIDE DEF f, d
  <1>8. d \in Book /\ d.orders = f /\ d.cash = b.cash /\ d.holds = b.holds /\ d.stats = b.stats
    BY <1>5, <1>6, <1>7 DEF Book
  <1>9. \A j \in DOMAIN b.orders : b.orders[j].symbol = o.symbol /\ j # i => ~Working(b.orders[j])
    BY <1>1 DEF Alone
  <1> QED BY <1>2, <1>3, <1>4, <1>6, <1>8, <1>9 DEF p, d

\* The claim of the order that fills.
LEMMA ClaimOfOne ==
    ASSUME NEW b, Typed(b), \A j \in DOMAIN b.orders : Sound(b, j), NEW i \in DOMAIN b.orders
    PROVE  Claims(b)[i] = IF b.orders[i].side = "BUY" /\ Working(b.orders[i])
                            THEN Due(b.orders[i].gross, b.orders[i].charged, Unfilled(b.orders[i])) ELSE 0
  <1>1. i \in Theses /\ b.orders[i] \in Order /\ b.orders[i].filled <= b.orders[i].qty
    BY BookIs DEF Sound
  <1>2. ReservedFor(b.orders[i]) = Due(b.orders[i].gross, b.orders[i].charged, Unfilled(b.orders[i]))
    BY <1>1, ReserveIs
  <1> QED BY <1>1, <1>2, OpenEntry DEF Claims

\* A fill of an entry: the cash that pays for it was reserved.
LEMMA BoughtKeeps ==
    ASSUME NEW b, BookInv(b), NEW i \in DOMAIN b.orders, Working(b.orders[i]), b.orders[i].side = "BUY",
           NEW n \in Nat, n > 0, n <= Unfilled(b.orders[i]), NEW price \in Nat, price <= Limit
    PROVE  LET o == b.orders[i]
               gross == n * price
               paid == gross + FeeDue(o, gross)
               c == Bought([b EXCEPT !.orders[i] = Counted(o, n, gross)], o, n, paid)
           IN  paid <= b.cash /\ BookInv(c) /\ Len(c.orders) = Len(b.orders)
  <1> DEFINE o == b.orders[i]
             s == o.symbol
             gross == n * price
             paid == gross + FeeDue(o, gross)
             p == Counted(o, n, gross)
             d == [b EXCEPT !.orders[i] = p]
             c == Bought(d, o, n, paid)
             u == Unfilled(o)
             new == [b.stats[i] EXCEPT !.spent = @ + paid, !.bought = @ + n]
             held == [qty |-> b.holds[s].qty + n, thesis |-> i]
  <1>1. Typed(b) /\ Sound(b, i) /\ Enters(b, i) /\ i \in Theses
    BY BookIs DEF BookInv, Placed
  <1>2. gross \in Nat
    OBVIOUS
  <1>3. /\ o \in Order /\ o.filled < o.qty /\ o.charged = Fee(o.gross) /\ u \in Nat
        /\ o.asked => o.status = "CANCEL_REQUESTED"
        /\ d \in Book /\ Len(d.orders) = Len(b.orders) /\ d.cash = b.cash /\ d.holds = b.holds
        /\ d.stats = b.stats /\ d.orders[i] = p
        /\ \A j \in DOMAIN b.orders : j # i => d.orders[j] = b.orders[j]
        /\ \A j \in DOMAIN b.orders : b.orders[j].symbol = s /\ j # i => ~Working(b.orders[j])
    BY <1>2, FillingIs
  <1>4. /\ p \in Order
        /\ p.side = "BUY" /\ p.symbol = s /\ p.qty = o.qty /\ p.thesis = o.thesis
        /\ p.gross = o.gross + gross /\ p.charged = Fee(o.gross + gross)
        /\ p.filled <= p.qty /\ Unfilled(p) = u - n
        /\ Working(p) => p.filled < p.qty
        /\ p.asked /\ Working(p) => p.status = "CANCEL_REQUESTED"
    BY <1>2, <1>3, CountedIs
  <1>5. o.gross \in Nat /\ s \in Symbols /\ o.thesis = i /\ Fee(o.gross) \in Nat /\ Fee(o.gross + gross) \in Nat
    <2>1. o.gross \in Nat /\ s \in Symbols /\ o.thesis = i
      BY <1>1, <1>3 DEF Order, Sound
    <2>2. o.gross + gross \in Nat
      BY <1>2, <2>1
    <2> QED BY <2>1, <2>2, FeeIs
  <1>6. paid = gross + (Fee(o.gross + gross) - Fee(o.gross))
    BY <1>3 DEF FeeDue
  <1>7. /\ paid >= 0 /\ paid \in Int
        /\ paid + Due(o.gross + gross, Fee(o.gross + gross), u - n) <= Due(o.gross, Fee(o.gross), u)
    <2>1. /\ gross + (Fee(o.gross + gross) - Fee(o.gross)) >= 0
          /\ gross + (Fee(o.gross + gross) - Fee(o.gross)) + Due(o.gross + gross, Fee(o.gross + gross), u - n)
                <= Due(o.gross, Fee(o.gross), u)
      BY <1>3, <1>5, EntryPays
    <2> QED BY <1>2, <1>5, <1>6, <2>1
  <1>8. b.holds \in [Symbols -> Holding] /\ b.stats \in [Theses -> Stats] /\ b.cash \in Int
    BY <1>1, BookIs
  <1>9. b.holds[s].qty \in Nat /\ b.stats[i] \in Stats
    BY <1>1, <1>5, <1>8 DEF Holding
  <1>10. b.holds[s].qty = 0 => b.stats[i] = NoStats
    BY <1>1 DEF Enters
  <1>11. b.holds[s].qty # 0 => b.holds[s].thesis = i
    BY <1>1, <1>9 DEF Enters
  <1> HIDE DEF paid, p, d, gross, u
  <1>12. c = [d EXCEPT !.cash = b.cash - paid, !.holds = [b.holds EXCEPT ![s] = held],
                       !.stats = [b.stats EXCEPT ![i] = new]]
    <2>1. c = [d EXCEPT !.cash = @ - paid,
                 !.holds[s] = [qty |-> @.qty + n, thesis |-> IF d.holds[s].qty = 0 THEN o.thesis ELSE @.thesis],
                 !.stats[o.thesis] = [IF d.holds[s].qty = 0 THEN NoStats ELSE d.stats[o.thesis]
                                        EXCEPT !.spent = @ + paid, !.bought = @ + n]]
      BY DEF Bought
    <2>2. (IF d.holds[s].qty = 0 THEN NoStats ELSE d.stats[o.thesis]) = b.stats[i]
      BY <1>3, <1>5, <1>10
    <2>3. [qty |-> d.holds[s].qty + n, thesis |-> IF d.holds[s].qty = 0 THEN o.thesis ELSE d.holds[s].thesis] = held
      BY <1>3, <1>5, <1>11
    <2> HIDE DEF new, held, c
    <2>4. c = [d EXCEPT !.cash = d.cash - paid,
                 !.holds = [d.holds EXCEPT ![s] = held],
                 !.stats = [d.stats EXCEPT ![i] = new]]
      BY <1>3, <1>5, <2>1, <2>2, <2>3 DEF Book, new
    <2> QED BY <1>3, <2>4
  <1>13. new \in Stats /\ held \in Holding /\ b.cash - paid \in Int
    <2>1. b.stats[i].spent \in Int /\ b.stats[i].bought \in Int
      BY <1>9 DEF Stats
    <2>2. b.stats[i].spent + paid \in Int /\ b.stats[i].bought + n \in Int
      BY <1>7, <2>1
    <2>3. new \in Stats
      BY <1>9, <2>2 DEF Stats
    <2>4. held \in Holding
      BY <1>1, <1>9 DEF Holding, Theses
    <2> QED BY <1>7, <1>8, <2>3, <2>4
  <1>14. /\ new.got = b.stats[i].got /\ new.sold = b.stats[i].sold /\ new.spent = b.stats[i].spent + paid
         /\ new.bought = b.stats[i].bought + n
    BY <1>9 DEF Stats
  <1> HIDE DEF new
  <1>15. /\ c \in Book /\ c.orders = d.orders /\ c.cash = b.cash - paid
         /\ c.holds = [b.holds EXCEPT ![s] = held] /\ c.stats = [b.stats EXCEPT ![i] = new]
    <2>1. [b.holds EXCEPT ![s] = held] \in [Symbols -> Holding] /\ [b.stats EXCEPT ![i] = new] \in [Theses -> Stats]
      BY <1>8, <1>13
    <2> HIDE DEF held, c
    <2> QED BY <1>3, <1>12, <1>13, <2>1 DEF Book
  <1> HIDE DEF c
  <1>16. Typed(c) /\ Len(c.orders) = Len(b.orders) /\ DOMAIN c.orders = DOMAIN b.orders
    <2>1. Typed(c) /\ Len(c.orders) = Len(b.orders)
      BY <1>1, <1>3, <1>15 DEF Typed
    <2> QED BY <1>1, <2>1, BookIs
  <1>17. c.holds[s] = held /\ c.stats[i] = new
    BY <1>1, <1>5, <1>8, <1>15
  <1>18. ASSUME NEW j \in DOMAIN b.orders
         PROVE  /\ c.orders[j].side = b.orders[j].side /\ c.orders[j].symbol = b.orders[j].symbol
                /\ Working(c.orders[j]) => Working(b.orders[j])
                /\ Sound(c, j)
                /\ b.orders[j].symbol # s => c.orders[j] = b.orders[j]
                /\ b.orders[j].symbol = s => Exits(c, j) /\ Enters(c, j)
    <2>1. CASE j = i
      <3>1. c.orders[j] = p
        BY <1>3, <1>15, <2>1
      <3>2. Sound(c, j)
        BY <1>4, <1>5, <2>1, <3>1 DEF Sound
      <3>3. Exits(c, j)
        BY <1>4, <3>1 DEF Exits
      <3>4. Enters(c, j)
        BY <1>4, <1>9, <1>17, <2>1, <3>1 DEF Enters
      <3> QED BY <1>4, <2>1, <3>1, <3>2, <3>3, <3>4
    <2>2. CASE j # i
      <3>1. c.orders[j] = b.orders[j] /\ Sound(b, j)
        BY <1>3, <1>15, <2>2 DEF BookInv, Placed
      <3>2. Sound(c, j)
        BY <3>1 DEF Sound
      <3>3. b.orders[j].symbol = s => ~Working(c.orders[j])
        BY <1>3, <2>2, <3>1
      <3>4. b.orders[j].symbol = s => Exits(c, j) /\ Enters(c, j)
        BY <3>3 DEF Exits, Enters
      <3> QED BY <3>1, <3>2, <3>4
    <2> QED BY <2>1, <2>2
  <1>19. Placed(c)
    <2>1. Placed(b)
      BY DEF BookInv
    <2>2. c.stats[i].bought - c.stats[i].sold = c.holds[s].qty
      <3>1. b.holds[s].qty > 0 => b.stats[i].bought - b.stats[i].sold = b.holds[s].qty
        BY <1>5, <1>9, <1>11, <2>1 DEF Placed, Owned
      <3>2. b.holds[s].qty = 0 => b.stats[i].bought - b.stats[i].sold = 0
        BY <1>10 DEF NoStats
      <3>3. b.stats[i].bought \in Int /\ b.stats[i].sold \in Int
        BY <1>9 DEF Stats
      <3> QED BY <1>9, <1>14, <1>17, <3>1, <3>2, <3>3
    <2>3. b.holds[s].qty > 0 => b.holds[s].thesis = i
      BY <1>11
    <2>4. \A x \in Symbols : x # s => c.holds[x] = b.holds[x]
      BY <1>8, <1>15
    <2>5. \A x \in Theses : x # i => c.stats[x] = b.stats[x]
      BY <1>8, <1>15
    <2>6. c.holds[s].qty > 0 /\ c.holds[s].thesis = i /\ c.holds[s].qty # 0
      BY <1>9, <1>17
    <2>7. b.orders[i].side = "BUY" /\ b.orders[i].symbol = s /\ s \in Symbols
      BY <1>5
    <2> HIDE DEF s, o
    <2> QED BY <1>1, <1>16, <1>18, <2>1, <2>2, <2>3, <2>4, <2>5, <2>6, <2>7, PlacedMoves
  <1>20. Paid(c)
    <2>1. c.cash - b.cash = (c.stats[i].got - c.stats[i].spent) - (b.stats[i].got - b.stats[i].spent)
      <3>1. b.stats[i].got \in Int /\ b.stats[i].spent \in Int
        BY <1>9 DEF Stats
      <3> QED BY <1>7, <1>8, <1>14, <1>15, <1>17, <3>1
    <2>2. \A x \in Theses : x # i => c.stats[x] = b.stats[x]
      BY <1>8, <1>15
    <2> QED BY <1>1, <1>16, <2>1, <2>2, PaidMoves
  <1>21. Claims(b)[i] = Due(o.gross, Fee(o.gross), u) /\ Claims(b)[i] \in Nat
    <2>1. Claims(b)[i] = Due(b.orders[i].gross, b.orders[i].charged, Unfilled(b.orders[i]))
      BY <1>1, ClaimOfOne DEF BookInv, Placed
    <2>2. Claims(b)[i] \in Nat
      BY <1>1, ClaimIs DEF BookInv, Placed
    <2> QED BY <1>3, <2>1, <2>2 DEF u
  <1>22. \A j \in DOMAIN c.orders : Sound(c, j)
    BY <1>16, <1>18
  <1>23. Claims(c)[i] <= Due(o.gross + gross, Fee(o.gross + gross), u - n) /\ Claims(c)[i] \in Nat
    <2>1. Claims(c)[i] = IF c.orders[i].side = "BUY" /\ Working(c.orders[i])
                           THEN Due(c.orders[i].gross, c.orders[i].charged, Unfilled(c.orders[i])) ELSE 0
      BY <1>16, <1>22, ClaimOfOne
    <2>2. c.orders[i] = p
      BY <1>3, <1>15
    <2>3. Due(p.gross, p.charged, Unfilled(p)) = ReservedFor(p) /\ ReservedFor(p) \in Nat
      BY <1>4, ReserveIs
    <2>4. Due(p.gross, p.charged, Unfilled(p)) = Due(o.gross + gross, Fee(o.gross + gross), u - n)
      BY <1>4
    <2> QED BY <2>1, <2>2, <2>3, <2>4
  <1>24. Due(o.gross + gross, Fee(o.gross + gross), u - n) \in Int
    <2>1. Due(p.gross, p.charged, Unfilled(p)) = ReservedFor(p) /\ ReservedFor(p) \in Nat
      BY <1>4, ReserveIs
    <2> QED BY <1>4, <2>1
  <1>25. c.cash - b.cash >= Claims(c)[i] - Claims(b)[i]
    <2>1. c.cash - b.cash = 0 - paid
      BY <1>7, <1>8, <1>15
    <2> QED BY <1>7, <1>21, <1>23, <1>24, <2>1
  <1>26. Affordable(c)
    <2>1. \A j \in DOMAIN b.orders : j # i => c.orders[j] = b.orders[j]
      BY <1>3, <1>15
    <2> QED BY <1>1, <1>16, <1>22, <1>25, <2>1, ClaimMoves
  <1>27. paid <= b.cash
    <2>1. Claims(b)[i] <= SumFunctionOnSet(Claims(b), Theses)
      <3> DEFINE f == Claims(b)
      <3>1. \A x \in Theses : f[x] \in Nat
        BY <1>1, ClaimIs DEF BookInv, Placed
      <3> HIDE DEF f
      <3>2. SumFunctionOnSet(f, Theses) = f[i] + SumFunctionOnSet(f, Theses \ {i})
        BY <1>1, <3>1, ThesesFinite, SumApart
      <3>3. SumFunctionOnSet(f, Theses \ {i}) \in Nat
        <4>1. IsFiniteSet(Theses \ {i})
          BY ThesesFinite, FS_RemoveElement
        <4> QED BY <3>1, <4>1, SumNat
      <3>4. f[i] \in Nat
        BY <1>1, <3>1
      <3> QED BY <3>2, <3>3, <3>4 DEF f
    <2>2. SumFunctionOnSet(Claims(b), Theses) <= b.cash /\ SumFunctionOnSet(Claims(b), Theses) \in Nat
      BY SumsInt DEF BookInv, Affordable
    <2>3. paid <= Claims(b)[i]
      <3>1. Due(o.gross + gross, Fee(o.gross + gross), u - n) >= 0
        BY <1>23, <1>24
      <3> QED BY <1>7, <1>21, <1>24, <3>1
    <2> QED BY <1>7, <1>8, <1>21, <2>1, <2>2, <2>3
  <1> QED BY <1>16, <1>19, <1>20, <1>26, <1>27 DEF BookInv, c, d, p, paid, gross

\* A fill of an exit: what it sells is held, and it pays its own costs.
LEMMA SoldKeeps ==
    ASSUME NEW b, BookInv(b), NEW i \in DOMAIN b.orders, Working(b.orders[i]), b.orders[i].side = "SELL",
           NEW n \in Nat, n > 0, n <= Unfilled(b.orders[i]), NEW price \in Bids
    PROVE  LET o == b.orders[i]
               gross == n * price
               got == gross - FeeDue(o, gross) - gross \div TaxPart
               c == Sold([b EXCEPT !.orders[i] = Counted(o, n, gross)], o, n, got)
           IN  n <= b.holds[o.symbol].qty /\ BookInv(c) /\ Len(c.orders) = Len(b.orders)
  <1> DEFINE o == b.orders[i]
             s == o.symbol
             t == o.thesis
             gross == n * price
             got == gross - FeeDue(o, gross) - gross \div TaxPart
             p == Counted(o, n, gross)
             d == [b EXCEPT !.orders[i] = p]
             c == Sold(d, o, n, got)
             u == Unfilled(o)
             new == [b.stats[t] EXCEPT !.got = @ + got, !.sold = @ + n]
             held == IF b.holds[s].qty = n THEN NoHolding ELSE [b.holds[s] EXCEPT !.qty = @ - n]
  <1>1. Typed(b) /\ Sound(b, i) /\ Exits(b, i) /\ i \in Theses
    BY BookIs DEF BookInv, Placed
  <1>2. gross \in Nat /\ price \in Nat
    BY Constants
  <1> HIDE DEF gross
  <1>3. /\ o \in Order /\ o.filled < o.qty /\ o.charged = Fee(o.gross) /\ u \in Nat
        /\ o.asked => o.status = "CANCEL_REQUESTED"
        /\ d \in Book /\ Len(d.orders) = Len(b.orders) /\ d.cash = b.cash /\ d.holds = b.holds
        /\ d.stats = b.stats /\ d.orders[i] = p
        /\ \A j \in DOMAIN b.orders : j # i => d.orders[j] = b.orders[j]
        /\ \A j \in DOMAIN b.orders : b.orders[j].symbol = s /\ j # i => ~Working(b.orders[j])
    BY <1>2, FillingIs
  <1>4. /\ p \in Order
        /\ p.side = "SELL" /\ p.symbol = s /\ p.qty = o.qty /\ p.thesis = o.thesis
        /\ p.gross = o.gross + gross /\ p.charged = Fee(o.gross + gross)
        /\ p.filled <= p.qty /\ Unfilled(p) = u - n
        /\ Working(p) => p.filled < p.qty
        /\ p.asked /\ Working(p) => p.status = "CANCEL_REQUESTED"
    BY <1>2, <1>3, CountedIs
  <1>5. o.gross \in Nat /\ s \in Symbols
    BY <1>3 DEF Order
  <1>6. got \in Int /\ got >= 0
    <2>1. o.gross + gross \in Nat /\ Fee(o.gross + gross) \in Nat /\ Fee(o.gross) \in Nat
      BY <1>2, <1>5, FeeIs
    <2>2. gross \div TaxPart \in Nat
      BY <1>2, Constants, DivMonotone
    <2>3. FeeDue(o, gross) = Fee(o.gross + gross) - Fee(o.gross)
      BY <1>3 DEF FeeDue
    <2>4. gross - (Fee(o.gross + gross) - Fee(o.gross)) - gross \div TaxPart >= 0
      BY <1>5, SalePays DEF gross
    <2> QED BY <1>2, <2>1, <2>2, <2>3, <2>4
  <1>7. b.holds \in [Symbols -> Holding] /\ b.stats \in [Theses -> Stats] /\ b.cash \in Int
    BY <1>1, BookIs
  <1>8. b.holds[s].qty \in Nat /\ b.holds[s] \in Holding
    BY <1>5, <1>7 DEF Holding
  <1>9. u <= b.holds[s].qty /\ n <= b.holds[s].qty /\ b.holds[s].qty > 0 /\ b.holds[s].thesis = t
    BY <1>1, <1>3, <1>8 DEF Exits
  <1>10. /\ t \in DOMAIN b.orders /\ b.orders[t].side = "BUY" /\ b.orders[t].symbol = s
         /\ b.stats[t].bought - b.stats[t].sold = b.holds[s].qty /\ t \in Theses /\ b.stats[t] \in Stats
    <2>1. Owned(b, s)
      BY <1>5 DEF BookInv, Placed
    <2>2. t \in DOMAIN b.orders /\ b.orders[t].side = "BUY" /\ b.orders[t].symbol = s
          /\ b.stats[t].bought - b.stats[t].sold = b.holds[s].qty
      BY <1>9, <2>1 DEF Owned
    <2>3. t \in Theses
      BY <1>1, <2>2, BookIs
    <2> QED BY <1>7, <2>2, <2>3
  <1> HIDE DEF got, p, d, u
  <1>11. c = [d EXCEPT !.cash = b.cash + got, !.holds = [b.holds EXCEPT ![s] = held],
                       !.stats = [b.stats EXCEPT ![t] = new]]
    <2> DEFINE hd == IF d.holds[s].qty = n THEN NoHolding ELSE [d.holds[s] EXCEPT !.qty = @ - n]
               nw == [d.stats[t] EXCEPT !.got = @ + got, !.sold = @ + n]
    <2>1. c = [d EXCEPT !.cash = @ + got, !.holds[s] = hd, !.stats[t] = nw]
      BY DEF Sold
    <2>2. hd = held
      BY <1>3
    <2>3. nw = new
      BY <1>3
    <2> HIDE DEF new, held, c, hd, nw
    <2>4. c = [d EXCEPT !.cash = d.cash + got, !.holds = [d.holds EXCEPT ![s] = held],
                        !.stats = [d.stats EXCEPT ![t] = new]]
      BY <1>3, <2>1, <2>2, <2>3 DEF Book
    <2> QED BY <1>3, <2>4
  <1>12. /\ held \in Holding /\ held.qty = b.holds[s].qty - n
         /\ held.qty > 0 => held.thesis = t
         /\ held.qty = 0 => held.thesis = 0
    <2>1. CASE b.holds[s].qty = n
      BY <1>8, <2>1 DEF NoHolding, Holding
    <2>2. CASE b.holds[s].qty # n
      BY <1>8, <1>9, <2>2 DEF Holding
    <2> QED BY <2>1, <2>2
  <1>13. /\ new \in Stats /\ new.got = b.stats[t].got + got /\ new.sold = b.stats[t].sold + n
         /\ new.spent = b.stats[t].spent /\ new.bought = b.stats[t].bought
    <2>1. b.stats[t].got + got \in Int /\ b.stats[t].sold + n \in Int
      BY <1>6, <1>10 DEF Stats
    <2> QED BY <1>10, <2>1 DEF Stats
  <1> HIDE DEF new, held
  <1>14. /\ c \in Book /\ c.orders = d.orders /\ c.cash = b.cash + got
         /\ c.holds = [b.holds EXCEPT ![s] = held] /\ c.stats = [b.stats EXCEPT ![t] = new]
    <2>1. [b.holds EXCEPT ![s] = held] \in [Symbols -> Holding] /\ [b.stats EXCEPT ![t] = new] \in [Theses -> Stats]
      BY <1>7, <1>12, <1>13
    <2>2. b.cash + got \in Int
      BY <1>6, <1>7
    <2> HIDE DEF c
    <2> QED BY <1>3, <1>11, <2>1, <2>2 DEF Book
  <1> HIDE DEF c
  <1>15. Typed(c) /\ Len(c.orders) = Len(b.orders) /\ DOMAIN c.orders = DOMAIN b.orders
    <2>1. Typed(c) /\ Len(c.orders) = Len(b.orders)
      BY <1>1, <1>3, <1>14 DEF Typed
    <2> QED BY <1>1, <2>1, BookIs
  <1>16. /\ c.holds[s] = held /\ c.stats[t] = new
         /\ \A x \in Symbols : x # s => c.holds[x] = b.holds[x]
         /\ \A x \in Theses : x # t => c.stats[x] = b.stats[x]
    BY <1>5, <1>7, <1>10, <1>14
  <1>17. ASSUME NEW j \in DOMAIN b.orders
         PROVE  /\ c.orders[j].side = b.orders[j].side /\ c.orders[j].symbol = b.orders[j].symbol
                /\ Working(c.orders[j]) => Working(b.orders[j])
                /\ Sound(c, j)
                /\ b.orders[j].symbol # s => c.orders[j] = b.orders[j]
                /\ b.orders[j].symbol = s => Exits(c, j) /\ Enters(c, j)
    <2>1. CASE j = i
      <3>1. c.orders[j] = p
        BY <1>3, <1>14, <2>1
      <3>2. Sound(c, j)
        BY <1>4, <3>1 DEF Sound
      <3>3. Exits(c, j)
        <4>1. Unfilled(p) <= held.qty
          BY <1>3, <1>4, <1>8, <1>9, <1>12
        <4>2. Working(p) => held.qty > 0
          <5>1. Unfilled(p) = p.qty - p.filled /\ p.qty \in Nat /\ p.filled \in Nat
            BY <1>4 DEF Unfilled, Order
          <5> QED BY <1>4, <1>8, <1>12, <4>1, <5>1
        <4> QED BY <1>4, <1>12, <1>16, <3>1, <4>1, <4>2 DEF Exits
      <3>4. Enters(c, j)
        BY <1>4, <3>1 DEF Enters
      <3> QED BY <1>4, <2>1, <3>1, <3>2, <3>3, <3>4
    <2>2. CASE j # i
      <3>1. c.orders[j] = b.orders[j] /\ Sound(b, j)
        BY <1>3, <1>14, <2>2 DEF BookInv, Placed
      <3>2. Sound(c, j)
        BY <3>1 DEF Sound
      <3>3. b.orders[j].symbol = s => ~Working(c.orders[j])
        BY <1>3, <2>2, <3>1
      <3>4. b.orders[j].symbol = s => Exits(c, j) /\ Enters(c, j)
        BY <3>3 DEF Exits, Enters
      <3> QED BY <3>1, <3>2, <3>4
    <2> QED BY <2>1, <2>2
  <1>18. Placed(c)
    <2>1. Placed(b)
      BY DEF BookInv
    <2>2. c.stats[t].bought - c.stats[t].sold = c.holds[s].qty
      <3>1. b.stats[t].bought \in Int /\ b.stats[t].sold \in Int
        BY <1>10 DEF Stats
      <3> QED BY <1>8, <1>10, <1>12, <1>13, <1>16, <3>1
    <2>3. c.holds[s].qty = 0 => c.holds[s].thesis = 0
      BY <1>12, <1>16
    <2>4. c.holds[s].qty > 0 => c.holds[s].thesis = t
      BY <1>12, <1>16
    <2> HIDE DEF s, o, t
    <2> QED BY <1>1, <1>5, <1>9, <1>10, <1>15, <1>16, <1>17, <2>1, <2>2, <2>3, <2>4, PlacedMoves
  <1>19. Paid(c)
    <2>1. c.cash - b.cash = (c.stats[t].got - c.stats[t].spent) - (b.stats[t].got - b.stats[t].spent)
      <3>1. b.stats[t].got \in Int /\ b.stats[t].spent \in Int
        BY <1>10 DEF Stats
      <3> QED BY <1>6, <1>7, <1>13, <1>14, <1>16, <3>1
    <2> HIDE DEF t
    <2> QED BY <1>10, <1>15, <1>16, <2>1, PaidMoves
  <1>20. \A j \in DOMAIN c.orders : Sound(c, j)
    BY <1>15, <1>17
  <1>21. c.cash - b.cash >= Claims(c)[i] - Claims(b)[i]
    <2>1. c.orders[i].side = "SELL" /\ b.orders[i].side = "SELL"
      BY <1>3, <1>4, <1>14
    <2>2. i \notin OpenOf(c, "BUY", Symbols) /\ i \notin OpenOf(b, "BUY", Symbols)
      BY <1>1, <1>15, <2>1, OpenEntry
    <2>3. Claims(c)[i] = 0 /\ Claims(b)[i] = 0
      BY <1>1, <2>2 DEF Claims
    <2> QED BY <1>6, <1>7, <1>14, <2>3
  <1>22. Affordable(c)
    <2>1. \A j \in DOMAIN b.orders : j # i => c.orders[j] = b.orders[j]
      BY <1>3, <1>14
    <2> QED BY <1>1, <1>15, <1>20, <1>21, <2>1, ClaimMoves
  <1> QED BY <1>9, <1>15, <1>18, <1>19, <1>22 DEF BookInv, c, d, p, got, gross

\* A corporate action on what is held.
Acted(b, c, s, t) ==
    /\ Typed(c) /\ c.orders = b.orders /\ s \in Symbols
    /\ b.holds[s].qty > 0 /\ t = b.holds[s].thesis
    /\ \A x \in Symbols : x # s => c.holds[x] = b.holds[x]
    /\ \A x \in Theses : x # t => c.stats[x] = b.stats[x]
    /\ c.holds[s].qty > 0 /\ c.holds[s].thesis = t
    /\ c.stats[t].bought - c.stats[t].sold = c.holds[s].qty
    /\ \A j \in DOMAIN b.orders : b.orders[j].symbol = s /\ Working(b.orders[j]) => c.holds[s] = b.holds[s]
    /\ c.cash - b.cash = (c.stats[t].got - c.stats[t].spent) - (b.stats[t].got - b.stats[t].spent)
    /\ c.cash >= b.cash

LEMMA ActionKeeps ==
    ASSUME NEW b, BookInv(b), NEW c, NEW s, NEW t, Acted(b, c, s, t)
    PROVE  BookInv(c)
  <1> USE DEF Acted
  <1>1. /\ t \in DOMAIN b.orders /\ b.orders[t].side = "BUY" /\ b.orders[t].symbol = s /\ t \in Theses
        /\ Typed(b) /\ Placed(b)
    <2>1. Typed(b) /\ Placed(b) /\ Owned(b, s)
      BY DEF BookInv, Placed
    <2>2. t \in DOMAIN b.orders /\ b.orders[t].side = "BUY" /\ b.orders[t].symbol = s
      BY <2>1 DEF Owned
    <2> QED BY <2>1, <2>2, BookIs
  <1>2. ASSUME NEW j \in DOMAIN b.orders
        PROVE  Sound(c, j) /\ (b.orders[j].symbol = s => Exits(c, j) /\ Enters(c, j))
    <2>1. Sound(b, j) /\ Exits(b, j) /\ Enters(b, j)
      BY <1>1 DEF Placed
    <2> QED BY <2>1 DEF Sound, Exits, Enters
  <1>3. c.holds[s].qty # 0 /\ Len(c.orders) = Len(b.orders)
    BY BookIs DEF Holding
  <1>4. Placed(c)
    BY <1>1, <1>2, <1>3, PlacedMoves
  <1>5. Paid(c)
    BY <1>1, PaidMoves
  <1>6. Affordable(c)
    <2>1. Claims(c)[t] = Claims(b)[t] /\ Claims(b)[t] \in Nat
      <3>1. Claims(b)[t] \in Nat
        BY <1>1, ClaimIs DEF Placed
      <3>2. Claims(c)[t] = Claims(b)[t]
        BY DEF Claims, OpenOf
      <3> QED BY <3>1, <3>2
    <2>2. b.cash \in Int /\ c.cash \in Int
      BY <1>1, BookIs
    <2>3. c.cash - b.cash >= Claims(c)[t] - Claims(b)[t]
      BY <2>1, <2>2
    <2> QED BY <1>1, <1>2, <1>3, <2>3, ClaimMoves
  <1> QED BY <1>4, <1>5, <1>6 DEF BookInv

-----------------------------------------------------------------------------
(* A quote passes the orders, from the first to the last *)

Passes(g, start, quote, n) ==
    g = [i \in 0..n |-> IF i = 0 THEN start ELSE Fill(g[i - 1], i, quote)]

Passage(start, quote, n) == CHOOSE g : Passes(g, start, quote, n)

LEMMA PassesAt ==
    ASSUME NEW g, NEW start, NEW quote, NEW n \in Nat, Passes(g, start, quote, n), NEW i \in 0..n
    PROVE  g[i] = IF i = 0 THEN start ELSE Fill(g[i - 1], i, quote)
  <1> DEFINE e(k) == IF k = 0 THEN start ELSE Fill(g[k - 1], k, quote)
  <1>1. g = [k \in 0..n |-> e(k)]
    BY DEF Passes
  <1> HIDE DEF e
  <1>2. g[i] = e(i)
    BY <1>1
  <1> QED BY <1>2 DEF e

LEMMA PassageExists ==
    ASSUME NEW start, NEW quote, NEW n \in Nat
    PROVE  Passes(Passage(start, quote, n), start, quote, n)
  <1> DEFINE Passed(m) == \E g : Passes(g, start, quote, m)
             B == {m \in 0..n : ~Passed(m)}
  <1>1. SUFFICES Passed(n)
    BY <1>1 DEF Passage
  <1> SUFFICES ASSUME B # {} PROVE FALSE
    OBVIOUS
  <1>2. PICK m \in B : \A k \in B : m <= k
    <2>1. B \subseteq Nat /\ B # {} /\ IsFiniteSet(B)
      <3>1. B \subseteq 0..n
        OBVIOUS
      <3>2. IsFiniteSet(0..n)
        BY FS_Interval
      <3>3. IsFiniteSet(B)
        BY <3>1, <3>2, FS_Subset
      <3> QED BY <3>3
    <2> HIDE DEF B
    <2> QED BY <2>1, Least
  <1>3. m \in 0..n /\ ~Passed(m)
    OBVIOUS
  <1>4. CASE m = 0
    <2> DEFINE g == [i \in 0..m |-> start]
    <2>1. g = [i \in 0..m |-> IF i = 0 THEN start ELSE Fill(g[i - 1], i, quote)]
      <3>1. \A i \in 0..m : i = 0
        BY <1>4
      <3> HIDE DEF g
      <3>2. g = [i \in 0..m |-> start]
        BY DEF g
      <3> QED BY <3>1, <3>2
    <2> HIDE DEF g
    <2>2. Passes(g, start, quote, m)
      BY <2>1 DEF Passes
    <2> QED BY <1>3, <2>2
  <1>5. CASE m # 0
    <2>1. m - 1 \in 0..n /\ m \in Nat /\ ~(m <= m - 1)
      BY <1>3, <1>5
    <2>2. PICK g : Passes(g, start, quote, m - 1)
      BY <1>2, <2>1
    <2> DEFINE h == [i \in 0..m |-> IF i = m THEN Fill(g[m - 1], m, quote) ELSE g[i]]
               e(i) == IF i = 0 THEN start ELSE Fill(h[i - 1], i, quote)
    <2>3. ASSUME NEW i \in 0..m PROVE h[i] = e(i)
      <3>1. CASE i = m
        <4>1. m - 1 \in 0..m /\ m - 1 # m
          BY <2>1
        <4>2. h[i] = Fill(g[m - 1], m, quote) /\ h[m - 1] = g[m - 1]
          BY <3>1, <4>1
        <4> HIDE DEF h
        <4> QED BY <1>5, <3>1, <4>2
      <3>2. CASE i # m
        <4>1. i \in 0..(m - 1) /\ m - 1 \in Nat /\ (i # 0 => i - 1 \in 0..m /\ i - 1 # m)
          BY <1>5, <2>1, <3>2
        <4>2. g[i] = IF i = 0 THEN start ELSE Fill(g[i - 1], i, quote)
          BY <2>2, <4>1, PassesAt
        <4>3. h[i] = g[i] /\ (i # 0 => h[i - 1] = g[i - 1])
          BY <3>2, <4>1
        <4> HIDE DEF h
        <4> QED BY <4>2, <4>3
      <3> QED BY <3>1, <3>2
    <2>4. h = [i \in 0..m |-> h[i]]
      OBVIOUS
    <2> HIDE DEF h
    <2>5. h = [i \in 0..m |-> IF i = 0 THEN start ELSE Fill(h[i - 1], i, quote)]
      BY <2>3, <2>4
    <2>6. Passes(h, start, quote, m)
      BY <2>5 DEF Passes
    <2> QED BY <1>3, <2>6
  <1> QED BY <1>4, <1>5

LEMMA FilledIs ==
    ASSUME NEW b, NEW quote
    PROVE  LET start == [book |-> b, size |-> quote.size, aborted |-> FALSE]
           IN  Filled(b, quote) = IF quote.usable /\ quote.symbol \notin b.halted
                                    THEN Passage(start, quote, Len(b.orders))[Len(b.orders)] ELSE start
  BY DEF Filled, Passage, Passes

\* What is left of a quote after some orders, and the book they have made.
Passing(state, n) ==
    /\ state = [book |-> state.book, size |-> state.size, aborted |-> FALSE]
    /\ BookInv(state.book) /\ Len(state.book.orders) = n
    /\ state.size \in [{"BUY", "SELL"} -> Nat]

LEMMA FillKeeps ==
    ASSUME NEW quote, quote.ask \in Asks, quote.bid \in Bids, NEW n, NEW state, Passing(state, n),
           NEW i \in 1..n
    PROVE  Passing(Fill(state, i, quote), n)
  <1> DEFINE b     == state.book
             o     == b.orders[i]
             buys  == o.side = "BUY"
             price == IF buys THEN quote.ask ELSE quote.bid
             left  == state.size[o.side]
             k     == Min({Unfilled(o), left})
             gross == k * price
             fee   == FeeDue(o, gross)
             d     == [b EXCEPT !.orders[i] = Counted(o, k, gross)]
             meets == Working(o) /\ o.symbol = quote.symbol /\ quote.at >= o.eligible /\ k > 0
                        /\ (buys => price <= Limit)
             carried == IF buys THEN gross + fee <= d.cash ELSE k <= d.holds[o.symbol].qty
             c == IF buys THEN Bought(d, o, k, gross + fee) ELSE Sold(d, o, k, gross - fee - gross \div TaxPart)
  <1>1. Fill(state, i, quote) =
            IF state.aborted \/ ~meets THEN state
            ELSE IF ~carried THEN [state EXCEPT !.aborted = TRUE]
            ELSE [state EXCEPT !.book = c, !.size[o.side] = @ - k]
    BY DEF Fill
  <1>2. /\ BookInv(b) /\ Typed(b) /\ Len(b.orders) = n /\ state.size \in [{"BUY", "SELL"} -> Nat]
        /\ ~state.aborted /\ state = [book |-> b, size |-> state.size, aborted |-> FALSE]
    BY DEF Passing, BookInv
  <1>3. i \in DOMAIN b.orders /\ o \in Order
    BY <1>2, BookIs
  <1>4. o.side \in {"BUY", "SELL"} /\ Sound(b, i)
    BY <1>2, <1>3 DEF Order, BookInv, Placed
  <1>5. left \in Nat /\ Unfilled(o) \in Nat
    <2>1. Unfilled(o) \in Nat
      BY <1>3, <1>4, ReserveIs DEF Sound
    <2> QED BY <1>2, <1>4, <2>1
  <1>6. k \in Nat /\ k <= Unfilled(o) /\ k <= left
    BY <1>5, MinOf
  <1> HIDE DEF k
  <1>7. price \in Nat /\ gross \in Nat /\ (~buys => price \in Bids)
    <2>1. price \in Nat /\ (~buys => price \in Bids)
      BY Constants
    <2> HIDE DEF price
    <2> QED BY <1>6, <2>1
  <1> HIDE DEF price
  <1>8. CASE ~meets
    <2>1. Fill(state, i, quote) = state
      BY <1>1, <1>8
    <2> QED BY <2>1
  <1>9. CASE meets
    <2>1. d.cash = b.cash /\ d.holds = b.holds
      BY <1>2, <1>3, <1>6, <1>7, <1>9, FillingIs
    <2>2. carried /\ BookInv(c) /\ Len(c.orders) = n
      <3>1. CASE buys
        <4> DEFINE e == Bought(d, o, k, gross + fee)
        <4>1. gross + fee <= b.cash /\ BookInv(e) /\ Len(e.orders) = Len(b.orders)
          <5>1. /\ BookInv(b) /\ i \in DOMAIN b.orders /\ Working(b.orders[i]) /\ b.orders[i].side = "BUY"
                /\ k \in Nat /\ k > 0 /\ k <= Unfilled(b.orders[i]) /\ price \in Nat /\ price <= Limit
            BY <1>2, <1>3, <1>6, <1>7, <1>9, <3>1
          <5> QED BY <5>1, BoughtKeeps, Zenon
        <4> QED BY <1>2, <2>1, <3>1, <4>1
      <3>2. CASE ~buys
        <4> DEFINE e == Sold(d, o, k, gross - fee - gross \div TaxPart)
        <4>1. price \in Bids /\ o.side = "SELL"
          BY <1>4, <1>7, <3>2
        <4>2. k <= b.holds[o.symbol].qty /\ BookInv(e) /\ Len(e.orders) = Len(b.orders)
          <5>1. /\ BookInv(b) /\ i \in DOMAIN b.orders /\ Working(b.orders[i]) /\ b.orders[i].side = "SELL"
                /\ k \in Nat /\ k > 0 /\ k <= Unfilled(b.orders[i]) /\ price \in Bids
            BY <1>2, <1>3, <1>6, <1>9, <3>2, <4>1
          <5> QED BY <5>1, SoldKeeps, Zenon
        <4> QED BY <1>2, <2>1, <3>2, <4>2
      <3> QED BY <3>1, <3>2
    <2>3. Fill(state, i, quote) = [state EXCEPT !.book = c, !.size[o.side] = @ - k]
      BY <1>1, <1>2, <1>9, <2>2
    <2> DEFINE size == [state.size EXCEPT ![o.side] = left - k]
    <2> HIDE DEF c, b
    <2>6. Fill(state, i, quote) = [state EXCEPT !.book = c, !.size = size]
      BY <2>3
    <2>4. [state.size EXCEPT ![o.side] = left - k] \in [{"BUY", "SELL"} -> Nat]
      BY <1>2, <1>4, <1>5, <1>6
    <2>5. Fill(state, i, quote) = [book |-> c, size |-> [state.size EXCEPT ![o.side] = left - k], aborted |-> FALSE]
      <3> HIDE DEF size
      <3> DEFINE z == state.size
      <3>2. state = [book |-> b, size |-> z, aborted |-> FALSE]
        BY <1>2
      <3> HIDE DEF z
      <3>1. Fill(state, i, quote) = [book |-> c, size |-> size, aborted |-> FALSE]
        BY <2>6, <3>2
      <3> QED BY <3>1 DEF size
    <2> QED BY <2>2, <2>4, <2>5 DEF Passing
  <1> QED BY <1>8, <1>9

\* No fill aborts the replay.
LEMMA FilledKeeps ==
    ASSUME NEW b, BookInv(b), NEW quote, quote.ask \in Asks, quote.bid \in Bids, quote.size \in Sizes
    PROVE  ~Filled(b, quote).aborted /\ BookInv(Filled(b, quote).book)
  <1> DEFINE start == [book |-> b, size |-> quote.size, aborted |-> FALSE]
             n == Len(b.orders)
             after == Passage(start, quote, n)
             B == {i \in 0..n : ~Passing(after[i], n)}
  <1>1. n \in Nat
    BY BookIs DEF BookInv
  <1>2. Passing(start, n)
    BY PaperAssumption DEF Passing
  <1> HIDE DEF start, n
  <1>3. Passes(after, start, quote, n)
    BY <1>1, PassageExists
  <1> HIDE DEF after
  <1>4. B = {}
    <2> SUFFICES ASSUME B # {} PROVE FALSE
      OBVIOUS
    <2>1. PICK m \in B : \A i \in B : m <= i
      <3>1. B \subseteq 0..n
        OBVIOUS
      <3>2. IsFiniteSet(0..n)
        BY <1>1, FS_Interval
      <3>3. B \subseteq Nat /\ IsFiniteSet(B) /\ B # {}
        BY <1>1, <3>1, <3>2, FS_Subset
      <3> HIDE DEF B
      <3> QED BY <3>3, Least
    <2>2. m \in 0..n /\ ~Passing(after[m], n)
      OBVIOUS
    <2>3. after[m] = IF m = 0 THEN start ELSE Fill(after[m - 1], m, quote)
      BY <1>1, <1>3, <2>2, PassesAt
    <2>4. m # 0
      BY <1>2, <2>2, <2>3
    <2>5. m - 1 \in 0..n /\ m \in 1..n /\ ~(m <= m - 1)
      BY <1>1, <2>2, <2>4
    <2>6. Passing(after[m - 1], n)
      BY <2>1, <2>5
    <2>7. Passing(Fill(after[m - 1], m, quote), n)
      BY <2>5, <2>6, FillKeeps
    <2> QED BY <2>2, <2>3, <2>4, <2>7
  <1>5. Passing(after[n], n)
    BY <1>1, <1>4
  <1>6. Filled(b, quote) = after[n] \/ Filled(b, quote) = start
    BY FilledIs DEF after, start, n
  <1>7. Passing(Filled(b, quote), n)
    BY <1>2, <1>5, <1>6
  <1> QED BY <1>7 DEF Passing

\* A split doubles what is held and what its thesis bought and sold.
LEMMA SplitKeeps ==
    ASSUME NEW b, BookInv(b), NEW s \in Symbols, b.holds[s].qty > 0
    PROVE  BookInv(Split(b, s))
  <1>1. Typed(b) /\ Owned(b, s) /\ b \in Book /\ b.holds \in [Symbols -> Holding] /\ b.stats \in [Theses -> Stats]
    BY BookIs DEF BookInv, Placed
  <1>2. CASE OpenOf(b, "BUY", {s}) \cup OpenOf(b, "SELL", {s}) # {}
    <2> DEFINE c == [b EXCEPT !.unresolved = TRUE]
    <2>1. Split(b, s) = c
      BY <1>2 DEF Split
    <2>2. c \in Book /\ c.orders = b.orders /\ c.cash = b.cash /\ c.holds = b.holds /\ c.stats = b.stats
      BY <1>1 DEF Book
    <2> QED BY <2>1, <2>2, FlagsEase
  <1>3. CASE OpenOf(b, "BUY", {s}) \cup OpenOf(b, "SELL", {s}) = {}
    <2> DEFINE t == b.holds[s].thesis
               held == [b.holds[s] EXCEPT !.qty = 2 * @]
               new == [b.stats[t] EXCEPT !.bought = 2 * @, !.sold = 2 * @]
               c == Split(b, s)
    <2>1. /\ t \in Theses /\ b.stats[t] \in Stats /\ b.holds[s] \in Holding /\ b.holds[s].qty \in Nat
          /\ b.stats[t].bought - b.stats[t].sold = b.holds[s].qty
      <3>1. t \in DOMAIN b.orders /\ b.stats[t].bought - b.stats[t].sold = b.holds[s].qty
        BY <1>1 DEF Owned
      <3>2. t \in Theses
        BY <1>1, <3>1, BookIs
      <3> QED BY <1>1, <3>1, <3>2 DEF Holding
    <2>2. held \in Holding /\ held.qty = 2 * b.holds[s].qty /\ held.thesis = t
      BY <2>1 DEF Holding
    <2>3. /\ new \in Stats /\ new.bought = 2 * b.stats[t].bought /\ new.sold = 2 * b.stats[t].sold
          /\ new.got = b.stats[t].got /\ new.spent = b.stats[t].spent
      <3> DEFINE x == b.stats[t]
      <3>1. x \in Stats /\ x.bought \in Int /\ x.sold \in Int
        BY <2>1 DEF Stats
      <3> HIDE DEF x
      <3>2. 2 * x.bought \in Int /\ 2 * x.sold \in Int
        BY <3>1
      <3>3. new = [x EXCEPT !.bought = 2 * @, !.sold = 2 * @]
        BY DEF x
      <3> HIDE DEF new
      <3>4. /\ new \in Stats /\ new.bought = 2 * x.bought /\ new.sold = 2 * x.sold
            /\ new.got = x.got /\ new.spent = x.spent
        BY <3>1, <3>2, <3>3 DEF Stats
      <3> QED BY <3>4 DEF x
    <2>4. c = [b EXCEPT !.holds = [b.holds EXCEPT ![s] = held], !.stats = [b.stats EXCEPT ![t] = new]]
      <3>1. c = [b EXCEPT !.holds[s].qty = 2 * @, !.stats[t] = new]
        BY <1>3 DEF Split
      <3>2. c = [b EXCEPT !.holds = [b.holds EXCEPT ![s] = held], !.stats[t] = new]
        <4> HIDE DEF new, c
        <4> QED BY <3>1
      <3> HIDE DEF new, c, held, t
      <3> QED BY <3>2
    <2> HIDE DEF new, held, c
    <2>5. /\ c \in Book /\ c.orders = b.orders /\ c.cash = b.cash
          /\ c.holds = [b.holds EXCEPT ![s] = held] /\ c.stats = [b.stats EXCEPT ![t] = new]
      <3>1. [b.holds EXCEPT ![s] = held] \in [Symbols -> Holding] /\ [b.stats EXCEPT ![t] = new] \in [Theses -> Stats]
        BY <1>1, <2>2, <2>3
      <3> HIDE DEF t
      <3> QED BY <1>1, <2>4, <3>1 DEF Book
    <2>6. /\ c.holds[s] = held /\ c.stats[t] = new
          /\ \A x \in Symbols : x # s => c.holds[x] = b.holds[x]
          /\ \A x \in Theses : x # t => c.stats[x] = b.stats[x]
      BY <1>1, <2>1, <2>5
    <2>7. Typed(c)
      BY <1>1, <2>5 DEF Typed
    <2>8. ASSUME NEW j \in DOMAIN b.orders, b.orders[j].symbol = s, Working(b.orders[j]) PROVE FALSE
      <3>1. b.orders[j].side \in {"BUY", "SELL"}
        BY <1>1, <2>8, BookIs DEF Order
      <3>2. j \in OpenOf(b, "BUY", {s}) \/ j \in OpenOf(b, "SELL", {s})
        BY <2>8, <3>1 DEF OpenOf
      <3> QED BY <1>3, <3>2
    <2>9. /\ c.holds[s].qty > 0 /\ c.holds[s].thesis = t
          /\ c.stats[t].bought - c.stats[t].sold = c.holds[s].qty
      <3>1. b.stats[t].bought \in Int /\ b.stats[t].sold \in Int
        BY <2>1 DEF Stats
      <3> QED BY <2>1, <2>2, <2>3, <2>6, <3>1
    <2>10. /\ c.cash - b.cash = (c.stats[t].got - c.stats[t].spent) - (b.stats[t].got - b.stats[t].spent)
           /\ c.cash >= b.cash
      <3>1. b.cash \in Int /\ b.stats[t].got \in Int /\ b.stats[t].spent \in Int
        BY <1>1, <2>1, BookIs DEF Stats
      <3> QED BY <2>3, <2>5, <2>6, <3>1
    <2>11. \A j \in DOMAIN b.orders : b.orders[j].symbol = s /\ Working(b.orders[j]) => c.holds[s] = b.holds[s]
      BY <2>8
    <2>12. t = b.holds[s].thesis
      OBVIOUS
    <2> HIDE DEF t
    <2>13. BookInv(c)
      <3>1. Acted(b, c, s, t)
        BY <2>5, <2>6, <2>7, <2>9, <2>10, <2>11, <2>12 DEF Acted
      <3> QED BY <3>1, ActionKeeps
    <2> QED BY <2>13 DEF c
  <1> QED BY <1>2, <1>3

\* A dividend is cash, and what the thesis got.
LEMMA DividendKeeps ==
    ASSUME NEW b, BookInv(b), NEW s \in Symbols, b.holds[s].qty > 0
    PROVE  BookInv(Dividend(b, s))
  <1> DEFINE t == b.holds[s].thesis
             q == b.holds[s].qty
             new == [b.stats[t] EXCEPT !.got = @ + q]
             c == Dividend(b, s)
  <1>1. Typed(b) /\ Owned(b, s) /\ b \in Book /\ b.holds \in [Symbols -> Holding] /\ b.stats \in [Theses -> Stats]
        /\ b.cash \in Int
    BY BookIs DEF BookInv, Placed
  <1>2. /\ t \in Theses /\ b.stats[t] \in Stats /\ q \in Nat
        /\ b.stats[t].bought - b.stats[t].sold = q
    <2>1. t \in DOMAIN b.orders /\ b.stats[t].bought - b.stats[t].sold = q
      BY <1>1 DEF Owned
    <2>2. t \in Theses
      BY <1>1, <2>1, BookIs
    <2> QED BY <1>1, <2>1, <2>2 DEF Holding
  <1>3. /\ new \in Stats /\ new.bought = b.stats[t].bought /\ new.sold = b.stats[t].sold
        /\ new.got = b.stats[t].got + q /\ new.spent = b.stats[t].spent
    BY <1>2 DEF Stats
  <1>4. c = [b EXCEPT !.cash = b.cash + q, !.stats = [b.stats EXCEPT ![t] = new]]
    <2>1. c = [b EXCEPT !.cash = @ + q, !.stats[t].got = @ + q]
      BY DEF Dividend
    <2> HIDE DEF c, t, q
    <2> QED BY <2>1
  <1> HIDE DEF c, new
  <1>5. /\ c \in Book /\ c.orders = b.orders /\ c.cash = b.cash + q /\ c.holds = b.holds
        /\ c.stats = [b.stats EXCEPT ![t] = new]
    <2>1. [b.stats EXCEPT ![t] = new] \in [Theses -> Stats] /\ b.cash + q \in Int
      BY <1>1, <1>2, <1>3
    <2> HIDE DEF t, q
    <2> QED BY <1>1, <1>4, <2>1 DEF Book
  <1>6. c.stats[t] = new /\ \A x \in Theses : x # t => c.stats[x] = b.stats[x]
    BY <1>1, <1>2, <1>5
  <1>7. Typed(c)
    BY <1>1, <1>5 DEF Typed
  <1>8. /\ c.stats[t].bought - c.stats[t].sold = c.holds[s].qty
        /\ c.cash - b.cash = (c.stats[t].got - c.stats[t].spent) - (b.stats[t].got - b.stats[t].spent)
        /\ c.cash >= b.cash
    <2>1. b.stats[t].got \in Int /\ b.stats[t].spent \in Int
      BY <1>2 DEF Stats
    <2> QED BY <1>1, <1>2, <1>3, <1>5, <1>6, <2>1
  <1>9. t = b.holds[s].thesis /\ c.holds[s].qty > 0 /\ c.holds[s].thesis = t
    BY <1>5
  <1>10. /\ \A x \in Symbols : x # s => c.holds[x] = b.holds[x]
         /\ \A j \in DOMAIN b.orders : b.orders[j].symbol = s /\ Working(b.orders[j]) => c.holds[s] = b.holds[s]
    BY <1>5
  <1> HIDE DEF t, q
  <1>11. BookInv(c)
    <2>1. Acted(b, c, s, t)
      BY <1>5, <1>6, <1>7, <1>8, <1>9, <1>10 DEF Acted
    <2> QED BY <2>1, ActionKeeps
  <1> QED BY <1>11 DEF c

-----------------------------------------------------------------------------
(* Pauses, exits and entries *)

\* A pause asks the entries to end.
LEMMA PausingKeeps ==
    ASSUME NEW b, BookInv(b), NEW at \in Int
    PROVE  BookInv(Pausing(b, at))
  <1> DEFINE c       == [b EXCEPT !.paused = TRUE]
             entries == {i \in OpenOf(b, "BUY", Symbols) : b.orders[i].status /= "CANCEL_REQUESTED"}
  <1>1. b \in Book /\ at + CancelDelay \in Int
    BY BookIs, Constants DEF BookInv
  <1>2. c \in Book /\ c.orders = b.orders /\ c.cash = b.cash /\ c.holds = b.holds /\ c.stats = b.stats
    BY <1>1 DEF Book
  <1>3. Pausing(b, at) = Cancelled(c, entries, at + CancelDelay)
    BY DEF Pausing
  <1> HIDE DEF c, entries
  <1>4. BookInv(c)
    BY <1>2, FlagsEase
  <1> QED BY <1>1, <1>3, <1>4, CancelledKeeps

\* A new order.
LEMMA OrderedIs ==
    ASSUME NEW b, Typed(b), NEW side \in {"BUY", "SELL"}, NEW s \in Symbols, NEW n \in Nat, clock \in Nat
    PROVE  LET o == Ordered(b, side, s, n)
           IN  /\ o \in Order /\ o.side = side /\ o.symbol = s /\ o.qty = n
               /\ o.filled = 0 /\ o.gross = 0 /\ o.charged = 0 /\ ~o.asked
               /\ o.thesis = IF side = "BUY" THEN Len(b.orders) + 1 ELSE b.holds[s].thesis
  <1>1. Len(b.orders) + 1 \in Nat /\ b.holds[s].thesis \in Nat
    BY BookIs DEF Holding
  <1>2. clock + TransmissionDelay \in Int /\ clock + Life \in Int /\ NoTime \in Int
    BY Constants DEF NoTime
  <1> QED BY <1>1, <1>2 DEF Ordered, Order, Statuses

\* Before an exit every entry of the instrument was asked to end.
LEMMA ProtectedKeeps ==
    ASSUME NEW b, BookInv(b), clock \in Nat, NEW s \in Symbols, NEW plan \in {"keep", "cancel", "sell"},
           b.holds[s].qty = 0 => plan = "keep",
           plan = "sell" => Len(b.orders) < MaxOrders
    PROVE  BookInv(ProtectedBook(b, s, plan))
  <1> DEFINE entries == OpenOf(b, "BUY", {s})
             asking  == {i \in entries : ~b.orders[i].asked}
             c       == Cancelled(b, asking, clock + CancelDelay)
             asked   == IF entries = {} THEN b ELSE Advanced(c, clock)
             o       == Ordered(asked, "SELL", s, asked.holds[s].qty)
  <1>1. Typed(b) /\ DOMAIN b.orders = 1..Len(b.orders) /\ clock + CancelDelay \in Int
    BY BookIs, Constants DEF BookInv
  <1>2. \/ ProtectedBook(b, s, plan) = b
        \/ ProtectedBook(b, s, plan) = asked
        \/ /\ ProtectedBook(b, s, plan) = Submitted(asked, o) /\ plan = "sell"
           /\ ~Awaited(asked, entries) /\ OpenOf(b, "SELL", {s}) = {}
    BY DEF ProtectedBook
  <1>3. /\ BookInv(asked) /\ asked.holds = b.holds /\ Len(asked.orders) = Len(b.orders)
        /\ \A i \in DOMAIN b.orders :
              /\ Alike(b.orders[i], asked.orders[i])
              /\ i \in entries => asked.orders[i].asked
    <2>1. CASE entries = {}
      <3>1. asked = b
        BY <2>1
      <3>2. \A i \in DOMAIN b.orders : Alike(b.orders[i], b.orders[i])
        BY DEF BookInv, Placed, Sound, Alike
      <3> HIDE DEF asked, entries
      <3> QED BY <2>1, <3>1, <3>2
    <2>2. CASE entries # {}
      <3>1. asked = Advanced(c, clock)
        BY <2>2
      <3>2. \A i \in entries : i \in DOMAIN b.orders /\ Working(b.orders[i]) /\ (~b.orders[i].asked => i \in asking)
        BY DEF OpenOf
      <3> HIDE DEF asking, entries, asked
      <3>3. /\ BookInv(c) /\ c.holds = b.holds /\ Len(c.orders) = Len(b.orders)
            /\ \A i \in DOMAIN b.orders :
                  /\ Alike(b.orders[i], c.orders[i]) /\ (b.orders[i].asked => c.orders[i].asked)
                  /\ i \in asking /\ Working(b.orders[i]) => c.orders[i].asked
        BY <1>1, CancelledKeeps
      <3>4. DOMAIN c.orders = DOMAIN b.orders
        BY <1>1, <3>3, BookIs DEF BookInv
      <3> HIDE DEF c
      <3>5. /\ BookInv(asked) /\ asked.holds = c.holds /\ Len(asked.orders) = Len(c.orders)
            /\ \A i \in DOMAIN c.orders : Alike(c.orders[i], asked.orders[i])
        BY <3>1, <3>3, AdvancedKeeps
      <3>6. ASSUME NEW i \in DOMAIN b.orders
            PROVE  Alike(b.orders[i], asked.orders[i]) /\ (i \in entries => asked.orders[i].asked)
        <4>1. Alike(b.orders[i], c.orders[i]) /\ Alike(c.orders[i], asked.orders[i])
          BY <3>3, <3>4, <3>5, <3>6
        <4>2. i \in entries => c.orders[i].asked
          BY <3>2, <3>3, <3>6
        <4> QED BY <4>1, <4>2 DEF Alike
      <3> QED BY <3>3, <3>5, <3>6
    <2> QED BY <2>1, <2>2
  <1>4. ASSUME plan = "sell", ~Awaited(asked, entries), OpenOf(b, "SELL", {s}) = {}
        PROVE  BookInv(Submitted(asked, o))
    <2>1. DOMAIN asked.orders = DOMAIN b.orders /\ Typed(asked)
      BY <1>1, <1>3, BookIs DEF BookInv
    <2>2. ASSUME NEW i \in DOMAIN asked.orders, Working(asked.orders[i]), asked.orders[i].symbol = s
          PROVE  FALSE
      <3>1. Alike(b.orders[i], asked.orders[i]) /\ i \in DOMAIN b.orders
        BY <1>3, <2>1, <2>2
      <3>2. Working(b.orders[i]) /\ b.orders[i].symbol = s /\ b.orders[i].side \in {"BUY", "SELL"}
        BY <1>1, <2>2, <3>1, BookIs DEF Alike, Order
      <3>3. b.orders[i].side # "SELL"
        BY <1>4, <3>1, <3>2 DEF OpenOf
      <3>4. i \in entries
        BY <3>1, <3>2, <3>3 DEF OpenOf
      <3>5. asked.orders[i].asked /\ asked.orders[i].status = "CANCEL_REQUESTED"
        BY <1>3, <2>2, <3>1, <3>4 DEF Alike
      <3> QED BY <1>4, <3>4, <3>5 DEF Awaited
    <2>3. b.holds[s].qty # 0 /\ b.holds[s].qty \in Nat
      BY <1>1, <1>4, BookIs DEF Holding
    <2> HIDE DEF asked
    <2>4. asked.holds[s].qty \in Nat /\ asked.holds[s].qty > 0
      BY <1>3, <2>3
    <2>5. Len(asked.orders) < MaxOrders
      BY <1>3, <1>4
    <2>6. /\ o \in Order /\ o.side = "SELL" /\ o.symbol = s /\ o.qty = asked.holds[s].qty
          /\ o.filled = 0 /\ o.gross = 0 /\ o.charged = 0 /\ ~o.asked
          /\ o.thesis = asked.holds[s].thesis
      BY <2>1, <2>4, OrderedIs
    <2> HIDE DEF o
    <2>7. o.side # "BUY" /\ o.qty > 0
      BY <2>4, <2>6
    <2> QED BY <1>3, <2>2, <2>5, <2>6, <2>7, SubmittedKeeps
  <1> HIDE DEF asked, o, entries
  <1> QED BY <1>2, <1>3, <1>4

\* An entry is submitted when cash is left for it, beside the reservations.
LEMMA EntryKeeps ==
    ASSUME NEW b, BookInv(b), clock \in Nat, NEW s \in Symbols, NEW n \in 1..MaxQuantity,
           Len(b.orders) < MaxOrders, b.holds[s].qty = 0, OpenOf(b, "BUY", {s}) = {},
           Reserved(b) + n * Limit + Fee(n * Limit) <= b.cash
    PROVE  BookInv(Submitted(b, Ordered(b, "BUY", s, n)))
  <1> DEFINE o == Ordered(b, "BUY", s, n)
             m == n * Limit
  <1>1. Typed(b) /\ n \in Nat /\ n > 0 /\ m \in Nat
    BY Constants DEF BookInv
  <1>2. /\ o \in Order /\ o.side = "BUY" /\ o.symbol = s /\ o.qty = n
        /\ o.filled = 0 /\ o.gross = 0 /\ o.charged = 0 /\ ~o.asked
        /\ o.thesis = Len(b.orders) + 1
    BY <1>1, OrderedIs
  <1> HIDE DEF o
  <1>3. ASSUME NEW i \in DOMAIN b.orders, Working(b.orders[i]), b.orders[i].symbol = s PROVE FALSE
    <2>1. b.orders[i].side = "BUY"
      BY <1>3, NothingToSell
    <2> QED BY <1>3, <2>1 DEF OpenOf
  <1>4. Reserved(b) + ReservedFor(o) <= b.cash
    <2>1. Unfilled(o) = n /\ o.charged <= Fee(m)
      BY <1>1, <1>2, FeeIs DEF Unfilled
    <2>2. Reserved(b) \in Int /\ Fee(m) \in Nat /\ b.cash \in Int
      BY <1>1, ReservedIsClaims, SumsInt, FeeIs, BookIs
    <2>3. 0 + m = m /\ Fee(m) - 0 = Fee(m) /\ Fee(m) >= 0
      BY <1>1, <2>2
    <2>4. ReservedFor(o) = Due(0, 0, n)
      BY <1>1, <1>2, <2>1, ReserveIs
    <2>5. Due(0, 0, n) = m + (IF Fee(0 + m) >= 0 THEN Fee(0 + m) - 0 ELSE 0)
      BY DEF Due
    <2>6. Reserved(b) + m + Fee(m) <= b.cash
      OBVIOUS
    <2> HIDE DEF m
    <2>7. ReservedFor(o) = m + Fee(m)
      BY <2>3, <2>4, <2>5
    <2> QED BY <1>1, <2>2, <2>6, <2>7
  <1>5. o.qty > 0 /\ o.side # "SELL"
    BY <1>1, <1>2
  <1> HIDE DEF m
  <1>6. BookInv(Submitted(b, o))
    BY <1>2, <1>3, <1>4, <1>5, SubmittedKeeps
  <1> QED BY <1>6 DEF o

-----------------------------------------------------------------------------
(* The invariant, event by event *)

LEMMA EventsWithin ==
    ASSUME NEW where, where # "aborted", NEW symbols, symbols \subseteq Symbols, Leads(where, symbols)
    PROVE  event'.at # "aborted" /\ event'.left \subseteq Symbols
  BY DEF Leads, Ended

LEMMA Started ==
    ASSUME clock \in Nat, NEW at, Starts(at)
    PROVE  at \in Nat /\ clock' \in Nat
  BY Constants DEF Starts

\* An empty book is covered and balanced.
LEMMA InitPaper == PaperInit => PaperInv
  <1> SUFFICES ASSUME PaperInit PROVE PaperInv
    OBVIOUS
  <1>1. /\ book.cash = Capital /\ book.orders = <<>> /\ book.holds = [s \in Symbols |-> NoHolding]
        /\ book.stats = [t \in Theses |-> NoStats]
    BY DEF PaperInit, Theses
  <1>2. book \in Book
    BY Constants DEF PaperInit, Book, Holding, Stats, Theses, NoHolding, NoStats
  <1>3. Typed(book) /\ Len(book.orders) = 0 /\ DOMAIN book.orders = {}
    BY <1>1, <1>2, Constants DEF Typed
  <1>4. /\ \A s \in Symbols : book.holds[s].qty = 0 /\ book.holds[s].thesis = 0
        /\ \A t \in Theses : book.stats[t] = NoStats
    BY <1>1 DEF NoHolding
  <1>5. Placed(book)
    <2>1. Alone(book)
      BY <1>3 DEF Alone
    <2>2. \A s \in Symbols : Owned(book, s)
      BY <1>4 DEF Owned
    <2>3. \A t \in Theses : Quits(book, t)
      BY <1>4 DEF Quits, NoStats
    <2> QED BY <1>3, <2>1, <2>2, <2>3 DEF Placed
  <1>6. SumFunctionOnSet(Gains(book), Theses) = 0 /\ SumFunctionOnSet(Claims(book), Theses) = 0
    <2>1. \A t \in Theses : Gains(book)[t] = 0 /\ Claims(book)[t] = 0
      BY <1>3, <1>4 DEF Gains, Claims, OpenOf, NoStats
    <2> QED BY <2>1, ThesesFinite, SumZero
  <1>7. Paid(book) /\ Affordable(book)
    BY <1>1, <1>6, Constants DEF Paid, Affordable
  <1> QED BY <1>3, <1>5, <1>7 DEF BookInv, PaperInv, PaperInit, Ended

\* One lemma for every event, for the events that only advance one.
LEMMA QuoteStep == PaperInv /\ QuoteEvent => PaperInv'
  <1> SUFFICES ASSUME PaperInv, QuoteEvent PROVE PaperInv'
    OBVIOUS
  <1>1. PICK quote \in Quotes :
            LET filled == Filled(Advanced(book, quote.at), quote)
            IN /\ Starts(quote.at) /\ book' = filled.book
               /\ Leads(IF filled.aborted THEN "aborted" ELSE "risk", {quote.symbol})
    BY DEF QuoteEvent
  <1> DEFINE b == Advanced(book, quote.at)
  <1>2. BookInv(b) /\ quote.ask \in Asks /\ quote.bid \in Bids /\ quote.size \in Sizes /\ {quote.symbol} \subseteq Symbols
    BY AdvancedKeeps DEF PaperInv, Quotes
  <1>3. /\ Starts(quote.at) /\ book' = Filled(b, quote).book
        /\ Leads(IF Filled(b, quote).aborted THEN "aborted" ELSE "risk", {quote.symbol})
    BY <1>1
  <1> HIDE DEF b
  <1>4. ~Filled(b, quote).aborted /\ BookInv(book')
    BY <1>2, <1>3, FilledKeeps
  <1>5. clock' \in Nat
    BY <1>3, Started DEF PaperInv
  <1>6. Leads("risk", {quote.symbol})
    BY <1>3, <1>4
  <1> QED BY <1>2, <1>4, <1>5, <1>6, EventsWithin DEF PaperInv

\* Flags are no part of the invariant.
LEMMA FlagBooks ==
    ASSUME NEW b, BookInv(b), NEW x \in BOOLEAN, NEW h \in SUBSET Symbols
    PROVE  /\ BookInv([b EXCEPT !.tripped = x]) /\ BookInv([b EXCEPT !.unresolved = x])
           /\ BookInv([b EXCEPT !.halted = h]) /\ BookInv([b EXCEPT !.unresolved = x, !.halted = h])
  <1> DEFINE c1 == [b EXCEPT !.tripped = x]
             c2 == [b EXCEPT !.unresolved = x]
             c3 == [b EXCEPT !.halted = h]
             c4 == [b EXCEPT !.unresolved = x, !.halted = h]
             Flagged(c) == /\ c \in Book /\ c.orders = b.orders /\ c.cash = b.cash
                           /\ c.holds = b.holds /\ c.stats = b.stats
  <1>1. b \in Book
    BY BookIs DEF BookInv
  <1>2. Flagged(c1) /\ Flagged(c2) /\ Flagged(c3) /\ Flagged(c4)
    BY <1>1 DEF Book
  <1> HIDE DEF c1, c2, c3, c4
  <1>3. BookInv(c1) /\ BookInv(c2) /\ BookInv(c3) /\ BookInv(c4)
    BY <1>2, FlagsEase
  <1> QED BY <1>3 DEF c1, c2, c3, c4

LEMMA RiskStep == PaperInv /\ RiskObservation => PaperInv'
  <1> SUFFICES ASSUME PaperInv, RiskObservation PROVE PaperInv'
    OBVIOUS
  <1>1. PICK complete \in BOOLEAN, fell \in BOOLEAN :
            LET tripped == book.tripped \/ (complete /\ ~book.unresolved /\ fell)
                b       == [book EXCEPT !.tripped = tripped]
            IN book' = Advanced(IF complete /\ ~book.unresolved /\ tripped THEN Pausing(b, clock) ELSE b, clock)
    BY DEF RiskObservation
  <1> DEFINE tripped == book.tripped \/ (complete /\ ~book.unresolved /\ fell)
             b == [book EXCEPT !.tripped = tripped]
             c == IF complete /\ ~book.unresolved /\ tripped THEN Pausing(b, clock) ELSE b
  <1>2. BookInv(book) /\ clock \in Nat /\ clock' = clock /\ event.left \subseteq Symbols /\ Leads("protect", event.left)
    BY DEF PaperInv, RiskObservation
  <1>3. tripped \in BOOLEAN
    OBVIOUS
  <1>4. book' = Advanced(c, clock)
    BY <1>1
  <1> HIDE DEF tripped
  <1>5. BookInv(b)
    BY <1>2, <1>3, FlagBooks
  <1> HIDE DEF b
  <1>6. BookInv(c)
    BY <1>2, <1>5, PausingKeeps
  <1> HIDE DEF c
  <1>7. BookInv(book')
    BY <1>4, <1>6, AdvancedKeeps
  <1> QED BY <1>2, <1>7, EventsWithin DEF PaperInv

LEMMA ProtectStep == PaperInv /\ Protect => PaperInv'
  <1> SUFFICES ASSUME PaperInv, Protect PROVE PaperInv'
    OBVIOUS
  <1>1. BookInv(book) /\ clock \in Nat /\ clock' = clock /\ event.left \subseteq Symbols
    BY DEF PaperInv, Protect
  <1>2. PICK s \in event.left, plan \in {"keep", "cancel", "sell"} :
            /\ book.holds[s].qty = 0 \/ book.unresolved => plan = "keep"
            /\ plan = "sell" => s \notin book.halted /\ Len(book.orders) < MaxOrders
            /\ book' = ProtectedBook(book, s, plan)
            /\ Leads("protect", event.left \ {s})
    BY DEF Protect
  <1>3. s \in Symbols /\ event.left \ {s} \subseteq Symbols
    BY <1>1
  <1>4. BookInv(book')
    BY <1>1, <1>2, <1>3, ProtectedKeeps
  <1> QED BY <1>1, <1>2, <1>3, <1>4, EventsWithin DEF PaperInv

LEMMA TimerStep == PaperInv /\ (Timer \/ ReviewEvent) => PaperInv'
  <1> SUFFICES ASSUME PaperInv, Timer \/ ReviewEvent PROVE PaperInv'
    OBVIOUS
  <1>1. PICK at \in clock..MaxTime, symbols \in SUBSET Symbols, where \in {"protect", "review"} :
            Starts(at) /\ book' = Advanced(book, at) /\ Leads(where, symbols)
    BY DEF Timer, ReviewEvent
  <1>2. BookInv(book')
    BY <1>1, AdvancedKeeps DEF PaperInv
  <1>3. clock' \in Nat
    BY <1>1, Started DEF PaperInv
  <1> QED BY <1>1, <1>2, <1>3, EventsWithin DEF PaperInv

LEMMA EntryStep == PaperInv /\ EnterOne => PaperInv'
  <1> SUFFICES ASSUME PaperInv, EnterOne PROVE PaperInv'
    OBVIOUS
  <1>1. BookInv(book) /\ clock \in Nat /\ clock' = clock /\ event.left \subseteq Symbols
    BY DEF PaperInv, EnterOne
  <1>2. PICK s \in event.left, n \in 1..MaxQuantity :
            /\ Len(book.orders) < MaxOrders
            /\ book.holds[s].qty = 0 /\ OpenOf(book, "BUY", {s}) = {}
            /\ Reserved(book) + n * Limit + Fee(n * Limit) <= book.cash
            /\ book' = Submitted(book, Ordered(book, "BUY", s, n))
            /\ Leads("review", event.left \ {s})
    BY DEF EnterOne
  <1>3. s \in Symbols /\ event.left \ {s} \subseteq Symbols
    BY <1>1
  <1>4. BookInv(Submitted(book, Ordered(book, "BUY", s, n)))
    BY <1>1, <1>2, <1>3, EntryKeeps
  <1> QED BY <1>1, <1>2, <1>3, <1>4, EventsWithin DEF PaperInv

LEMMA ActionStep == PaperInv /\ CorporateAction => PaperInv'
  <1> SUFFICES ASSUME PaperInv, CorporateAction PROVE PaperInv'
    OBVIOUS
  <1>1. PICK at \in clock..MaxTime, s \in Symbols :
            LET b    == Advanced(book, at)
                held == b.holds[s].qty > 0
            IN /\ Starts(at) /\ Leads("idle", {})
               /\ \/ book' \in {[b EXCEPT !.halted = @ \cup {s}], [b EXCEPT !.halted = @ \ {s}]}
                  \/ held /\ book' \in {Split(b, s), Dividend(b, s)}
                  \/ book' \in {[b EXCEPT !.unresolved = TRUE, !.halted = h] : h \in {b.halted, b.halted \cup {s}}}
    BY DEF CorporateAction
  <1> DEFINE b == Advanced(book, at)
  <1>2. BookInv(b)
    BY AdvancedKeeps DEF PaperInv
  <1>3. b \in Book
    BY <1>2, BookIs DEF BookInv
  <1>4. b.halted \cup {s} \in SUBSET Symbols /\ b.halted \ {s} \in SUBSET Symbols /\ b.halted \in SUBSET Symbols
    <2> HIDE DEF b
    <2> QED BY <1>3 DEF Book
  <1>5. /\ Starts(at) /\ Leads("idle", {})
        /\ \/ \E h \in SUBSET Symbols : book' \in {[b EXCEPT !.halted = h], [b EXCEPT !.unresolved = TRUE, !.halted = h]}
           \/ b.holds[s].qty > 0 /\ book' \in {Split(b, s), Dividend(b, s)}
    BY <1>1, <1>4
  <1> HIDE DEF b
  <1>6. BookInv(book')
    <2>1. CASE \E h \in SUBSET Symbols : book' \in {[b EXCEPT !.halted = h], [b EXCEPT !.unresolved = TRUE, !.halted = h]}
      <3>1. PICK h \in SUBSET Symbols : book' = [b EXCEPT !.halted = h] \/ book' = [b EXCEPT !.unresolved = TRUE, !.halted = h]
        BY <2>1
      <3>2. BookInv([b EXCEPT !.halted = h]) /\ BookInv([b EXCEPT !.unresolved = TRUE, !.halted = h])
        BY <1>2, FlagBooks
      <3> QED BY <3>1, <3>2
    <2>2. CASE b.holds[s].qty > 0 /\ book' \in {Split(b, s), Dividend(b, s)}
      BY <1>2, <2>2, SplitKeeps, DividendKeeps
    <2> QED BY <1>5, <2>1, <2>2
  <1>7. clock' \in Nat /\ Leads("idle", {})
    BY <1>5, Started DEF PaperInv
  <1> QED BY <1>6, <1>7, EventsWithin DEF PaperInv

\* The time of an acknowledgement is no part of the invariant.
LEMMA AckKeeps ==
    ASSUME NEW b, BookInv(b), NEW i \in DOMAIN b.orders, NEW at \in Int
    PROVE  BookInv([b EXCEPT !.orders[i].ack = at])
  <1> DEFINE o == [b.orders[i] EXCEPT !.ack = at]
             f == [j \in DOMAIN b.orders |-> IF j = i THEN o ELSE b.orders[j]]
  <1>1. Typed(b) /\ \A j \in DOMAIN b.orders : b.orders[j] \in Order /\ Sound(b, j)
    BY BookIs DEF BookInv, Placed
  <1>2. o \in Order /\ Alike(b.orders[i], o)
    <2> DEFINE x == b.orders[i]
    <2>1. x \in Order /\ (x.asked /\ Working(x) => x.status = "CANCEL_REQUESTED")
      BY <1>1 DEF Sound
    <2> HIDE DEF x
    <2>2. [x EXCEPT !.ack = at] \in Order /\ Alike(x, [x EXCEPT !.ack = at])
      BY <2>1 DEF Order, Alike, Working
    <2> QED BY <2>2 DEF x
  <1>3. \A j \in DOMAIN b.orders : Alike(b.orders[j], b.orders[j])
    BY <1>1 DEF Sound, Alike
  <1>4. [b EXCEPT !.orders[i].ack = at] = [b EXCEPT !.orders = f]
    <2>1. b.orders = [j \in DOMAIN b.orders |-> b.orders[j]]
      BY <1>1, BookIs
    <2>2. [b.orders EXCEPT ![i] = o] = f
      BY <2>1
    <2>3. [b EXCEPT !.orders[i].ack = at] = [b EXCEPT !.orders = [b.orders EXCEPT ![i] = o]]
      OBVIOUS
    <2> QED BY <2>2, <2>3
  <1> HIDE DEF o
  <1>5. f = [j \in DOMAIN b.orders |-> f[j]]
    OBVIOUS
  <1>6. \A j \in DOMAIN b.orders : f[j] \in Order /\ Alike(b.orders[j], f[j])
    BY <1>1, <1>2, <1>3
  <1> HIDE DEF f
  <1>7. Eased(b, [b EXCEPT !.orders = f])
    BY <1>1, <1>5, <1>6, OrdersEase
  <1> QED BY <1>4, <1>7, EasedKeeps

LEMMA CancelStep == PaperInv /\ CancelEvent => PaperInv'
  <1> SUFFICES ASSUME PaperInv, CancelEvent PROVE PaperInv'
    OBVIOUS
  <1>1. PICK at \in clock..MaxTime, i \in DOMAIN book.orders :
            /\ Starts(at) /\ Leads("idle", {})
            /\ \/ book' = Cancelled(Advanced(book, at), {i}, NoTime)
               \/ book' = Advanced([Advanced(book, at) EXCEPT !.orders[i].ack = at], at)
    BY DEF CancelEvent
  <1> DEFINE b == Advanced(book, at)
  <1>2. BookInv(b) /\ Len(b.orders) = Len(book.orders) /\ BookInv(book)
    BY AdvancedKeeps DEF PaperInv
  <1>3. book' = Cancelled(b, {i}, NoTime) \/ book' = Advanced([b EXCEPT !.orders[i].ack = at], at)
    BY <1>1
  <1> HIDE DEF b
  <1>4. i \in DOMAIN b.orders
    BY <1>1, <1>2, BookIs DEF BookInv
  <1>5. at \in Int /\ clock' \in Nat /\ NoTime \in Int
    BY <1>1, Started DEF PaperInv, NoTime
  <1>6. BookInv([b EXCEPT !.orders[i].ack = at]) /\ BookInv(Cancelled(b, {i}, NoTime))
    BY <1>2, <1>4, <1>5, AckKeeps, CancelledKeeps
  <1>7. BookInv(book')
    BY <1>3, <1>6, AdvancedKeeps
  <1> QED BY <1>1, <1>5, <1>7, EventsWithin DEF PaperInv

LEMMA CloseStep == PaperInv /\ SessionClose => PaperInv'
  <1> SUFFICES ASSUME PaperInv, SessionClose PROVE PaperInv'
    OBVIOUS
  <1>1. PICK at \in clock..MaxTime, marked \in BOOLEAN, lost \in BOOLEAN :
            LET b    == Advanced(book, at)
                held == \E s \in Symbols : b.holds[s].qty > 0
                seen == [b EXCEPT !.unresolved = @ \/ (held /\ ~marked)]
            IN /\ Starts(at) /\ Leads("idle", {})
               /\ book' = IF lost THEN Pausing(seen, at) ELSE seen
    BY DEF SessionClose
  <1> DEFINE b    == Advanced(book, at)
             open == b.unresolved \/ ((\E s \in Symbols : b.holds[s].qty > 0) /\ ~marked)
             seen == [b EXCEPT !.unresolved = open]
  <1>2. book' = (IF lost THEN Pausing(seen, at) ELSE seen) /\ Starts(at) /\ Leads("idle", {})
    BY <1>1
  <1>3. BookInv(b) /\ open \in BOOLEAN
    BY AdvancedKeeps DEF PaperInv
  <1> HIDE DEF b, open
  <1>4. BookInv(seen)
    BY <1>3, FlagBooks
  <1> HIDE DEF seen
  <1>5. at \in Int /\ clock' \in Nat
    BY <1>2, Started DEF PaperInv
  <1>6. BookInv(book')
    BY <1>2, <1>4, <1>5, PausingKeeps
  <1> QED BY <1>2, <1>5, <1>6, EventsWithin DEF PaperInv

\* Every event, or none.
LEMMA NextPaper == PaperInv /\ [PaperNext]_paperVars => PaperInv'
  <1> SUFFICES ASSUME PaperInv, [PaperNext]_paperVars PROVE PaperInv'
    OBVIOUS
  <1>1. CASE ReviewEnds
    <2>1. PICK s \in SUBSET Symbols : Leads("protect", s)
      BY <1>1 DEF ReviewEnds
    <2>2. BookInv(book') /\ clock' \in Nat
      BY <1>1 DEF ReviewEnds, PaperInv
    <2> QED BY <2>1, <2>2, EventsWithin DEF PaperInv
  <1>2. CASE UNCHANGED paperVars
    BY <1>2 DEF paperVars, PaperInv
  <1> QED BY <1>1, <1>2, QuoteStep, RiskStep, ProtectStep, TimerStep, EntryStep, ActionStep, CancelStep, CloseStep
          DEF PaperNext

\* The invariant holds in every reachable state, whatever the events and their order.
THEOREM PaperInvariance == PaperSpec => []PaperInv
  BY InitPaper, NextPaper, PTL DEF PaperSpec

\* Whatever is open can be filled in full, the entries from the arm's own cash with the fees
\* still due, the exits from what is held, so that no fill aborts the replay.
\* (PaperLedger.submit, pending_entries, _fill)
THEOREM OrdersCovered == PaperSpec => []OpenOrdersCovered
  <1>1. PaperInv => OpenOrdersCovered
    <2> SUFFICES ASSUME PaperInv PROVE OpenOrdersCovered
      OBVIOUS
    <2>1. BookInv(book) /\ Typed(book) /\ Placed(book) /\ event.at # "aborted"
      BY DEF PaperInv, BookInv
    <2>2. Reserved(book) <= book.cash
      BY <2>1, ReservedIsClaims DEF BookInv, Affordable
    <2>3. ASSUME NEW s \in Symbols
          PROVE  SumFunctionOnSet([i \in DOMAIN book.orders |-> Unfilled(book.orders[i])], OpenOf(book, "SELL", {s}))
                    <= book.holds[s].qty
      <3> DEFINE left == [i \in DOMAIN book.orders |-> Unfilled(book.orders[i])]
                 R    == OpenOf(book, "SELL", {s})
      <3>1. book.holds[s].qty \in Nat
        BY <2>1, BookIs DEF Holding
      <3>2. \A i \in R : /\ i \in DOMAIN book.orders /\ Working(book.orders[i])
                         /\ book.orders[i].side = "SELL" /\ book.orders[i].symbol = s
        BY DEF OpenOf
      <3>3. CASE R = {}
        <4>1. SumFunctionOnSet(left, R) = 0
          BY <3>3, SumEmpty
        <4> QED BY <3>1, <4>1
      <3>4. CASE R # {}
        <4>1. PICK i : i \in R
          BY <3>4
        <4>2. R = {i}
          BY <2>1, <3>2, <4>1 DEF Placed, Alone
        <4>3. left[i] = Unfilled(book.orders[i]) /\ i \in DOMAIN book.orders
          BY <3>2, <4>1
        <4>4. left[i] \in Int /\ left[i] <= book.holds[s].qty
          <5>1. Exits(book, i) /\ Unfilled(book.orders[i]) \in Int
            BY <2>1, <4>3, BookIs DEF Placed, Order, Unfilled
          <5>2. Unfilled(book.orders[i]) <= book.holds[s].qty
            BY <3>2, <4>1, <5>1 DEF Exits
          <5> QED BY <4>3, <5>1, <5>2
        <4> HIDE DEF left, R
        <4>5. SumFunctionOnSet(left, {i}) = left[i]
          BY <4>4, SumOne
        <4>6. SumFunctionOnSet(left, R) <= book.holds[s].qty
          BY <4>2, <4>4, <4>5
        <4> QED BY <4>6 DEF left, R
      <3> QED BY <3>3, <3>4
    <2> QED BY <2>1, <2>2, <2>3 DEF OpenOrdersCovered
  <1> QED BY <1>1, PaperInvariance, PTL

\* The cash is the capital and what every thesis gained, and what a thesis bought and did not
\* sell is what is held for it: no order of fills, splits and dividends forgets any.
\* (_fill, corporate_action)
THEOREM BooksBalanced == PaperSpec => []BooksBalance
  <1>1. PaperInv => BooksBalance
    <2> SUFFICES ASSUME PaperInv PROVE BooksBalance
      OBVIOUS
    <2>1. BookInv(book) /\ Typed(book) /\ Placed(book) /\ Paid(book)
      BY DEF PaperInv, BookInv
    <2>2. book.cash = Capital + SumFunctionOnSet([t \in 1..MaxOrders |-> book.stats[t].got - book.stats[t].spent],
                                                 1..MaxOrders)
      BY <2>1 DEF Paid, Gains, Theses
    <2>3. ASSUME NEW t \in 1..MaxOrders
          PROVE  book.stats[t].bought - book.stats[t].sold =
                    SumFunctionOnSet([s \in Symbols |-> book.holds[s].qty], {s \in Symbols : book.holds[s].thesis = t})
      <3> DEFINE qty == [s \in Symbols |-> book.holds[s].qty]
                 S   == {s \in Symbols : book.holds[s].thesis = t}
      <3>1. t \in Theses /\ t # 0 /\ book.stats[t] \in Stats /\ Quits(book, t)
        BY <2>1, BookIs, Constants DEF Placed, Theses
      <3>2. \A s \in Symbols : book.holds[s].qty \in Nat /\ Owned(book, s)
        BY <2>1, BookIs DEF Placed, Holding
      <3>3. CASE S = {}
        <4>1. book.stats[t].bought = book.stats[t].sold /\ book.stats[t].bought \in Int
          BY <3>1, <3>3 DEF Quits, Stats
        <4>2. SumFunctionOnSet(qty, S) = 0
          BY <3>3, SumEmpty
        <4> QED BY <4>1, <4>2
      <3>4. CASE S # {}
        <4>1. PICK s \in Symbols : book.holds[s].thesis = t
          BY <3>4
        <4>2. ASSUME NEW x \in Symbols, book.holds[x].thesis = t
              PROVE  /\ book.orders[t].symbol = x
                     /\ book.stats[t].bought - book.stats[t].sold = book.holds[x].qty
          <5>1. Owned(book, x) /\ book.holds[x].qty > 0
            BY <3>1, <3>2, <4>2 DEF Owned
          <5> QED BY <4>2, <5>1 DEF Owned
        <4>3. S = {s}
          BY <4>1, <4>2
        <4>4. qty[s] = book.holds[s].qty /\ qty[s] \in Int
          BY <3>2
        <4> HIDE DEF qty, S
        <4>5. SumFunctionOnSet(qty, {s}) = qty[s]
          BY <4>4, SumOne
        <4>6. book.stats[t].bought - book.stats[t].sold = SumFunctionOnSet(qty, S)
          BY <4>1, <4>2, <4>3, <4>4, <4>5
        <4> QED BY <4>6 DEF qty, S
      <3> QED BY <3>3, <3>4
    <2> QED BY <2>2, <2>3 DEF BooksBalance
  <1> QED BY <1>1, PaperInvariance, PTL
=============================================================================

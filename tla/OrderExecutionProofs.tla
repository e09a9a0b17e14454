------------------------ MODULE OrderExecutionProofs ------------------------
(***************************************************************************)
(* Proofs about OrderExecution, for any threads, intents, quantities and   *)
(* bounds: type correctness and the properties AtMostOnePost,              *)
(* UncertaintyBlocksTrading, SentOnlyWhenAllowed, ClosedMeansDone,         *)
(* LiveEntryReserved, NoOppositeOrdersLive, CashCoversReservations and     *)
(* LiveSellsCovered, and that it implements OrderPromise.                  *)
(*                                                                         *)
(* The first three follow from one inductive invariant, IInv.  None of the *)
(* properties is inductive: that an order is posted once rests on the      *)
(* idempotency row being written under dispatch_lock before the POST       *)
(* (Locked, Threaded), and that an unknown order blocks trading rests on   *)
(* every reconciliation still holding it among the rows it has to settle   *)
(* (Doubt).                                                                *)
(*                                                                         *)
(* The next three follow from OrdersHeld, which is inductive given IInv:   *)
(* what each row says of its order (RowTrue), what a snapshot taken a      *)
(* while ago still says (Seen), and what the thread that holds             *)
(* dispatch_lock knows of the row it works on (Held).  The last two follow *)
(* from FundsHeld, inductive given both: what working rows reserve is in   *)
(* the cash, and what exits still ask for is in the holdings.              *)
(***************************************************************************)
EXTENDS OrderExecution, FiniteSums, TLAPS

-----------------------------------------------------------------------------
(* The inductive invariant.                                                 *)

\* Nothing trades before it is open, beyond its quantity, or after it is
\* filled; the ledger and every snapshot lag behind the broker.
Bounds ==
    \A i \in Intents :
        /\ venue[i].traded <= Quantity[i]
        /\ venue[i].status \in {"OPEN", "CANCELED"} => venue[i].traded < Quantity[i]
        /\ venue[i].status \in {"ABSENT", "INFLIGHT"} => venue[i].traded = 0
        /\ row[i].filled <= venue[i].traded
        /\ \A t \in Threads : local[t].snapshot[i].traded <= venue[i].traded

\* An order without a row was never posted.
Once ==
    \A i \in Intents :
        /\ venue[i].posts <= 1
        /\ venue[i].posts = 0 => venue[i].status = "ABSENT"
        /\ row[i].state = "NONE" => venue[i].posts = 0 /\ ~row[i].known

Collecting == {"observe", "balance", "collected"}
Settling == {"settling", "applied"}
Sending == {"reserved", "submitting", "checked"}

\* Where a thread holds dispatch_lock.
Locked(t) ==
    /\ local[t].pc \in Settling \cup Sending \cup {"answered", "canceling"}
          => dispatchLock = t
    /\ local[t].pc \in Collecting /\ local[t].after \notin {"reserve", "protect"}
          => dispatchLock = t
    /\ local[t].held => dispatchLock = t

\* What a thread knows of the row it works on.
Threaded(t) ==
    /\ local[t].pc \in Collecting \cup Settling => local[t].after # "none"
    /\ local[t].pc \in {"cancel", "canceling"} => local[t].after \in {"protect", "exit"}
    /\ local[t].pc \in Collecting \cup Settling /\ local[t].after = "reserve"
          => local[t].intent \in Intents
    /\ local[t].pc \in {"reserve", "answered"} \cup Sending
          => local[t].intent \in Intents
    /\ local[t].pc \in Sending => /\ row[local[t].intent].state # "NONE"
                                  /\ venue[local[t].intent].posts = 0
    /\ local[t].pc = "answered" => /\ row[local[t].intent].state # "NONE"
                                   /\ local[t].answer \in Answers
    /\ local[t].pc \in Settling =>
          \A i \in local[t].todo : row[i].state # "NONE"
    /\ local[t].pc \in {"applied", "canceling"} =>
          /\ local[t].order \in Intents
          /\ row[local[t].order].state # "NONE"
    /\ local[t].pc = "canceling" => local[t].prior \notin {"NONE", "UNKNOWN"}

\* A reconciliation under way has every unknown order before it, or has found
\* that it cannot be resolved.
Doubt(t) ==
    local[t].pc \in Settling =>
        \A i \in Intents : row[i].state = "UNKNOWN" =>
            \/ i \in local[t].unresolved \cup local[t].todo
            \/ local[t].pc = "applied" /\ i = local[t].order

\* The final check still holds when the order leaves.
Checked(t) ==
    local[t].pc = "checked" =>
        reconciled /\ (local[t].intent \in Buys => ~paused)

ThreadSafe(t) == Locked(t) /\ Threaded(t) /\ Doubt(t) /\ Checked(t)

Safe ==
    /\ Bounds
    /\ Once
    /\ UncertaintyBlocksTrading
    /\ \A t \in Threads : ThreadSafe(t)

IInv == TypeOK /\ Safe

-----------------------------------------------------------------------------
(* Lemmas about the types and about leaving a lock.                         *)

\* The literals of the model belong to the sets that name them.
LEMMA Names ==
    /\ WORKING \subseteq States
    /\ TERMINAL \subseteq States
    /\ {"NONE", "VALIDATED", "SUBMITTING", "ACKNOWLEDGED", "PARTIALLY_FILLED",
        "UNKNOWN", "CANCEL_REQUESTED", "FILLED", "CANCELED", "REJECTED",
        "EXPIRED", "PARTIAL_CANCELED", "INVALIDATED"} \subseteq States
    /\ {"idle", "observe", "balance", "collected", "settling", "applied",
        "reserve", "reserved", "submitting", "checked", "answered", "expire",
        "protect", "retire", "cancel", "canceling", "exit", "resume"}
          \subseteq PCs
    /\ {"none", "reserve", "expire", "protect", "exit", "resume"}
          \subseteq Continuations
    /\ Continuations \ {"none"} \subseteq PCs
    /\ {"ABSENT", "INFLIGHT", "OPEN", "FILLED", "CANCELED", "EXPIRED"}
          \subseteq VenueStatus
  BY DEF States, WORKING, TERMINAL, PCs, Continuations, VenueStatus

\* The parts of TypeOK the steps need most.
LEMMA Types ==
    TypeOK => /\ row \in [Intents -> RowType]
              /\ venue \in [Intents -> VenueType]
              /\ local \in [Threads -> LocalType]
              /\ dispatchLock \in Threads \cup {None}
  BY DEF TypeOK

\* A thread at rest has a proper record.
LEMMA IdleType == NoSnapshot \in SnapshotType /\ Idle \in LocalType
  <1>1. Idle.balance \in [Intents -> Nat]
    BY DEF Idle
  <1>2. NoSnapshot \in SnapshotType
    BY DEF NoSnapshot, SnapshotType, VenueStatus
  <1> QED
    BY <1>1, <1>2, Names DEF Idle, LocalType

\* Two values of "local" that differ in t and in what is fresh.
SameElsewhere(l, m, t) ==
    \A u \in Threads \ {t} :
        /\ m[u].pc = l[u].pc
        /\ m[u].after = l[u].after
        /\ m[u].intent = l[u].intent
        /\ m[u].order = l[u].order
        /\ m[u].prior = l[u].prior
        /\ m[u].answer = l[u].answer
        /\ m[u].held = l[u].held
        /\ m[u].snapshot = l[u].snapshot
        /\ m[u].todo = l[u].todo
        /\ m[u].unresolved = l[u].unresolved

\* Raising the account version changes nothing but "fresh".
LEMMA BumpedFields ==
    ASSUME NEW l \in [Threads -> LocalType]
    PROVE  /\ Bumped(l) \in [Threads -> LocalType]
           /\ SameElsewhere(l, Bumped(l), None)
  <1>1. \A r \in LocalType : [r EXCEPT !.fresh = FALSE] \in LocalType
    BY DEF LocalType
  <1>2. Bumped(l) \in [Threads -> LocalType]
    BY <1>1 DEF Bumped
  <1> QED
    BY SMTT(30), <1>2 DEF Bumped, LocalType, SameElsewhere

\* A thread that returns is idle, and the others are where they were.
LEMMA Returned ==
    ASSUME TypeOK, NEW t \in Threads, Return(t) \/ ReturnBumping(t)
    PROVE  /\ local' \in [Threads -> LocalType]
           /\ dispatchLock' \in Threads \cup {None}
           /\ local'[t].pc = "idle"
           /\ local'[t].held = FALSE
           /\ local'[t].snapshot = NoSnapshot
           /\ SameElsewhere(local, local', t)
  <1> DEFINE l == [local EXCEPT ![t] = Idle]
  <1>1. l \in [Threads -> LocalType]
    BY Types, IdleType
  <1>2. l[t].pc = "idle" /\ l[t].held = FALSE /\ l[t].snapshot = NoSnapshot
    BY Types DEF Idle
  <1>3. SameElsewhere(local, l, t)
    BY Types DEF SameElsewhere
  <1>4. local' = l \/ local' = Bumped(l)
    BY DEF Return, ReturnBumping
  <1>5. dispatchLock' \in Threads \cup {None}
    BY Types DEF Return, ReturnBumping, Released
  <1> HIDE DEF l
  <1>6. CASE local' = l
    BY <1>1, <1>2, <1>3, <1>5, <1>6
  <1>7. CASE local' = Bumped(l)
    <2>1. Bumped(l) \in [Threads -> LocalType] /\ SameElsewhere(l, Bumped(l), None)
      BY <1>1, BumpedFields
    <2> QED
      BY <1>2, <1>3, <1>5, <1>7, <2>1, SetsAssumption DEF SameElsewhere
  <1> QED
    BY <1>4, <1>6, <1>7

\* A step of t keeps IInv if it keeps the parts about the broker and the ledger
\* and the part about t, does not take dispatch_lock from another thread, and
\* posts, doubts or blocks nothing behind the back of one that holds it.
LEMMA StepKeeps ==
    ASSUME IInv, NEW t \in Threads,
           TypeOK', Bounds', Once', UncertaintyBlocksTrading', ThreadSafe(t)',
           SameElsewhere(local, local', t),
           dispatchLock' = dispatchLock \/ dispatchLock \in {None, t},
           \A i \in Intents :
               /\ row[i].state # "NONE" => row'[i].state # "NONE"
               /\ \/ venue'[i].posts = venue[i].posts
                  \/ dispatchLock = t
               /\ row'[i].state = "UNKNOWN" =>
                     row[i].state = "UNKNOWN" \/ dispatchLock = t,
           reconciled' = reconciled \/ dispatchLock = t \/ StoreFree,
           paused' = paused \/ StoreFree
    PROVE  IInv'
  <1> SUFFICES ASSUME NEW u \in Threads, u # t PROVE ThreadSafe(u)'
    BY DEF IInv, Safe
  <1>1. /\ local'[u].pc = local[u].pc
        /\ local'[u].after = local[u].after
        /\ local'[u].intent = local[u].intent
        /\ local'[u].order = local[u].order
        /\ local'[u].prior = local[u].prior
        /\ local'[u].answer = local[u].answer
        /\ local'[u].held = local[u].held
        /\ local'[u].todo = local[u].todo
        /\ local[u].todo \in SUBSET Intents
        /\ local'[u].unresolved = local[u].unresolved
    BY Types DEF IInv, SameElsewhere, LocalType
  <1>2. ThreadSafe(u) /\ (dispatchLock = u => dispatchLock' = u)
    BY SetsAssumption DEF IInv, Safe
  <1>3. dispatchLock = t => dispatchLock # u
    OBVIOUS
  <1>4. Locked(u)'
    BY <1>1, <1>2 DEF ThreadSafe, Locked
  <1>5. Threaded(u)'
    BY <1>1, <1>2, <1>3 DEF ThreadSafe, Threaded, Locked, Collecting, Settling, Sending
  <1>6. Doubt(u)'
    BY <1>1, <1>2, <1>3 DEF ThreadSafe, Doubt, Locked, Settling
  <1>7. Checked(u)'
    BY <1>1, <1>2, <1>3 DEF ThreadSafe, Checked, Locked, Sending, StoreFree, At
  <1> QED
    BY <1>4, <1>5, <1>6, <1>7 DEF ThreadSafe

\* What a thread may have done to the ledger when it leaves, for IInv to hold.
LEMMA ReturnKeeps ==
    ASSUME IInv, NEW t \in Threads, Return(t) \/ ReturnBumping(t),
           row' \in [Intents -> RowType],
           reconciled' \in BOOLEAN,
           paused' \in BOOLEAN,
           UNCHANGED <<cash, holdings, environment>>,
           \A i \in Intents :
               /\ row'[i].filled = row[i].filled
               /\ row[i].state # "NONE" => row'[i].state # "NONE"
               /\ row'[i].state = "NONE" => row[i].state = "NONE" /\ row'[i].known = row[i].known
               /\ row'[i].state = "UNKNOWN" =>
                     row[i].state = "UNKNOWN" \/ dispatchLock = t,
           UncertaintyBlocksTrading',
           reconciled' = reconciled \/ dispatchLock = t \/ StoreFree,
           paused' = paused \/ StoreFree
    PROVE  IInv'
  <1>0. /\ local' \in [Threads -> LocalType]
        /\ dispatchLock' \in Threads \cup {None}
        /\ local'[t].pc = "idle"
        /\ local'[t].held = FALSE
        /\ local'[t].snapshot = NoSnapshot
        /\ SameElsewhere(local, local', t)
    BY Returned DEF IInv
  <1>1. dispatchLock' = dispatchLock \/ dispatchLock \in {None, t}
    BY DEF Return, ReturnBumping, Released
  <1>2. TypeOK'
    BY <1>0 DEF IInv, TypeOK, environment
  <1>3. Bounds'
    <2>1. SUFFICES ASSUME NEW i \in Intents, NEW u \in Threads
                   PROVE  local'[u].snapshot[i].traded <= venue[i].traded
      BY DEF IInv, Safe, Bounds, environment
    <2>2. CASE u = t
      BY <1>0, <2>2, Types DEF IInv, NoSnapshot, VenueType
    <2>3. CASE u # t
      BY <1>0, <2>3 DEF IInv, Safe, Bounds, SameElsewhere
    <2> QED
      BY <2>2, <2>3
  <1>4. Once'
    BY DEF IInv, Safe, Once, environment
  <1>5. ThreadSafe(t)'
    BY <1>0 DEF ThreadSafe, Locked, Threaded, Doubt, Checked, Collecting, Settling, Sending
  <1>6. \A i \in Intents : venue'[i].posts = venue[i].posts
    BY DEF environment
  <1> QED
    BY <1>0, <1>1, <1>2, <1>3, <1>4, <1>5, <1>6, StepKeeps

\* The same, of a thread that goes on: r is what it knows then.
LEMMA AdvanceKeeps ==
    ASSUME IInv, NEW t \in Threads, NEW r \in LocalType,
           local' = [local EXCEPT ![t] = r] \/ local' = Bumped([local EXCEPT ![t] = r]),
           \A i \in Intents : r.snapshot[i].traded <= venue[i].traded,
           row' \in [Intents -> RowType],
           cash' \in Int,
           holdings' \in [Instruments -> Int],
           reconciled' \in BOOLEAN,
           dispatchLock' \in Threads \cup {None},
           UNCHANGED <<paused, environment>>,
           \A i \in Intents :
               /\ row'[i].filled <= venue[i].traded
               /\ row[i].state # "NONE" => row'[i].state # "NONE"
               /\ row'[i].state = "NONE" => row[i].state = "NONE" /\ row'[i].known = row[i].known
               /\ row'[i].state = "UNKNOWN" =>
                     row[i].state = "UNKNOWN" \/ dispatchLock = t,
           UncertaintyBlocksTrading',
           reconciled' = reconciled \/ dispatchLock = t \/ StoreFree,
           dispatchLock' = dispatchLock \/ dispatchLock \in {None, t},
           ThreadSafe(t)'
    PROVE  IInv'
  <1> DEFINE l == [local EXCEPT ![t] = r]
  <1>1. l \in [Threads -> LocalType] /\ l[t] = r
    BY Types DEF IInv
  <1>2. SameElsewhere(local, l, t)
    BY Types DEF IInv, SameElsewhere
  <1> HIDE DEF l
  <1>3. /\ local' \in [Threads -> LocalType]
        /\ local'[t].snapshot = r.snapshot
        /\ SameElsewhere(local, local', t)
    <2>1. CASE local' = l
      BY <1>1, <1>2, <2>1
    <2>2. CASE local' = Bumped(l)
      <3>1. Bumped(l) \in [Threads -> LocalType] /\ SameElsewhere(l, Bumped(l), None)
        BY <1>1, BumpedFields
      <3> QED
        BY <1>1, <1>2, <2>2, <3>1, SetsAssumption DEF SameElsewhere
    <2> QED
      BY <2>1, <2>2 DEF l
  <1>4. TypeOK'
    BY <1>3 DEF IInv, TypeOK, environment
  <1>5. Bounds'
    <2>1. SUFFICES ASSUME NEW i \in Intents, NEW u \in Threads
                   PROVE  local'[u].snapshot[i].traded <= venue[i].traded
      BY DEF IInv, Safe, Bounds, environment
    <2>2. CASE u = t
      BY <1>3, <2>2
    <2>3. CASE u # t
      BY <1>3, <2>3 DEF IInv, Safe, Bounds, SameElsewhere
    <2> QED
      BY <2>2, <2>3
  <1>6. Once'
    BY DEF IInv, Safe, Once, environment
  <1>7. \A i \in Intents : venue'[i].posts = venue[i].posts
    BY DEF environment
  <1> QED
    BY <1>3, <1>4, <1>5, <1>6, <1>7, StepKeeps

\* What is known of t after such a step.
LEMMA Advanced ==
    ASSUME TypeOK, NEW t \in Threads, NEW r \in LocalType,
           local' = [local EXCEPT ![t] = r] \/ local' = Bumped([local EXCEPT ![t] = r])
    PROVE  /\ local'[t].pc = r.pc
           /\ local'[t].after = r.after
           /\ local'[t].intent = r.intent
           /\ local'[t].order = r.order
           /\ local'[t].prior = r.prior
           /\ local'[t].answer = r.answer
           /\ local'[t].held = r.held
           /\ local'[t].snapshot = r.snapshot
           /\ local'[t].todo = r.todo
           /\ local'[t].unresolved = r.unresolved
  BY Types DEF Bumped, LocalType

-----------------------------------------------------------------------------
(* Reconciliation keeps IInv.                                               *)

\* Observe: the snapshot shows what the broker has at that moment.
LEMMA ObserveKeeps ==
    ASSUME IInv, NEW t \in Threads, Observe(t) PROVE IInv'
  <1> USE DEF IInv, At, ledger, environment
  <1>1. PICK seen \in SUBSET Intents :
           local' = [local EXCEPT ![t] = [@ EXCEPT !.pc = "balance", !.snapshot = Shown(seen)]]
    BY DEF Observe
  <1>2. Shown(seen) \in SnapshotType
    BY Types, Names DEF Shown, SnapshotType, NoSnapshot, VenueType
  <1>3. [local[t] EXCEPT !.pc = "balance", !.snapshot = Shown(seen)] \in LocalType
    BY ZenonT(30), <1>2, Types, Names DEF LocalType, TypeOK
  <1>4. TypeOK'
    BY <1>1, <1>3, Types DEF Observe, TypeOK
  <1>5. Safe'
    BY Types DEF Observe, Shown, NoSnapshot, LocalType, RowType, VenueType,
       SnapshotType, Safe, ThreadSafe, Bounds, Once, Locked, Threaded, Doubt,
       UncertaintyBlocksTrading, Checked, Collecting, Settling, Sending
  <1> QED
    BY <1>4, <1>5

\* ReadBalance: only a record of t changes.
LEMMA ReadBalanceKeeps ==
    ASSUME IInv, NEW t \in Threads, ReadBalance(t) PROVE IInv'
  <1> USE DEF IInv, At, ledger, environment
  <1>1. Traded \in [Intents -> Nat]
    BY Types DEF Traded, VenueType
  <1>2. [local[t] EXCEPT !.pc = "collected", !.balance = Traded] \in LocalType
    BY ZenonT(30), <1>1, Types, Names DEF LocalType
  <1>3. TypeOK'
    BY <1>2, Types DEF ReadBalance, TypeOK
  <1>4. Safe'
    BY Types DEF ReadBalance, LocalType, RowType, VenueType, SnapshotType, Safe,
       ThreadSafe, Bounds, Once, Locked, Threaded, Doubt,
       UncertaintyBlocksTrading, Checked, Collecting, Settling, Sending
  <1> QED
    BY <1>3, <1>4

\* ObserveIncomplete: "reconciled" is cleared, and never while an order is sent.
LEMMA ObserveIncompleteKeeps ==
    ASSUME IInv, NEW t \in Threads, ObserveIncomplete(t) PROVE IInv'
  <1> USE DEF IInv, At
  <1>1. CASE local[t].after \in {"reserve", "protect"}
    BY <1>1, ReturnKeeps, Types
       DEF ObserveIncomplete, Safe, Once, UncertaintyBlocksTrading, environment, TypeOK
  <1>2. CASE local[t].after \notin {"reserve", "protect"}
    <2> DEFINE r == [local[t] EXCEPT !.pc = local[t].after]
    <2>1. ThreadSafe(t) /\ local[t].pc = "observe"
      BY DEF Safe, ObserveIncomplete
    <2>2. local[t].after \in {"expire", "exit", "resume"}
      BY <1>2, <2>1, Types DEF ThreadSafe, Threaded, Collecting, LocalType, Continuations
    <2>3. /\ r \in LocalType
          /\ r.pc = local[t].after
          /\ r.held = local[t].held
          /\ r.snapshot = local[t].snapshot
      BY <2>2, Types, Names DEF LocalType
    <2> HIDE DEF r
    <2>4. /\ local' = [local EXCEPT ![t] = r]
          /\ dispatchLock' = LeaveDispatch(t)
          /\ UNCHANGED <<row, cash, holdings, paused, environment>>
          /\ ~reconciled'
          /\ reconciled' \in BOOLEAN
      BY <1>2 DEF ObserveIncomplete, r
    <2>5. /\ local'[t].pc \in {"expire", "exit", "resume"}
          /\ local'[t].held = local[t].held
      BY <2>2, <2>3, <2>4, Advanced
    <2>6. dispatchLock = t /\ dispatchLock' = IF local[t].held THEN t ELSE None
      BY <1>2, <2>1, <2>2, <2>4 DEF ThreadSafe, Locked, Collecting, LeaveDispatch
    <2>7. ThreadSafe(t)'
      BY <2>5, <2>6 DEF ThreadSafe, Locked, Threaded, Doubt, Checked, Collecting,
         Settling, Sending
    <2> QED
      BY <2>3, <2>4, <2>6, <2>7, AdvanceKeeps
         DEF TypeOK, Safe, Bounds, UncertaintyBlocksTrading
  <1> QED
    BY <1>1, <1>2

\* ReconcileBegin: every working row is matched or unresolved, so Doubt starts.
LEMMA ReconcileBeginKeeps ==
    ASSUME IInv, NEW t \in Threads, ReconcileBegin(t) PROVE IInv'
  <1> DEFINE matched == {i \in Intents : Matched(i, local[t].snapshot)}
             r == [local[t] EXCEPT !.pc = "settling",
                      !.todo = {i \in matched : Submitted(i)},
                      !.unresolved = Working \ matched]
  <1> USE DEF IInv, At
  <1>1. r \in LocalType
    BY ZenonT(30), Types, Names DEF LocalType, Working
  <1>2. /\ local' = [local EXCEPT ![t] = r]
        /\ dispatchLock' = t
        /\ dispatchLock \in {None, t}
        /\ local[t].pc = "collected"
        /\ UNCHANGED <<ledger, environment>>
    BY DEF ReconcileBegin, MayDispatch
  <1>3. /\ r.pc = "settling"
        /\ r.after = local[t].after
        /\ r.intent = local[t].intent
        /\ r.snapshot = local[t].snapshot
        /\ \A i \in r.todo : row[i].state # "NONE"
        /\ \A i \in Intents : row[i].state = "UNKNOWN" => i \in r.todo \cup r.unresolved
    BY Types DEF LocalType, Working, WORKING, Submitted
  <1> HIDE DEF r
  <1>4. /\ local'[t].pc = "settling"
        /\ local'[t].after = local[t].after
        /\ local'[t].intent = local[t].intent
        /\ local'[t].todo = r.todo
        /\ local'[t].unresolved = r.unresolved
    BY <1>1, <1>2, <1>3, Advanced
  <1>5. ThreadSafe(t)'
    BY <1>2, <1>3, <1>4 DEF Safe, ThreadSafe, Locked, Threaded, Doubt, Checked,
       Collecting, Settling, Sending, ledger, environment
  <1> QED
    BY <1>1, <1>2, <1>3, <1>5, AdvanceKeeps
       DEF TypeOK, Safe, Bounds, UncertaintyBlocksTrading, ledger

\* ReconcileEnd: with nothing left and nothing unresolved no row is UNKNOWN.
LEMMA ReconcileEndKeeps ==
    ASSUME IInv, NEW t \in Threads, ReconcileEnd(t) PROVE IInv'
  <1> USE DEF IInv, At
  <1>1. /\ ThreadSafe(t)
        /\ dispatchLock = t
        /\ local[t].pc = "settling"
        /\ reconciled' \in BOOLEAN
        /\ UNCHANGED <<row, cash, holdings, paused, environment>>
    BY DEF Safe, ThreadSafe, Locked, ReconcileEnd, Settling
  <1>2. UncertaintyBlocksTrading'
    <2>1. reconciled' => local[t].unresolved = {} /\ local[t].todo = {}
      BY DEF ReconcileEnd
    <2> QED
      BY <1>1, <2>1 DEF ThreadSafe, Doubt, Settling, UncertaintyBlocksTrading
  <1>3. CASE Return(t)
    BY <1>1, <1>2, <1>3, ReturnKeeps, Types DEF TypeOK
  <1>4. CASE ~Return(t)
    <2> DEFINE r == [local[t] EXCEPT !.pc = local[t].after, !.after = "none",
                                     !.snapshot = NoSnapshot,
                                     !.balance = Idle.balance]
    <2>1. /\ local' = [local EXCEPT ![t] = r]
          /\ dispatchLock' = LeaveDispatch(t)
          /\ reconciled'
      BY <1>4 DEF ReconcileEnd
    <2>2. local[t].after \in {"reserve", "expire", "protect", "exit", "resume"}
      BY <1>1, Types DEF ThreadSafe, Threaded, Settling, LocalType, Continuations
    <2>3. Idle.balance \in [Intents -> Nat]
      BY DEF Idle
    <2>4. r \in LocalType
      BY <2>2, <2>3, Types, IdleType, Names DEF LocalType
    <2>5. /\ r.pc = local[t].after
          /\ r.after = "none"
          /\ r.intent = local[t].intent
          /\ r.held = local[t].held
          /\ r.snapshot = NoSnapshot
      BY Types DEF LocalType
    <2> HIDE DEF r
    <2>6. /\ local'[t].pc = local[t].after
          /\ local'[t].intent = local[t].intent
          /\ local'[t].held = local[t].held
      BY <2>1, <2>4, <2>5, Advanced
    <2>7. local[t].after = "reserve" => local[t].intent \in Intents
      BY <1>1 DEF ThreadSafe, Threaded, Settling
    <2>8. ThreadSafe(t)'
      BY <1>1, <2>1, <2>2, <2>6, <2>7
         DEF ThreadSafe, Locked, Threaded, Doubt, Checked, Collecting, Settling,
             Sending, LeaveDispatch
    <2>9. \A i \in Intents : NoSnapshot[i].traded <= venue[i].traded
      BY Types DEF NoSnapshot, VenueType
    <2>10. dispatchLock' \in {t, None}
      BY <2>1 DEF LeaveDispatch
    <2> QED
      BY <1>1, <1>2, <2>1, <2>4, <2>5, <2>8, <2>9, <2>10, AdvanceKeeps
         DEF TypeOK, Safe, Bounds
  <1> QED
    BY <1>3, <1>4

\* SettleState: the row of the order leaves UNKNOWN.
LEMMA SettleStateKeeps ==
    ASSUME IInv, NEW t \in Threads, SettleState(t) PROVE IInv'
  <1> DEFINE i == local[t].order
             r == [local[t] EXCEPT !.pc = "settling", !.order = None]
             n == row'[i]
  <1> USE DEF IInv, At
  <1>1. /\ ThreadSafe(t)
        /\ i \in Intents
        /\ dispatchLock = t
        /\ local[t].pc = "applied"
        /\ UNCHANGED <<cash, holdings, reconciled, paused, dispatchLock, environment>>
    BY DEF Safe, ThreadSafe, Threaded, Locked, SettleState, Settling
  <1>2. r \in LocalType
    BY ZenonT(30), Types, Names DEF LocalType
  <1>3. /\ local' = [local EXCEPT ![t] = r]
        /\ row' = [row EXCEPT ![i] = n]
    BY <1>1, Types DEF SettleState, Closed
  <1>4. /\ n \in RowType
        /\ n.filled = row[i].filled
        /\ n.state # "NONE"
        /\ n.state # "UNKNOWN"
    <2>1. row[i] \in RowType /\ row[i].state # "NONE"
      BY <1>1, Types DEF ThreadSafe, Threaded
    <2>2. CASE local[t].snapshot[i].status \in TERMINAL
      <3>1. PICK state \in TERMINAL : row' = Closed(i, state)
        BY <2>2 DEF SettleState, TERMINAL
      <3> QED
        BY <1>1, <2>1, <3>1, Types, Names DEF Closed, RowType, TERMINAL
    <2>3. CASE local[t].snapshot[i].status \notin TERMINAL
      BY <1>1, <2>1, <2>3, Types, Names DEF SettleState, BrokerState, RowType
    <2> QED
      BY <2>2, <2>3
  <1>5. /\ r.pc = "settling"
        /\ r.after = local[t].after
        /\ r.intent = local[t].intent
        /\ r.snapshot = local[t].snapshot
        /\ r.todo = local[t].todo
        /\ r.todo \in SUBSET Intents
        /\ r.unresolved = local[t].unresolved
    BY Types DEF LocalType
  <1> HIDE DEF r, n
  <1>6. /\ local'[t].pc = "settling"
        /\ local'[t].after = local[t].after
        /\ local'[t].intent = local[t].intent
        /\ local'[t].todo = local[t].todo
        /\ local'[t].unresolved = local[t].unresolved
    BY <1>2, <1>3, <1>5, Advanced
  <1>7. \A j \in Intents :
            /\ row'[j].filled = row[j].filled
            /\ row'[j].state = "NONE" => row[j].state = "NONE" /\ row'[j] = row[j]
            /\ row[j].state # "NONE" => row'[j].state # "NONE"
            /\ row'[j].state = "UNKNOWN" => row[j].state = "UNKNOWN" /\ j # i
    BY <1>1, <1>3, <1>4, Types
  <1>8. UncertaintyBlocksTrading'
    BY <1>1, <1>7 DEF Safe, UncertaintyBlocksTrading
  <1>9. ThreadSafe(t)'
    BY <1>1, <1>5, <1>6, <1>7
       DEF ThreadSafe, Locked, Threaded, Doubt, Checked, Collecting, Settling, Sending
  <1>10. row' \in [Intents -> RowType]
    BY <1>1, <1>3, <1>4, Types
  <1> QED
    <2>1. \A j \in Intents : /\ r.snapshot[j].traded <= venue[j].traded
                             /\ row'[j].filled <= venue[j].traded
      BY <1>5, <1>7 DEF Safe, Bounds
    <2> QED
      BY <1>1, <1>2, <1>3, <1>7, <1>8, <1>9, <1>10, <2>1, AdvanceKeeps DEF TypeOK

\* ApplyFill: what it books is at most what the broker has traded.
LEMMA ApplyFillKeeps ==
    ASSUME IInv, NEW t \in Threads, NEW i \in Intents, ApplyFill(t, i) PROVE IInv'
  <1> DEFINE traded == local[t].snapshot[i].traded
             r == [local[t] EXCEPT !.pc = "applied", !.order = i, !.todo = local[t].todo \ {i}]
             next == [local EXCEPT ![t] = r]
  <1> USE DEF IInv, At, environment
  <1>1. /\ local[t].pc = "settling"
        /\ dispatchLock = t
        /\ i \in local[t].todo
        /\ row[i].state # "NONE"
        /\ UNCHANGED <<reconciled, paused, venue, expired, crashes, lateFills>>
    BY DEF ApplyFill, Safe, ThreadSafe, Threaded, Locked, Settling
  <1>2. /\ traded \in Nat
        /\ traded <= venue[i].traded
        /\ venue[i].traded <= Quantity[i]
    BY Types DEF Safe, Bounds, LocalType, SnapshotType
  <1>3. row[i] \in RowType
    BY Types
  <1>4. r \in LocalType
    BY ZenonT(30), Types, Names DEF LocalType
  <1>5. /\ r.pc = "applied" /\ r.order = i
        /\ r.after = local[t].after
        /\ r.intent = local[t].intent
        /\ r.held = local[t].held
        /\ r.snapshot = local[t].snapshot
        /\ r.todo = local[t].todo \ {i}
        /\ r.todo \in SUBSET Intents
        /\ r.unresolved = local[t].unresolved
    BY Types DEF LocalType
  <1> HIDE DEF r
  <1>6. ASSUME local' = next \/ local' = Bumped(next),
               dispatchLock' = dispatchLock,
               NEW n \in RowType, row' = [row EXCEPT ![i] = n],
               n.filled <= venue[i].traded,
               n.state # "NONE",
               n.state = "UNKNOWN" => row[i].state = "UNKNOWN",
               cash' \in Int, holdings' \in [Instruments -> Int]
        PROVE  IInv'
    <2>1. /\ local'[t].pc = "applied" /\ local'[t].order = i
          /\ local'[t].after = local[t].after
          /\ local'[t].intent = local[t].intent
          /\ local'[t].held = local[t].held
          /\ local'[t].todo = local[t].todo \ {i}
          /\ local'[t].unresolved = local[t].unresolved
      BY <1>4, <1>5, <1>6, Advanced
    <2>2. /\ row' \in [Intents -> RowType]
          /\ \A j \in Intents :
                /\ row'[j].filled <= venue[j].traded
                /\ row[j].state # "NONE" => row'[j].state # "NONE"
                /\ row'[j].state = "NONE" => row[j].state = "NONE" /\ row'[j].known = row[j].known
                /\ row'[j].state = "UNKNOWN" => row[j].state = "UNKNOWN"
      BY <1>1, <1>6, Types DEF Safe, Bounds
    <2>3. UncertaintyBlocksTrading'
      BY <1>1, <2>2 DEF Safe, UncertaintyBlocksTrading
    <2>4. ThreadSafe(t)
      BY DEF Safe
    <2>5. Locked(t)' /\ Checked(t)'
      BY <1>1, <1>6, <2>1 DEF Locked, Checked
    <2>6. Threaded(t)'
      BY <1>1, <2>1, <2>2, <2>4, Types
         DEF ThreadSafe, Threaded, Collecting, Settling, Sending, LocalType
    <2>7. Doubt(t)'
      BY <1>1, <2>1, <2>2, <2>4 DEF ThreadSafe, Doubt, Settling
    <2>8. \A j \in Intents : r.snapshot[j].traded <= venue[j].traded
      BY <1>5 DEF Safe, Bounds
    <2> QED
      BY <1>1, <1>4, <1>6, <2>2, <2>3, <2>5, <2>6, <2>7, <2>8, AdvanceKeeps
         DEF ThreadSafe, TypeOK
  <1>7. CASE Older(i, traded)
    <2> DEFINE n == [row[i] EXCEPT !.known = TRUE]
    <2>1. /\ local' = next
          /\ row' = [row EXCEPT ![i] = n]
          /\ UNCHANGED <<cash, holdings, dispatchLock>>
      <3>1. /\ local' = [local EXCEPT ![t] = [@ EXCEPT !.pc = "applied", !.order = i,
                                                       !.todo = local[t].todo \ {i}]]
            /\ row' = [row EXCEPT ![i].known = TRUE]
            /\ UNCHANGED <<cash, holdings, dispatchLock>>
        BY <1>7 DEF ApplyFill
      <3>2. local' = next
        BY <3>1 DEF r
      <3>3. row' = [row EXCEPT ![i] = n]
        BY <3>1
      <3> QED
        BY <3>1, <3>2, <3>3
    <2>2. n \in RowType /\ n.filled = row[i].filled /\ n.state = row[i].state
      BY <1>3 DEF RowType
    <2> QED
      BY <1>1, <1>6, <2>1, <2>2 DEF Safe, Bounds, TypeOK
  <1>8. CASE ~Older(i, traded) /\ Refused(i, traded - row[i].filled)
    <2>1. /\ Return(t)
          /\ row' = [row EXCEPT ![i].known = TRUE]
          /\ UNCHANGED <<cash, holdings>>
      BY <1>8 DEF ApplyFill
    <2>2. UncertaintyBlocksTrading'
      BY <1>1, <2>1, Types DEF Safe, UncertaintyBlocksTrading
    <2>3. row' \in [Intents -> RowType]
      BY <1>3, <2>1, Types DEF RowType
    <2>4. \A j \in Intents :
               /\ row'[j].filled = row[j].filled
               /\ row'[j].state = row[j].state
               /\ row'[j].state = "NONE" => row'[j].known = row[j].known
      BY <1>1, <1>3, <2>1, Types DEF RowType
    <2> QED
      BY <1>1, <2>1, <2>2, <2>3, <2>4, ReturnKeeps, Types DEF TypeOK
  <1>9. CASE ~Older(i, traded) /\ ~Refused(i, traded - row[i].filled)
    <2> DEFINE delta == traded - row[i].filled
               sign == IF i \in Buys THEN 1 ELSE -1
               state == FillState(i, traded)
               n == [row[i] EXCEPT !.state = state, !.filled = traded, !.known = TRUE,
                         !.reserve = IF state \in WORKING
                                     THEN UnitReserve[i] * (Quantity[i] - traded)
                                     ELSE 0]
    <2>1. /\ local' = Bumped(next)
          /\ row' = [row EXCEPT ![i] = n]
          /\ cash' = cash - sign * delta * Price[i]
          /\ holdings' = [holdings EXCEPT ![Instrument[i]] = @ + sign * delta]
          /\ dispatchLock' = dispatchLock
      <3>1. /\ local' = Bumped([local EXCEPT ![t] = [@ EXCEPT !.pc = "applied",
                                             !.order = i, !.todo = local[t].todo \ {i}]])
            /\ row' = [row EXCEPT ![i] =
                  [@ EXCEPT !.state = state, !.filled = traded, !.known = TRUE,
                            !.reserve = IF state \in WORKING
                                     THEN UnitReserve[i] * (Quantity[i] - traded)
                                     ELSE 0]]
            /\ cash' = cash - sign * delta * Price[i]
            /\ holdings' = [holdings EXCEPT ![Instrument[i]] = @ + sign * delta]
            /\ dispatchLock' = dispatchLock
        BY <1>9 DEF ApplyFill
      <3>2. local' = Bumped(next)
        BY <3>1 DEF r
      <3>3. row' = [row EXCEPT ![i] = n]
        BY <3>1
      <3> QED
        BY <3>1, <3>2, <3>3
    <2>2. state \in States /\ state # "NONE" /\ state # "UNKNOWN"
      BY Names DEF FillState
    <2>3. UnitReserve[i] * (Quantity[i] - traded) \in Nat
      <3>1. Quantity[i] - traded \in Nat /\ UnitReserve[i] \in Nat
        BY <1>2, FunctionsAssumption, Types DEF VenueType
      <3> HIDE DEF traded
      <3> QED BY <3>1
    <2>4. n \in RowType /\ n.filled = traded /\ n.state = state
      <3> HIDE DEF state
      <3> QED BY <1>2, <1>3, <2>2, <2>3 DEF RowType
    <2>5. cash' \in Int
      <3>1. delta \in Int /\ sign \in Int /\ Price[i] \in Int
        BY <1>2, <1>3, FunctionsAssumption DEF RowType
      <3>2. sign * delta * Price[i] \in Int
        BY <3>1
      <3> HIDE DEF sign, delta
      <3> QED
        BY <2>1, <3>2 DEF TypeOK
    <2>6. holdings' \in [Instruments -> Int]
      <3>1. sign * delta \in Int /\ Instrument[i] \in Instruments
        BY <1>2, <1>3, FunctionsAssumption DEF RowType
      <3> HIDE DEF sign, delta
      <3> QED
        BY <2>1, <3>1 DEF TypeOK
    <2> HIDE DEF n, state
    <2> QED
      BY <1>1, <1>2, <1>6, <2>1, <2>2, <2>4, <2>5, <2>6
  <1> QED
    BY <1>7, <1>8, <1>9

-----------------------------------------------------------------------------
(* The steps that change nothing but a thread keep IInv.                    *)

\* The steps by which a thread returns without writing a row.
LEMMA LeaveKeeps ==
    ASSUME IInv, NEW t \in Threads, NEW i,
           \/ PreflightStale(t) \/ Abandon(t) \/ AlreadySubmitted(t)
           \/ ProtectEnds(t) \/ CancelRefused(t, i) \/ ResumeCommit(t)
    PROVE  IInv'
  <1>1. CASE ResumeCommit(t)
    <2>1. /\ Return(t) /\ StoreFree /\ paused' = FALSE
          /\ UNCHANGED <<row, cash, holdings, reconciled, environment>>
      BY <1>1 DEF ResumeCommit
    <2> QED
      BY <2>1, ReturnKeeps, Types DEF IInv, Safe, UncertaintyBlocksTrading, TypeOK
  <1>2. CASE ~ResumeCommit(t)
    <2>1. Return(t) /\ UNCHANGED <<ledger, environment>>
      BY <1>2 DEF PreflightStale, Abandon, AlreadySubmitted, ProtectEnds, CancelRefused
    <2> QED
      BY <2>1, ReturnKeeps, Types
         DEF IInv, Safe, UncertaintyBlocksTrading, TypeOK, ledger
  <1> QED
    BY <1>1, <1>2

\* A step that gives t the record r and writes neither ledger nor broker.
LEMMA MoveKeeps ==
    ASSUME IInv, NEW t \in Threads, NEW r \in LocalType,
           local' = [local EXCEPT ![t] = r],
           \A i \in Intents : r.snapshot[i].traded <= venue[i].traded,
           UNCHANGED <<ledger, environment>>,
           dispatchLock' \in Threads \cup {None},
           dispatchLock' = dispatchLock \/ dispatchLock \in {None, t},
           ThreadSafe(t)'
    PROVE  IInv'
  BY AdvanceKeeps DEF IInv, TypeOK, Safe, Bounds, UncertaintyBlocksTrading, ledger

\* The steps by which a thread starts to collect the account.
LEMMA BeginKeeps ==
    ASSUME IInv, NEW t \in Threads, NEW i,
           BeginTick(t) \/ BeginProtect(t) \/ BeginResume(t)
             \/ BeginBuy(t, i) \/ BeginSell(t, i)
    PROVE  IInv'
  <1>1. ASSUME NEW r \in LocalType,
               local' = [local EXCEPT ![t] = r],
               r.pc = "observe",
               r.after # "none",
               r.after = "reserve" => r.intent \in Intents,
               r.after \notin {"reserve", "protect"} \/ r.held => dispatchLock' = t,
               r.snapshot = NoSnapshot,
               dispatchLock' = dispatchLock \/ (dispatchLock = None /\ dispatchLock' = t),
               UNCHANGED <<ledger, environment>>
        PROVE  IInv'
    <2>1. /\ local'[t].pc = "observe"
          /\ local'[t].after = r.after
          /\ local'[t].intent = r.intent
          /\ local'[t].held = r.held
      BY <1>1, Advanced DEF IInv
    <2>2. ThreadSafe(t)'
      BY <1>1, <2>1
         DEF ThreadSafe, Locked, Threaded, Doubt, Checked, Collecting, Settling, Sending
    <2>3. \A j \in Intents : r.snapshot[j].traded <= venue[j].traded
      BY <1>1, Types DEF IInv, NoSnapshot, VenueType
    <2>4. dispatchLock' \in Threads \cup {None}
      BY <1>1, Types DEF IInv
    <2> QED
      BY <1>1, <2>2, <2>3, <2>4, MoveKeeps
  <1>2. CASE BeginTick(t)
    <2> DEFINE r == [Idle EXCEPT !.pc = "observe", !.after = "expire"]
    <2>1. /\ r \in LocalType /\ r.pc = "observe" /\ r.after = "expire"
          /\ r.snapshot = NoSnapshot
      BY IdleType, Names DEF LocalType, Idle
    <2> QED
      BY <1>1, <1>2, <2>1 DEF BeginTick
  <1>3. CASE BeginProtect(t)
    <2> DEFINE r == [Idle EXCEPT !.pc = "observe", !.after = "protect"]
    <2>1. /\ r \in LocalType /\ r.pc = "observe" /\ r.after = "protect"
          /\ r.held = FALSE /\ r.snapshot = NoSnapshot
      BY IdleType, Names DEF LocalType, Idle
    <2>2. /\ local' = [local EXCEPT ![t] = r]
          /\ UNCHANGED <<ledger, environment>>
          /\ dispatchLock' = dispatchLock
      BY <1>3 DEF BeginProtect, ledger, environment
    <2> HIDE DEF r
    <2> QED
      BY <1>1, <2>1, <2>2
  <1>4. CASE BeginResume(t)
    <2> DEFINE r == [Idle EXCEPT !.pc = "observe", !.after = "resume"]
    <2>1. /\ r \in LocalType /\ r.pc = "observe" /\ r.after = "resume"
          /\ r.snapshot = NoSnapshot
      BY IdleType, Names DEF LocalType, Idle
    <2> QED
      BY <1>1, <1>4, <2>1 DEF BeginResume
  <1>5. CASE BeginBuy(t, i)
    <2> DEFINE r == [Idle EXCEPT !.pc = "observe", !.after = "reserve",
                                 !.intent = i, !.fresh = TRUE]
    <2>1. i \in Intents
      BY <1>5, SetsAssumption DEF BeginBuy
    <2>3. /\ r \in LocalType /\ r.pc = "observe" /\ r.after = "reserve"
          /\ r.intent = i /\ r.held = FALSE /\ r.snapshot = NoSnapshot
      BY <2>1, IdleType, Names DEF LocalType, Idle
    <2>2. /\ local' = [local EXCEPT ![t] = r]
          /\ UNCHANGED <<ledger, environment>>
          /\ dispatchLock' = dispatchLock
      BY <1>5 DEF BeginBuy, ledger, environment
    <2> HIDE DEF r
    <2> QED
      BY <1>1, <2>1, <2>2, <2>3
  <1>6. CASE BeginSell(t, i)
    <2> DEFINE r == [Idle EXCEPT !.pc = "observe", !.after = "reserve",
                                 !.intent = i, !.fresh = TRUE, !.held = TRUE]
    <2>1. i \in Intents
      BY <1>6, SetsAssumption DEF BeginSell
    <2>3. /\ r \in LocalType /\ r.pc = "observe" /\ r.after = "reserve"
          /\ r.intent = i /\ r.held = TRUE /\ r.snapshot = NoSnapshot
      BY <2>1, IdleType, Names DEF LocalType, Idle
    <2> QED
      BY <1>1, <1>6, <2>1, <2>3 DEF BeginSell
  <1> QED
    BY <1>2, <1>3, <1>4, <1>5, <1>6

\* The steps of protection that move a thread along.
LEMMA RetireMovesKeep ==
    ASSUME IInv, NEW t \in Threads, NEW i,
           \/ ProtectHolding(t) \/ ListExpired(t) \/ ListEntries(t)
           \/ CancelSkips(t, i) \/ CancelsDone(t)
    PROVE  IInv'
  <1> USE DEF At
  <1>1. /\ ThreadSafe(t)
        /\ local[t].todo \in SUBSET Intents
        /\ local[t].snapshot \in SnapshotType
        /\ local[t].pc \in {"protect", "expire", "retire", "cancel"}
    BY Types DEF IInv, Safe, LocalType, ProtectHolding, ListExpired, ListEntries,
       CancelSkips, CancelsDone
  <1>2. ASSUME NEW r \in LocalType,
               local' = [local EXCEPT ![t] = r],
               r.pc \in {"exit", "cancel", "observe"},
               r.pc \in {"cancel", "observe"} => r.after \in {"protect", "exit"},
               r.pc = "observe" /\ r.after # "protect" => dispatchLock' = t,
               r.held => local[t].held,
               r.snapshot = local[t].snapshot,
               dispatchLock' = dispatchLock \/ (MayDispatch(t) /\ dispatchLock' = t),
               UNCHANGED <<ledger, environment>>
        PROVE  IInv'
    <2>1. /\ local'[t].pc = r.pc
          /\ local'[t].after = r.after
          /\ local'[t].held = r.held
      BY <1>2, Advanced DEF IInv
    <2>2. ThreadSafe(t)'
      BY <1>1, <1>2, <2>1
         DEF ThreadSafe, Locked, Threaded, Doubt, Checked, Collecting, Settling, Sending
    <2>3. \A j \in Intents : r.snapshot[j].traded <= venue[j].traded
      BY <1>2 DEF IInv, Safe, Bounds
    <2>4. dispatchLock' \in Threads \cup {None}
      BY <1>2, Types DEF IInv
    <2> QED
      BY <1>2, <2>2, <2>3, <2>4, MoveKeeps DEF MayDispatch
  <1>3. CASE ProtectHolding(t)
    <2> DEFINE r == [local[t] EXCEPT !.pc = "exit"]
    <2>1. /\ r \in LocalType /\ r.pc = "exit" /\ r.held = local[t].held
          /\ r.snapshot = local[t].snapshot
      BY Types, Names DEF IInv, LocalType
    <2> QED
      BY <1>2, <1>3, <2>1 DEF ProtectHolding, ledger, environment
  <1>4. CASE ListExpired(t)
    <2> DEFINE r == [local[t] EXCEPT !.pc = "cancel", !.after = "protect",
                                     !.todo = Working \cap Buys \cap expired]
    <2>1. /\ r \in LocalType /\ r.pc = "cancel" /\ r.after = "protect"
          /\ r.held = local[t].held /\ r.snapshot = local[t].snapshot
      BY ZenonT(30), Types, Names DEF IInv, LocalType, Working
    <2> QED
      BY <1>2, <1>4, <2>1 DEF ListExpired, ledger, environment
  <1>5. CASE ListEntries(t)
    <2>1. PICK x \in Instruments :
             LET entries == {j \in Working \cap Buys : Instrument[j] = x}
             IN  local' = [local EXCEPT ![t] =
                    [@ EXCEPT !.todo = entries, !.after = "exit",
                              !.pc = IF entries = {} THEN "exit" ELSE "cancel"]]
      BY <1>5 DEF ListEntries
    <2> DEFINE entries == {j \in Working \cap Buys : Instrument[j] = x}
               r == [local[t] EXCEPT !.todo = entries, !.after = "exit",
                                     !.pc = IF entries = {} THEN "exit" ELSE "cancel"]
    <2>2. entries \in SUBSET Intents
      BY DEF Working
    <2>3. local' = [local EXCEPT ![t] = r]
      BY <2>1
    <2>4. /\ r \in LocalType /\ r.pc \in {"exit", "cancel"} /\ r.after = "exit"
          /\ r.held = local[t].held /\ r.snapshot = local[t].snapshot
      <3> HIDE DEF entries
      <3> QED
        BY ZenonT(30), <2>2, Types, Names DEF IInv, LocalType
    <2> HIDE DEF r
    <2> QED
      BY <1>2, <1>5, <2>3, <2>4 DEF ListEntries, ledger, environment
  <1>6. CASE CancelSkips(t, i)
    <2> DEFINE r == [local[t] EXCEPT !.todo = @ \ {i}]
    <2>1. /\ r \in LocalType /\ r.pc = local[t].pc /\ r.after = local[t].after
          /\ r.held = local[t].held /\ r.snapshot = local[t].snapshot
      BY ZenonT(30), Types, Names DEF IInv, LocalType
    <2> HIDE DEF r
    <2>2. local' = [local EXCEPT ![t] = r] /\ local[t].pc = "cancel"
      BY <1>6 DEF CancelSkips, r
    <2> QED
      BY <1>1, <1>2, <1>6, <2>1, <2>2
         DEF CancelSkips, ThreadSafe, Threaded, ledger, environment
  <1>7. CASE CancelsDone(t)
    <2> DEFINE r == [local[t] EXCEPT !.pc = "observe", !.held = FALSE]
    <2>1. /\ r \in LocalType /\ r.pc = "observe" /\ r.after = local[t].after
          /\ r.held = FALSE /\ r.snapshot = local[t].snapshot
      BY ZenonT(30), Types, Names DEF IInv, LocalType
    <2> HIDE DEF r
    <2>2. local' = [local EXCEPT ![t] = r] /\ local[t].pc = "cancel"
      BY <1>7 DEF CancelsDone, r
    <2> QED
      BY <1>1, <1>2, <1>7, <2>1, <2>2 DEF CancelsDone, ThreadSafe, Threaded
  <1> QED
    BY <1>3, <1>4, <1>5, <1>6, <1>7

-----------------------------------------------------------------------------
(* Submission keeps IInv.                                                   *)

\* Reserve: the new row has no order at the broker yet.
LEMMA ReserveKeeps ==
    ASSUME IInv, NEW t \in Threads, Reserve(t) PROVE IInv'
  <1> DEFINE i == local[t].intent
             r == [local[t] EXCEPT !.pc = "reserved"]
             n == [state |-> "VALIDATED", filled |-> 0, known |-> FALSE,
                   reserve |-> UnitReserve[i] * Quantity[i],
                   earlier |-> {j \in Intents : Submitted(j)}]
  <1> USE DEF IInv, At
  <1>1. /\ ThreadSafe(t)
        /\ i \in Intents
        /\ row[i].state = "NONE"
        /\ dispatchLock \in {None, t}
        /\ dispatchLock' = t
        /\ row' = [row EXCEPT ![i] = n]
        /\ local' = [local EXCEPT ![t] = r]
        /\ UNCHANGED <<cash, holdings, reconciled, paused, environment>>
    BY DEF Reserve, Safe, ThreadSafe, Threaded, Submitted, MayDispatch
  <1>2. n \in RowType
    <2>1. UnitReserve[i] * Quantity[i] \in Nat
      <3>1. UnitReserve[i] \in Nat /\ Quantity[i] \in Nat
        BY <1>1, FunctionsAssumption
      <3> HIDE DEF i
      <3> QED
        BY <3>1
    <2> QED
      BY <2>1, Names DEF RowType
  <1>3. /\ r \in LocalType /\ r.pc = "reserved" /\ r.intent = i /\ r.held = local[t].held
        /\ r.snapshot = local[t].snapshot
    BY Types, Names DEF LocalType
  <1>4. n.filled = 0 /\ n.state = "VALIDATED"
    OBVIOUS
  <1> HIDE DEF r, n
  <1>5. local'[t].pc = "reserved" /\ local'[t].intent = i /\ local'[t].held = local[t].held
    BY <1>1, <1>3, Advanced
  <1>6. \A j \in Intents :
            /\ row'[j].filled <= venue[j].traded
            /\ row[j].state # "NONE" => row'[j].state # "NONE"
            /\ row'[j].state = "NONE" => row[j].state = "NONE" /\ row'[j].known = row[j].known
            /\ row'[j].state = "UNKNOWN" => row[j].state = "UNKNOWN"
    BY <1>1, <1>4, Types DEF Safe, Bounds, VenueType
  <1>7. row'[i].state # "NONE" /\ venue'[i].posts = 0
    BY <1>1, <1>4, Types DEF Safe, Once, environment
  <1>8. ThreadSafe(t)'
    BY <1>1, <1>5, <1>7
       DEF ThreadSafe, Locked, Threaded, Doubt, Checked, Collecting, Settling, Sending
  <1>9. UncertaintyBlocksTrading'
    BY <1>1, <1>6 DEF Safe, UncertaintyBlocksTrading
  <1>10. /\ row' \in [Intents -> RowType]
         /\ \A j \in Intents : r.snapshot[j].traded <= venue[j].traded
    BY <1>1, <1>2, <1>3, Types DEF Safe, Bounds
  <1> QED
    BY <1>1, <1>3, <1>6, <1>8, <1>9, <1>10, AdvanceKeeps DEF TypeOK

\* MarkSubmitting: the state changes, whatever it was.
LEMMA MarkSubmittingKeeps ==
    ASSUME IInv, NEW t \in Threads, MarkSubmitting(t) PROVE IInv'
  <1> DEFINE i == local[t].intent
             r == [local[t] EXCEPT !.pc = "submitting"]
  <1> USE DEF IInv, At
  <1>1. /\ ThreadSafe(t)
        /\ local[t].pc = "reserved"
        /\ i \in Intents
        /\ venue[i].posts = 0
        /\ row' = [row EXCEPT ![i].state = "SUBMITTING"]
        /\ local' = [local EXCEPT ![t] = r]
        /\ UNCHANGED <<cash, holdings, reconciled, paused, dispatchLock, environment>>
    BY DEF MarkSubmitting, Safe, ThreadSafe, Threaded, Sending
  <1>2. /\ r \in LocalType /\ r.pc = "submitting" /\ r.intent = i /\ r.held = local[t].held
        /\ r.snapshot = local[t].snapshot
    BY ZenonT(30), Types, Names DEF LocalType
  <1> HIDE DEF r
  <1>3. local'[t].pc = "submitting" /\ local'[t].intent = i /\ local'[t].held = local[t].held
    BY <1>1, <1>2, Advanced
  <1>4. row[i] \in RowType
    BY <1>1, Types
  <1>5. /\ row' \in [Intents -> RowType]
        /\ row'[i].state = "SUBMITTING"
        /\ \A j \in Intents :
            /\ row'[j].filled = row[j].filled
            /\ row[j].state # "NONE" => row'[j].state # "NONE"
            /\ row'[j].state = "NONE" => row[j].state = "NONE" /\ row'[j].known = row[j].known
            /\ row'[j].state = "UNKNOWN" => row[j].state = "UNKNOWN"
    BY <1>1, <1>4, Types, Names DEF RowType
  <1>6. ThreadSafe(t)'
    BY <1>1, <1>3, <1>5
       DEF ThreadSafe, Locked, Threaded, Doubt, Checked, Collecting, Settling, Sending,
           environment
  <1>7. UncertaintyBlocksTrading'
    BY <1>1, <1>5 DEF Safe, UncertaintyBlocksTrading
  <1>8. \A j \in Intents : /\ r.snapshot[j].traded <= venue[j].traded
                           /\ row'[j].filled <= venue[j].traded
    BY <1>2, <1>5 DEF Safe, Bounds
  <1> QED
    BY <1>1, <1>2, <1>5, <1>6, <1>7, <1>8, AdvanceKeeps DEF TypeOK

\* FinalCheck: Checked holds of t from here on.
LEMMA FinalCheckKeeps ==
    ASSUME IInv, NEW t \in Threads, FinalCheck(t) PROVE IInv'
  <1> DEFINE r == [local[t] EXCEPT !.pc = "checked"]
  <1> USE DEF IInv, At
  <1>1. /\ ThreadSafe(t)
        /\ local[t].pc = "submitting"
        /\ reconciled
        /\ local[t].intent \in Buys => ~paused
        /\ local' = [local EXCEPT ![t] = r]
        /\ UNCHANGED <<ledger, dispatchLock, environment>>
    BY DEF FinalCheck, StateValid, Safe
  <1>2. /\ r \in LocalType /\ r.pc = "checked" /\ r.intent = local[t].intent
        /\ r.held = local[t].held /\ r.snapshot = local[t].snapshot
    BY ZenonT(30), Types, Names DEF LocalType
  <1> HIDE DEF r
  <1>3. /\ local'[t].pc = "checked" /\ local'[t].intent = local[t].intent
        /\ local'[t].held = local[t].held
    BY <1>1, <1>2, Advanced
  <1>4. ThreadSafe(t)'
    BY <1>1, <1>3
       DEF ThreadSafe, Locked, Threaded, Doubt, Checked, Collecting, Settling, Sending,
           ledger, environment
  <1>5. \A j \in Intents : r.snapshot[j].traded <= venue[j].traded
    BY <1>2 DEF Safe, Bounds
  <1> QED
    BY <1>1, <1>2, <1>4, <1>5, MoveKeeps, Types DEF ledger, environment

\* FinalCheckFails: the row is closed and t returns.
LEMMA FinalCheckFailsKeeps ==
    ASSUME IInv, NEW t \in Threads, FinalCheckFails(t) PROVE IInv'
  <1> DEFINE i == local[t].intent
  <1> USE DEF IInv, At
  <1>1. /\ i \in Intents
        /\ row' = Closed(i, "INVALIDATED")
        /\ ReturnBumping(t)
        /\ UNCHANGED <<cash, holdings, reconciled, paused, environment>>
    BY DEF FinalCheckFails, Safe, ThreadSafe, Threaded, Sending
  <1>2. row[i] \in RowType
    BY <1>1, Types
  <1>3. /\ row' \in [Intents -> RowType]
        /\ \A j \in Intents :
            /\ row'[j].filled = row[j].filled
            /\ row[j].state # "NONE" => row'[j].state # "NONE"
            /\ row'[j].state = "NONE" => row[j].state = "NONE" /\ row'[j].known = row[j].known
            /\ row'[j].state = "UNKNOWN" => row[j].state = "UNKNOWN"
    BY <1>1, <1>2, Types, Names DEF RowType, Closed
  <1>4. UncertaintyBlocksTrading'
    BY <1>1, <1>3 DEF Safe, UncertaintyBlocksTrading
  <1> QED
    BY <1>1, <1>3, <1>4, ReturnKeeps DEF TypeOK

\* Sending an order that was never posted keeps the parts about the broker.
LEMMA PostKeeps ==
    ASSUME IInv, NEW i \in Intents, NEW status \in {"ABSENT", "INFLIGHT", "OPEN"},
           row[i].state # "NONE", venue[i].posts = 0
    PROVE  LET v == Posted(i, status) IN
           /\ v \in [Intents -> VenueType]
           /\ \A j \in Intents :
                 /\ v[j].traded = venue[j].traded
                 /\ v[j].cancelAsked = venue[j].cancelAsked
                 /\ j # i => v[j] = venue[j]
           /\ venue[i].traded = 0
           /\ v[i].status = status
           /\ v[i].posts = 1
  <1> USE DEF IInv
  <1>1. venue[i] \in VenueType /\ venue[i].status = "ABSENT" /\ venue[i].traded = 0
    BY Types DEF Safe, Once, Bounds
  <1>2. [venue[i] EXCEPT !.posts = venue[i].posts + 1, !.status = status] \in VenueType
    <2>1. venue[i].posts + 1 \in Nat
      BY <1>1 DEF VenueType
    <2> QED
      BY <1>1, <2>1, Names DEF VenueType
  <1> QED
    BY <1>1, <1>2, Types DEF Posted, VenueType

\* Transmit: the only POST of an order whose row is there.
LEMMA TransmitKeeps ==
    ASSUME IInv, NEW t \in Threads, Transmit(t) PROVE IInv'
  <1> DEFINE i == local[t].intent
  <1> USE DEF IInv, At
  <1>1. /\ ThreadSafe(t)
        /\ local[t].pc = "checked"
        /\ dispatchLock = t
        /\ i \in Intents
        /\ row[i].state # "NONE" /\ venue[i].posts = 0
        /\ UNCHANGED <<row, cash, holdings, reconciled, paused, dispatchLock,
                       expired, crashes, lateFills>>
    BY DEF Transmit, Safe, ThreadSafe, Threaded, Locked, Sending, ledger
  <1>2. PICK answer \in Answers :
           /\ local' = [local EXCEPT ![t] = [@ EXCEPT !.pc = "answered",
                                                      !.answer = answer]]
           /\ \/ venue' = venue
              \/ venue' = Posted(i, venue[i].status)
              \/ venue' = Posted(i, "OPEN")
              \/ venue' = Posted(i, "INFLIGHT")
    BY DEF Transmit, Answers
  <1> DEFINE r == [local[t] EXCEPT !.pc = "answered", !.answer = answer]
  <1>3. /\ r \in LocalType /\ r.pc = "answered" /\ r.intent = i
        /\ r.answer = answer /\ r.held = local[t].held /\ r.snapshot = local[t].snapshot
    BY ZenonT(30), Types, Names DEF LocalType
  <1>4. local' = [local EXCEPT ![t] = r]
    BY <1>2
  <1>5. venue[i].status = "ABSENT" /\ venue[i].traded = 0
    BY <1>1 DEF Safe, Once, Bounds
  <1> HIDE DEF r, i
  <1>6. /\ venue' \in [Intents -> VenueType]
        /\ \A j \in Intents :
              /\ venue'[j].traded = venue[j].traded
              /\ j # i => venue'[j] = venue[j]
        /\ venue'[i].posts = 1 \/ venue'[i] = venue[i]
        /\ venue'[i].status \in {"ABSENT", "OPEN", "INFLIGHT"}
    <2>1. CASE venue' = venue
      BY <2>1, <1>1, <1>5, Types
    <2>2. ASSUME NEW status \in {"ABSENT", "OPEN", "INFLIGHT"}, venue' = Posted(i, status)
          PROVE  <1>6!1 /\ <1>6!2 /\ <1>6!3 /\ <1>6!4
      BY <1>1, <2>2, PostKeeps
    <2> QED
      BY <1>2, <1>5, <2>1, <2>2
  <1>7. /\ local'[t].pc = "answered" /\ local'[t].intent = i
        /\ local'[t].answer = answer /\ local'[t].held = local[t].held
    BY <1>3, <1>4, Advanced
  <1>8. /\ local' \in [Threads -> LocalType]
        /\ SameElsewhere(local, local', t)
        /\ local'[t].snapshot = local[t].snapshot
    BY <1>3, <1>4, Types DEF SameElsewhere
  <1>9. TypeOK'
    BY <1>1, <1>6, <1>8 DEF TypeOK
  <1>10. Bounds'
    <2>1. \A j \in Intents : \A u \in Threads : local'[u].snapshot[j].traded <= venue[j].traded
      BY <1>8 DEF Safe, Bounds, SameElsewhere
    <2> QED
      BY <1>1, <1>5, <1>6, <2>1, FunctionsAssumption DEF Safe, Bounds
  <1>11. Once'
    BY <1>1, <1>5, <1>6 DEF Safe, Once
  <1>12. UncertaintyBlocksTrading'
    BY <1>1 DEF Safe, UncertaintyBlocksTrading
  <1>13. ThreadSafe(t)'
    BY <1>1, <1>7
       DEF ThreadSafe, Locked, Threaded, Doubt, Checked, Collecting, Settling, Sending
  <1> QED
    BY <1>1, <1>8, <1>9, <1>10, <1>11, <1>12, <1>13, StepKeeps

\* TransmitRaises: the order is sent, and its row UNKNOWN at once.
LEMMA TransmitRaisesKeeps ==
    ASSUME IInv, NEW t \in Threads, TransmitRaises(t) PROVE IInv'
  <1> DEFINE i == local[t].intent
  <1> USE DEF IInv, At
  <1>1. /\ dispatchLock = t
        /\ i \in Intents
        /\ row[i].state # "NONE" /\ venue[i].posts = 0
        /\ venue' = Posted(i, "INFLIGHT")
        /\ row' = [row EXCEPT ![i].state = "UNKNOWN"]
        /\ reconciled' = FALSE
        /\ Return(t)
        /\ UNCHANGED <<cash, holdings, paused, expired, crashes, lateFills>>
    BY DEF TransmitRaises, Safe, ThreadSafe, Threaded, Locked, Sending
  <1>2. /\ local' \in [Threads -> LocalType]
        /\ dispatchLock' \in Threads \cup {None}
        /\ local'[t].pc = "idle"
        /\ local'[t].held = FALSE
        /\ local'[t].snapshot = NoSnapshot
        /\ SameElsewhere(local, local', t)
    BY <1>1, Returned
  <1>3. row[i] \in RowType
    BY <1>1, Types
  <1> HIDE DEF i
  <1>4. /\ row' \in [Intents -> RowType]
        /\ row'[i].state = "UNKNOWN"
        /\ \A j \in Intents : /\ row'[j].filled = row[j].filled
                              /\ j # i => row'[j] = row[j]
    BY <1>1, <1>3, Types, Names DEF RowType
  <1>5. /\ venue' \in [Intents -> VenueType]
        /\ \A j \in Intents :
              /\ venue'[j].traded = venue[j].traded
              /\ j # i => venue'[j] = venue[j]
        /\ venue[i].traded = 0
        /\ venue'[i].posts = 1
        /\ venue'[i].status = "INFLIGHT"
    BY <1>1, PostKeeps
  <1>6. TypeOK'
    BY <1>1, <1>2, <1>4, <1>5 DEF TypeOK
  <1>7. Bounds'
    <2>1. ASSUME NEW j \in Intents, NEW u \in Threads
          PROVE  local'[u].snapshot[j].traded <= venue[j].traded
      <3>1. CASE u = t
        BY <1>2, <3>1, Types DEF NoSnapshot, VenueType
      <3>2. CASE u # t
        BY <1>2, <3>2 DEF Safe, Bounds, SameElsewhere
      <3> QED
        BY <3>1, <3>2
    <2> QED
      BY <1>1, <1>4, <1>5, <2>1, FunctionsAssumption DEF Safe, Bounds
  <1>8. Once'
    BY <1>1, <1>4, <1>5 DEF Safe, Once
  <1>9. UncertaintyBlocksTrading'
    BY <1>1 DEF UncertaintyBlocksTrading
  <1>10. ThreadSafe(t)'
    BY <1>2 DEF ThreadSafe, Locked, Threaded, Doubt, Checked, Collecting, Settling, Sending
  <1>11. \A j \in Intents : row[j].state # "NONE" => row'[j].state # "NONE"
    BY <1>4
  <1> QED
    BY <1>1, <1>2, <1>6, <1>7, <1>8, <1>9, <1>10, <1>11, StepKeeps

\* RecordResponse: an UNKNOWN answer clears "reconciled" with it.
LEMMA RecordResponseKeeps ==
    ASSUME IInv, NEW t \in Threads, RecordResponse(t) PROVE IInv'
  <1> DEFINE i == local[t].intent
             answer == local[t].answer
  <1> USE DEF IInv, At
  <1>1. /\ dispatchLock = t
        /\ i \in Intents
        /\ row[i].state # "NONE"
        /\ answer \in Answers
        /\ reconciled' = (reconciled /\ answer # "UNKNOWN")
        /\ Return(t) \/ ReturnBumping(t)
        /\ UNCHANGED <<cash, holdings, paused, environment>>
    BY DEF RecordResponse, Safe, ThreadSafe, Threaded, Locked
  <1>2. row[i] \in RowType
    BY <1>1, Types
  <1>3. PICK n \in RowType :
           /\ row' = [row EXCEPT ![i] = n]
           /\ n.state # "NONE"
           /\ n.filled = row[i].filled
           /\ n.state = "UNKNOWN" => ~reconciled'
    <2>1. CASE answer \in {"NOT_SENT", "REJECTED"}
      <3>1. PICK state \in {"INVALIDATED", "REJECTED"} : row' = Closed(i, state)
        BY <2>1 DEF RecordResponse
      <3>2. [row[i] EXCEPT !.state = state, !.reserve = 0] \in RowType
        BY <1>2, Names DEF RowType
      <3> QED
        BY <1>2, <3>1, <3>2 DEF Closed, RowType
    <2>2. CASE answer = "ACKNOWLEDGED"
      <3>1. row' = [row EXCEPT ![i] = [@ EXCEPT !.state = "ACKNOWLEDGED",
                                                !.known = TRUE]]
        BY <2>2 DEF RecordResponse
      <3>2. [row[i] EXCEPT !.state = "ACKNOWLEDGED", !.known = TRUE] \in RowType
        BY <1>2, Names DEF RowType
      <3> QED
        BY <1>2, <3>1, <3>2 DEF RowType
    <2>3. CASE answer = "UNKNOWN"
      <3>1. row' = [row EXCEPT ![i].state = "UNKNOWN"]
        BY <2>3 DEF RecordResponse
      <3>2. [row[i] EXCEPT !.state = "UNKNOWN"] \in RowType
        BY <1>2, Names DEF RowType
      <3> QED
        BY <1>1, <1>2, <2>3, <3>1, <3>2 DEF RowType
    <2> QED
      BY <1>1, <2>1, <2>2, <2>3 DEF Answers
  <1> HIDE DEF i
  <1>4. /\ row' \in [Intents -> RowType]
        /\ \A j \in Intents :
            /\ row'[j].filled = row[j].filled
            /\ row[j].state # "NONE" => row'[j].state # "NONE"
            /\ row'[j].state = "NONE" => row[j].state = "NONE" /\ row'[j].known = row[j].known
            /\ row'[j].state = "UNKNOWN" => row[j].state = "UNKNOWN" \/ ~reconciled'
    BY <1>1, <1>3, Types
  <1>5. UncertaintyBlocksTrading'
    BY <1>1, <1>4 DEF Safe, UncertaintyBlocksTrading
  <1> QED
    BY <1>1, <1>4, <1>5, ReturnKeeps DEF TypeOK

-----------------------------------------------------------------------------
(* Protection and cancellation keep IInv.                                   *)

\* InvalidateUnsubmitted: rows are closed behind the back of their submitters.
LEMMA InvalidateUnsubmittedKeeps ==
    ASSUME IInv, NEW t \in Threads, InvalidateUnsubmitted(t) PROVE IInv'
  <1> DEFINE r == [local[t] EXCEPT !.pc = "retire"]
  <1> USE DEF IInv, At
  <1>1. /\ ThreadSafe(t)
        /\ local' = [local EXCEPT ![t] = r] \/ local' = Bumped([local EXCEPT ![t] = r])
        /\ UNCHANGED <<cash, holdings, reconciled, paused, dispatchLock, environment>>
    BY DEF InvalidateUnsubmitted, Safe
  <1>2. /\ r \in LocalType /\ r.pc = "retire" /\ r.held = local[t].held
        /\ r.snapshot = local[t].snapshot
    BY ZenonT(30), Types, Names DEF LocalType
  <1> HIDE DEF r
  <1>3. local'[t].pc = "retire" /\ local'[t].held = local[t].held
    BY <1>1, <1>2, Advanced
  <1>4. \A j \in Intents : [row[j] EXCEPT !.state = "INVALIDATED", !.reserve = 0] \in RowType
    <2> TAKE j \in Intents
    <2>1. row[j] \in RowType
      BY Types
    <2> QED
      BY <2>1, Names DEF RowType
  <1>5. /\ row' \in [Intents -> RowType]
        /\ \A j \in Intents :
            /\ row'[j].filled = row[j].filled
            /\ row[j].state # "NONE" => row'[j].state # "NONE"
            /\ row'[j].state = "NONE" => row[j].state = "NONE" /\ row'[j].known = row[j].known
            /\ row'[j].state = "UNKNOWN" => row[j].state = "UNKNOWN"
    BY ZenonT(30), <1>4, Types DEF InvalidateUnsubmitted, RowType
  <1>6. ThreadSafe(t)'
    BY <1>1, <1>3
       DEF ThreadSafe, Locked, Threaded, Doubt, Checked, Collecting, Settling, Sending
  <1>7. UncertaintyBlocksTrading'
    BY <1>1, <1>5 DEF Safe, UncertaintyBlocksTrading
  <1>8. \A j \in Intents : /\ r.snapshot[j].traded <= venue[j].traded
                           /\ row'[j].filled <= venue[j].traded
    BY <1>2, <1>5 DEF Safe, Bounds
  <1> QED
    BY <1>1, <1>2, <1>5, <1>6, <1>7, <1>8, AdvanceKeeps DEF TypeOK

\* RetireThesis: one entry is closed, or its cancel begins.
LEMMA RetireThesisKeeps ==
    ASSUME IInv, NEW t \in Threads, NEW i \in Intents, RetireThesis(t, i) PROVE IInv'
  <1> USE DEF IInv, At
  <1>1. /\ ThreadSafe(t)
        /\ local[t].pc = "protect"
        /\ dispatchLock = None
        /\ UNCHANGED <<cash, holdings, reconciled, paused, environment>>
    BY DEF RetireThesis, Safe
  <1>2. row[i] \in RowType /\ local[t] \in LocalType
    BY Types
  <1>3. CASE row[i].state = "VALIDATED"
    <2> DEFINE r == local[t]
    <2>1. /\ row' = Closed(i, "INVALIDATED")
          /\ local' = Bumped([local EXCEPT ![t] = r])
          /\ dispatchLock' = dispatchLock
      <3>1. local = [local EXCEPT ![t] = r]
        BY Types
      <3> QED
        BY <1>3, <3>1 DEF RetireThesis
    <2>2. local'[t].pc = "protect" /\ local'[t].held = local[t].held
      BY <1>1, <1>2, <2>1, Advanced
    <2>3. /\ row' \in [Intents -> RowType]
          /\ \A j \in Intents :
              /\ row'[j].filled = row[j].filled
              /\ row[j].state # "NONE" => row'[j].state # "NONE"
              /\ row'[j].state = "NONE" => row[j].state = "NONE" /\ row'[j].known = row[j].known
              /\ row'[j].state = "UNKNOWN" => row[j].state = "UNKNOWN"
      BY <1>2, <2>1, Types, Names DEF RowType, Closed
    <2>4. ThreadSafe(t)'
      BY <1>1, <2>1, <2>2
         DEF ThreadSafe, Locked, Threaded, Doubt, Checked, Collecting, Settling, Sending
    <2>5. UncertaintyBlocksTrading'
      BY <1>1, <2>3 DEF Safe, UncertaintyBlocksTrading
    <2>6. \A j \in Intents : /\ r.snapshot[j].traded <= venue[j].traded
                             /\ row'[j].filled <= venue[j].traded
      BY <2>3 DEF Safe, Bounds
    <2> QED
      BY <1>1, <1>2, <2>1, <2>3, <2>4, <2>5, <2>6, AdvanceKeeps DEF TypeOK
  <1>4. CASE row[i].state # "VALIDATED"
    <2> DEFINE r == [local[t] EXCEPT !.pc = "cancel", !.todo = {i}, !.after = "exit",
                                     !.held = TRUE]
    <2>1. /\ local' = [local EXCEPT ![t] = r]
          /\ dispatchLock' = t
          /\ row' = row
      BY <1>4 DEF RetireThesis
    <2>2. /\ r \in LocalType /\ r.pc = "cancel" /\ r.after = "exit"
          /\ r.snapshot = local[t].snapshot
      BY ZenonT(30), Types, Names DEF LocalType
    <2> HIDE DEF r
    <2>3. local'[t].pc = "cancel" /\ local'[t].after = "exit"
      BY <2>1, <2>2, Advanced
    <2>4. ThreadSafe(t)'
      BY <2>1, <2>3
         DEF ThreadSafe, Locked, Threaded, Doubt, Checked, Collecting, Settling, Sending
    <2>5. \A j \in Intents : r.snapshot[j].traded <= venue[j].traded
      BY <2>2 DEF Safe, Bounds
    <2> QED
      BY <1>1, <2>1, <2>2, <2>4, <2>5, MoveKeeps, Types DEF ledger
  <1> QED
    BY <1>3, <1>4

\* RequestCancel: the state to restore is neither NONE nor UNKNOWN.
LEMMA RequestCancelKeeps ==
    ASSUME IInv, NEW t \in Threads, NEW i \in Intents, RequestCancel(t, i) PROVE IInv'
  <1> DEFINE r == [local[t] EXCEPT !.pc = "canceling", !.order = i,
                                   !.prior = row[i].state,
                                   !.todo = local[t].todo \ {i}]
  <1> USE DEF IInv, At
  <1>1. /\ ThreadSafe(t)
        /\ local[t].pc = "cancel"
        /\ dispatchLock \in {None, t}
        /\ row[i].known
        /\ row[i].state \notin {"NONE", "UNKNOWN"}
        /\ row' = [row EXCEPT ![i].state = "CANCEL_REQUESTED"]
        /\ dispatchLock' = t
        /\ local' = [local EXCEPT ![t] = r]
        /\ UNCHANGED <<cash, holdings, reconciled, paused, environment>>
    BY DEF RequestCancel, Safe, Once, MayDispatch
  <1>2. row[i] \in RowType
    BY Types
  <1>3. /\ r \in LocalType /\ r.pc = "canceling" /\ r.after = local[t].after
        /\ r.order = i /\ r.prior = row[i].state
        /\ r.snapshot = local[t].snapshot
    <2>1. row[i].state \in States
      BY <1>2 DEF RowType
    <2>2. local[t] \in LocalType
      BY Types
    <2> QED
      BY <2>1, <2>2, Names DEF LocalType
  <1> HIDE DEF r
  <1>4. /\ local'[t].pc = "canceling" /\ local'[t].after = local[t].after
        /\ local'[t].order = i /\ local'[t].prior = row[i].state
    BY <1>1, <1>3, Advanced
  <1>5. /\ row' \in [Intents -> RowType]
        /\ row'[i].state = "CANCEL_REQUESTED"
        /\ \A j \in Intents :
            /\ row'[j].filled = row[j].filled
            /\ row[j].state # "NONE" => row'[j].state # "NONE"
            /\ row'[j].state = "NONE" => row[j].state = "NONE" /\ row'[j].known = row[j].known
            /\ row'[j].state = "UNKNOWN" => row[j].state = "UNKNOWN"
    BY <1>1, <1>2, Types, Names DEF RowType
  <1>6. ThreadSafe(t)'
    BY <1>1, <1>4, <1>5
       DEF ThreadSafe, Locked, Threaded, Doubt, Checked, Collecting, Settling, Sending
  <1>7. UncertaintyBlocksTrading'
    BY <1>1, <1>5 DEF Safe, UncertaintyBlocksTrading
  <1>8. \A j \in Intents : /\ r.snapshot[j].traded <= venue[j].traded
                           /\ row'[j].filled <= venue[j].traded
    BY <1>3, <1>5 DEF Safe, Bounds
  <1> QED
    BY <1>1, <1>3, <1>5, <1>6, <1>7, <1>8, AdvanceKeeps DEF TypeOK

\* CancelNotSent: the prior state comes back.
LEMMA CancelNotSentKeeps ==
    ASSUME IInv, NEW t \in Threads, CancelNotSent(t) PROVE IInv'
  <1> DEFINE i == local[t].order
             r == [local[t] EXCEPT !.pc = "cancel", !.order = None, !.prior = "NONE"]
  <1> USE DEF IInv, At
  <1>1. /\ ThreadSafe(t)
        /\ dispatchLock = t
        /\ local[t].pc = "canceling"
        /\ local[t].after \in {"protect", "exit"}
        /\ i \in Intents /\ row[i].state # "NONE"
        /\ local[t].prior \notin {"NONE", "UNKNOWN"}
        /\ row' = [row EXCEPT ![i].state = local[t].prior]
        /\ UNCHANGED <<cash, holdings, reconciled, paused, environment>>
    BY DEF CancelNotSent, Restored, Safe, ThreadSafe, Threaded, Locked
  <1>2. row[i] \in RowType /\ local[t].prior \in States
    BY <1>1, Types DEF LocalType
  <1> HIDE DEF i
  <1>3. /\ row' \in [Intents -> RowType]
        /\ \A j \in Intents :
            /\ row'[j].filled = row[j].filled
            /\ row[j].state # "NONE" => row'[j].state # "NONE"
            /\ row'[j].state = "NONE" => row[j].state = "NONE" /\ row'[j].known = row[j].known
            /\ row'[j].state = "UNKNOWN" => row[j].state = "UNKNOWN"
    BY <1>1, <1>2, Types, Names DEF RowType
  <1>4. UncertaintyBlocksTrading'
    BY <1>1, <1>3 DEF Safe, UncertaintyBlocksTrading
  <1>5. CASE Return(t)
    BY <1>1, <1>3, <1>4, <1>5, ReturnKeeps DEF TypeOK
  <1>6. CASE ~Return(t)
    <2>1. local' = [local EXCEPT ![t] = r] /\ dispatchLock' = LeaveDispatch(t)
      BY <1>6 DEF CancelNotSent, Canceled
    <2>2. /\ r \in LocalType /\ r.pc = "cancel" /\ r.after = local[t].after
          /\ r.held = local[t].held /\ r.snapshot = local[t].snapshot
      BY ZenonT(30), Types, Names DEF LocalType
    <2> HIDE DEF r
    <2>3. /\ local'[t].pc = "cancel" /\ local'[t].after = local[t].after
          /\ local'[t].held = local[t].held
      BY <2>1, <2>2, Advanced
    <2>4. ThreadSafe(t)' /\ dispatchLock' \in {t, None}
      BY <1>1, <2>1, <2>3
         DEF ThreadSafe, Locked, Threaded, Doubt, Checked, Collecting, Settling,
             Sending, LeaveDispatch
    <2>5. \A j \in Intents : /\ r.snapshot[j].traded <= venue[j].traded
                             /\ row'[j].filled <= venue[j].traded
      BY <1>3, <2>2 DEF Safe, Bounds
    <2> QED
      BY <1>1, <1>3, <1>4, <2>1, <2>2, <2>4, <2>5, AdvanceKeeps DEF TypeOK
  <1> QED
    BY <1>5, <1>6

\* CancelAcknowledged and CancelUncertain: only the request is recorded.
LEMMA CancelSentKeeps ==
    ASSUME IInv, NEW t \in Threads, CancelAcknowledged(t) \/ CancelUncertain(t)
    PROVE  IInv'
  <1> DEFINE i == local[t].order
             r == [local[t] EXCEPT !.pc = "cancel", !.order = None, !.prior = "NONE"]
  <1> USE DEF IInv, At
  <1>1. /\ ThreadSafe(t)
        /\ dispatchLock = t
        /\ local[t].pc = "canceling"
        /\ local[t].after \in {"protect", "exit"}
        /\ i \in Intents /\ row[i].state # "NONE"
        /\ local' = [local EXCEPT ![t] = r]
        /\ dispatchLock' = LeaveDispatch(t)
        /\ \/ row' = row /\ reconciled' = reconciled
           \/ row' = [row EXCEPT ![i].state = "UNKNOWN"] /\ reconciled' = FALSE
        /\ UNCHANGED <<cash, holdings, paused, expired, crashes, lateFills>>
    BY DEF CancelAcknowledged, CancelUncertain, Canceled, Safe, ThreadSafe, Threaded,
           Locked, ledger
  <1>2. PICK asked \in BOOLEAN : venue' = [venue EXCEPT ![i].cancelAsked = asked]
    <2>1. CASE CancelAcknowledged(t)
      BY <2>1 DEF CancelAcknowledged
    <2>2. CASE CancelUncertain(t)
      <3>1. PICK reached \in BOOLEAN :
               venue' = [venue EXCEPT ![i].cancelAsked = @ \/ reached]
        BY <2>2 DEF CancelUncertain
      <3> QED
        BY <3>1
    <2> QED
      BY <2>1, <2>2
  <1>3. /\ r \in LocalType /\ r.pc = "cancel" /\ r.after = local[t].after
        /\ r.held = local[t].held /\ r.snapshot = local[t].snapshot
    BY ZenonT(30), Types, Names DEF LocalType
  <1>4. row[i] \in RowType /\ venue[i] \in VenueType
    BY <1>1, Types
  <1> HIDE DEF r, i
  <1>5. /\ local'[t].pc = "cancel" /\ local'[t].after = local[t].after
        /\ local'[t].held = local[t].held
    BY <1>1, <1>3, Advanced
  <1>6. /\ local' \in [Threads -> LocalType]
        /\ SameElsewhere(local, local', t)
        /\ local'[t].snapshot = local[t].snapshot
    BY <1>1, <1>3, Types DEF SameElsewhere
  <1>7. /\ row' \in [Intents -> RowType]
        /\ \A j \in Intents :
            /\ row'[j].filled = row[j].filled
            /\ row'[j].known = row[j].known
            /\ row[j].state # "NONE" => row'[j].state # "NONE"
            /\ row'[j].state = "NONE" => row[j].state = "NONE"
            /\ row'[j].state = "UNKNOWN" => row[j].state = "UNKNOWN" \/ ~reconciled'
    BY <1>1, <1>4, Types, Names DEF RowType
  <1>8. /\ venue' \in [Intents -> VenueType]
        /\ \A j \in Intents : /\ venue'[j].posts = venue[j].posts
                              /\ venue'[j].traded = venue[j].traded
                              /\ venue'[j].status = venue[j].status
    BY <1>2, <1>4, Types DEF VenueType
  <1>9. TypeOK' /\ dispatchLock' \in {t, None}
    BY <1>1, <1>6, <1>7, <1>8 DEF TypeOK, LeaveDispatch
  <1>10. Bounds'
    <2>1. \A j \in Intents : \A u \in Threads : local'[u].snapshot[j].traded <= venue[j].traded
      BY <1>6 DEF Safe, Bounds, SameElsewhere
    <2> QED
      BY <1>7, <1>8, <2>1 DEF Safe, Bounds
  <1>11. Once'
    BY <1>7, <1>8 DEF Safe, Once
  <1>12. UncertaintyBlocksTrading'
    BY <1>1, <1>7 DEF Safe, UncertaintyBlocksTrading
  <1>13. ThreadSafe(t)'
    BY <1>1, <1>5
       DEF ThreadSafe, Locked, Threaded, Doubt, Checked, Collecting, Settling, Sending,
           LeaveDispatch
  <1> QED
    BY <1>1, <1>6, <1>7, <1>8, <1>9, <1>10, <1>11, <1>12, <1>13, StepKeeps

-----------------------------------------------------------------------------
(* The broker, time, the operator and a process death keep IInv.            *)

\* A step of the broker that respects Bounds keeps IInv.
LEMMA VenueKeeps ==
    ASSUME IInv, NEW i \in Intents, NEW v \in VenueType,
           venue' = [venue EXCEPT ![i] = v],
           v.posts = venue[i].posts,
           v.status \notin {"ABSENT", "INFLIGHT"},
           v.traded >= venue[i].traded,
           v.traded <= Quantity[i],
           v.status \in {"OPEN", "CANCELED"} => v.traded < Quantity[i],
           venue[i].status # "ABSENT",
           lateFills' \in Nat,
           UNCHANGED <<ledger, dispatchLock, local, expired, crashes>>
    PROVE  IInv'
  <1> USE DEF IInv, ledger
  <1>1. venue' \in [Intents -> VenueType] /\ \A j \in Intents \ {i} : venue'[j] = venue[j]
    BY Types
  <1>2. venue'[i] = v
    BY Types
  <1>3. TypeOK'
    BY <1>1 DEF TypeOK
  <1>4. Bounds'
    <2>1. ASSUME NEW j \in Intents
          PROVE  venue'[j].traded >= venue[j].traded /\ venue'[j].traded \in Int
      BY <1>1, <1>2, Types DEF VenueType
    <2>2. \A j \in Intents :
             /\ row[j].filled \in Int /\ venue[j].traded \in Int
             /\ \A t \in Threads : local[t].snapshot[j].traded \in Int
      BY Types DEF RowType, VenueType, LocalType, SnapshotType
    <2>3. \A j \in Intents :
             /\ row[j].filled <= venue[j].traded
             /\ \A t \in Threads : local[t].snapshot[j].traded <= venue[j].traded
      BY DEF Safe, Bounds
    <2>4. \A j \in Intents :
             /\ row[j].filled <= venue'[j].traded
             /\ \A t \in Threads : local[t].snapshot[j].traded <= venue'[j].traded
      BY <2>1, <2>2, <2>3
    <2> QED
      BY <1>1, <1>2, <2>4 DEF Safe, Bounds
  <1>5. Once'
    BY <1>1, <1>2 DEF Safe, Once
  <1>6. ASSUME NEW t \in Threads PROVE ThreadSafe(t)'
    <2>1. \A j \in Intents : venue'[j].posts = venue[j].posts
      BY <1>1, <1>2
    <2>2. ThreadSafe(t)
      BY DEF Safe
    <2> QED
      BY <2>1, <2>2
         DEF ThreadSafe, Locked, Threaded, Doubt, Checked, Collecting, Settling, Sending
  <1> QED
    BY <1>3, <1>4, <1>5, <1>6 DEF Safe, UncertaintyBlocksTrading

\* Every step of the broker respects Bounds.
LEMMA BrokerKeeps ==
    ASSUME IInv, NEW i \in Intents, Broker(i) PROVE IInv'
  <1> USE DEF IInv
  <1>1. /\ venue[i] \in VenueType
        /\ venue[i].status \in {"ABSENT", "INFLIGHT"} => venue[i].traded = 0
        /\ venue[i].status \in {"OPEN", "CANCELED"} => venue[i].traded < Quantity[i]
        /\ Quantity[i] \in Nat \ {0}
        /\ lateFills \in Nat
    BY Types, FunctionsAssumption DEF Safe, Bounds, TypeOK
  <1>2. ASSUME NEW status \in {"OPEN", "CANCELED", "EXPIRED"},
               venue[i].status \in {"INFLIGHT", "OPEN"},
               venue' = [venue EXCEPT ![i].status = status],
               UNCHANGED <<ledger, dispatchLock, local, expired, crashes, lateFills>>
        PROVE  IInv'
    <2> DEFINE v == [venue[i] EXCEPT !.status = status]
    <2>1. /\ v \in VenueType /\ v.posts = venue[i].posts /\ v.traded = venue[i].traded
          /\ v.status = status
      BY <1>1, Names DEF VenueType
    <2>2. venue' = [venue EXCEPT ![i] = v]
      BY <1>2
    <2> HIDE DEF v
    <2>3. /\ v.traded < Quantity[i]
          /\ v.traded <= Quantity[i]
          /\ v.traded >= venue[i].traded
      BY <1>1, <1>2, <2>1 DEF VenueType
    <2>4. lateFills' \in Nat
      BY <1>1, <1>2
    <2> QED
      BY <1>2, <2>1, <2>2, <2>3, <2>4, VenueKeeps
  <1>3. ASSUME venue[i].status \in {"OPEN", "CANCELED"},
               venue' = OneMoreTraded(i),
               lateFills' \in Nat,
               UNCHANGED <<ledger, dispatchLock, local, expired, crashes>>
        PROVE  IInv'
    <2> DEFINE n == venue[i].traded + 1
               s == IF n = Quantity[i] THEN "FILLED" ELSE venue[i].status
               v == [venue[i] EXCEPT !.traded = n, !.status = s]
    <2>1. venue' = [venue EXCEPT ![i] = v]
      BY <1>3 DEF OneMoreTraded
    <2>2. n \in Nat /\ n > venue[i].traded /\ n <= Quantity[i]
      BY <1>1, <1>3 DEF VenueType
    <2>3. /\ s \in {"FILLED", "OPEN", "CANCELED"}
          /\ s \in {"OPEN", "CANCELED"} => n # Quantity[i]
      BY <1>3
    <2> HIDE DEF n, s
    <2>4. /\ v \in VenueType /\ v.posts = venue[i].posts /\ v.traded = n
          /\ v.status = s
      BY <1>1, <2>2, <2>3, Names DEF VenueType
    <2> HIDE DEF v
    <2>5. v.status \in {"OPEN", "CANCELED"} => v.traded < Quantity[i]
      BY <1>1, <2>2, <2>3, <2>4
    <2>6. v.traded >= venue[i].traded /\ v.traded <= Quantity[i]
      BY <1>1, <2>2, <2>4 DEF VenueType
    <2> QED
      BY <1>3, <2>1, <2>3, <2>4, <2>5, <2>6, VenueKeeps
  <1>4. CASE Arrive(i)
    BY <1>2, <1>4 DEF Arrive
  <1>5. CASE Fill(i)
    BY <1>1, <1>3, <1>5 DEF Fill
  <1>6. CASE CancelTakesEffect(i)
    BY <1>2, <1>6 DEF CancelTakesEffect
  <1>7. CASE SessionClose(i)
    BY <1>2, <1>7 DEF SessionClose
  <1>8. CASE LateFill(i)
    BY <1>1, <1>3, <1>8 DEF LateFill
  <1> QED
    BY <1>4, <1>5, <1>6, <1>7, <1>8 DEF Broker

\* Time passing is not seen by IInv.
LEMMA ExpireKeeps ==
    ASSUME IInv, NEW i \in Intents, Expire(i) PROVE IInv'
  <1> USE DEF IInv, ledger
  <1>1. TypeOK'
    BY DEF TypeOK, Expire
  <1>2. Safe'
    BY DEF Safe, Expire, Bounds, Once, UncertaintyBlocksTrading, ThreadSafe, Locked,
       Threaded, Doubt, Checked
  <1> QED
    BY <1>1, <1>2

\* Pause: it waits for store.lock, so no thread is between check and POST.
LEMMA PauseKeeps == ASSUME IInv, Pause PROVE IInv'
  <1> USE DEF IInv
  <1>1. /\ StoreFree
        /\ paused' = TRUE
        /\ local' = Bumped(local) \/ local' = local
        /\ UNCHANGED <<row, cash, holdings, reconciled, dispatchLock, environment>>
    BY DEF Pause
  <1>2. local' \in [Threads -> LocalType] /\ SameElsewhere(local, local', None)
    <2>1. CASE local' = Bumped(local)
      BY <2>1, Types, BumpedFields
    <2>2. CASE local' = local
      BY <2>2, Types DEF SameElsewhere
    <2> QED BY <1>1, <2>1, <2>2
  <1>3. TypeOK'
    BY <1>1, <1>2 DEF TypeOK, environment
  <1>4. \A u \in Threads :
          /\ local'[u].pc = local[u].pc
          /\ local'[u].after = local[u].after
          /\ local'[u].intent = local[u].intent
          /\ local'[u].order = local[u].order
          /\ local'[u].prior = local[u].prior
          /\ local'[u].answer = local[u].answer
          /\ local'[u].held = local[u].held
          /\ local'[u].snapshot = local[u].snapshot
          /\ local'[u].todo = local[u].todo
          /\ local'[u].unresolved = local[u].unresolved
          /\ local[u].pc # "checked"
          /\ local[u].todo \in SUBSET Intents
    BY <1>1, <1>2, Types, SetsAssumption DEF SameElsewhere, StoreFree, At, LocalType
  <1>5. Bounds' /\ Once' /\ UncertaintyBlocksTrading'
    BY <1>1, <1>4 DEF Safe, Bounds, Once, UncertaintyBlocksTrading, environment
  <1>6. ASSUME NEW u \in Threads PROVE ThreadSafe(u)'
    <2>1. ThreadSafe(u) /\ UNCHANGED <<row, venue, dispatchLock>>
      BY <1>1 DEF Safe, environment
    <2> QED
      BY <1>4, <2>1
         DEF ThreadSafe, Locked, Threaded, Doubt, Checked, Collecting, Settling, Sending
  <1> QED
    BY <1>3, <1>5, <1>6 DEF Safe

\* Crash: what may have been sent becomes UNKNOWN, and nothing is reconciled.
LEMMA CrashKeeps == ASSUME IInv, Crash PROVE IInv'
  <1> USE DEF IInv
  <1>1. /\ crashes' = crashes + 1
        /\ row' = [i \in Intents |-> RestartRow(i)]
        /\ reconciled' = RestartReconciled
        /\ local' = [t \in Threads |-> Idle]
        /\ dispatchLock' = None
        /\ UNCHANGED <<cash, holdings, paused, venue, expired, lateFills>>
    BY DEF Crash
  <1>2. \A i \in Intents :
          /\ row'[i] \in RowType
          /\ row'[i] = RestartRow(i)
          /\ row'[i].filled = row[i].filled
          /\ row'[i].known = row[i].known
          /\ row'[i].state = "NONE" => row[i].state = "NONE"
    <2> TAKE i \in Intents
    <2>1. row[i] \in RowType
      BY Types
    <2> QED
      BY <1>1, <2>1, Names DEF RestartRow, RowType
  <1>3. row' \in [Intents -> RowType]
    BY <1>1, <1>2
  <1>4. TypeOK'
    BY <1>1, <1>3, IdleType DEF TypeOK, RestartReconciled
  <1>5. Bounds'
    <2>1. \A t \in Threads, i \in Intents : local'[t].snapshot[i].traded = 0
      BY <1>1 DEF Idle, NoSnapshot
    <2>2. \A i \in Intents : venue[i].traded >= 0
      BY Types DEF VenueType
    <2> QED
      BY <1>1, <1>2, <2>1, <2>2 DEF Safe, Bounds
  <1>6. Once'
    BY <1>1, <1>2 DEF Safe, Once
  <1>7. UncertaintyBlocksTrading'
    BY <1>1, <1>2 DEF UncertaintyBlocksTrading, RestartReconciled
  <1>8. ASSUME NEW t \in Threads PROVE ThreadSafe(t)'
    <2>1. local'[t].pc = "idle" /\ local'[t].held = FALSE
      BY <1>1 DEF Idle
    <2> QED
      BY <2>1
         DEF ThreadSafe, Locked, Threaded, Doubt, Checked, Collecting, Settling, Sending
  <1> QED
    BY <1>4, <1>5, <1>6, <1>7, <1>8 DEF Safe

-----------------------------------------------------------------------------
(* The invariant, and the invariants of the runs that follow from it.       *)

\* The strengthening holds when the ledger is new.
LEMMA InitInv == Init => IInv
  <1> SUFFICES ASSUME Init PROVE IInv
    OBVIOUS
  <1> DEFINE r0 == [state |-> "NONE", filled |-> 0, reserve |-> 0, known |-> FALSE,
                    earlier |-> {}]
             v0 == [status |-> "ABSENT", traded |-> 0, cancelAsked |-> FALSE, posts |-> 0]
  <1>1. /\ r0 \in RowType /\ r0.state = "NONE" /\ r0.filled = 0 /\ r0.known = FALSE
        /\ v0 \in VenueType /\ v0.status = "ABSENT" /\ v0.traded = 0 /\ v0.posts = 0
    BY Names DEF RowType, VenueType
  <1>2. /\ row = [i \in Intents |-> r0]
        /\ venue = [i \in Intents |-> v0]
        /\ local = [t \in Threads |-> Idle]
        /\ reconciled = FALSE /\ paused = FALSE /\ dispatchLock = None
        /\ expired = {} /\ crashes = 0 /\ lateFills = 0
    BY DEF Init
  <1>3. cash \in Int
    BY CashAssumption DEF Init
  <1>4. holdings \in [Instruments -> Int]
    BY FunctionsAssumption DEF Init
  <1>5. \A t \in Threads : /\ local[t].pc = "idle"
                           /\ local[t].held = FALSE
                           /\ \A i \in Intents : local[t].snapshot[i].traded = 0
    BY <1>2 DEF Idle, NoSnapshot
  <1> HIDE DEF r0, v0
  <1>6. TypeOK
    BY <1>1, <1>2, <1>3, <1>4, IdleType DEF TypeOK
  <1>7. Bounds
    BY <1>1, <1>2, <1>5, FunctionsAssumption DEF Bounds
  <1>8. Once /\ UncertaintyBlocksTrading
    BY <1>1, <1>2 DEF Once, UncertaintyBlocksTrading
  <1>9. \A t \in Threads : ThreadSafe(t)
    BY <1>5 DEF ThreadSafe, Locked, Threaded, Doubt, Checked, Collecting, Settling, Sending
  <1> QED
    BY <1>6, <1>7, <1>8, <1>9 DEF IInv, Safe

\* Every step keeps the strengthening.
LEMMA NextKeeps == IInv /\ [Next]_vars => IInv'
  <1> SUFFICES ASSUME IInv, [Next]_vars PROVE IInv'
    OBVIOUS
  <1>1. ASSUME NEW t \in Threads, Begin(t) PROVE IInv'
    BY <1>1, BeginKeeps DEF Begin
  <1>2. ASSUME NEW t \in Threads, Reconcile(t) PROVE IInv'
    BY <1>2, ObserveKeeps, ReadBalanceKeeps, ObserveIncompleteKeeps, LeaveKeeps,
       ReconcileBeginKeeps, SettleStateKeeps, ReconcileEndKeeps, ApplyFillKeeps
       DEF Reconcile
  <1>3. ASSUME NEW t \in Threads, Submit(t) PROVE IInv'
    BY <1>3, BeginKeeps, LeaveKeeps, ReserveKeeps, MarkSubmittingKeeps, FinalCheckKeeps,
       FinalCheckFailsKeeps, TransmitKeeps, TransmitRaisesKeeps, RecordResponseKeeps
       DEF Submit
  <1>4. ASSUME NEW t \in Threads, Retire(t) PROVE IInv'
    BY <1>4, RetireMovesKeep, LeaveKeeps, InvalidateUnsubmittedKeeps, RetireThesisKeeps,
       RequestCancelKeeps, CancelNotSentKeeps, CancelSentKeeps
       DEF Retire
  <1>5. ASSUME NEW t \in Threads, ResumeCommit(t) PROVE IInv'
    BY <1>5, LeaveKeeps
  <1>6. ASSUME NEW i \in Intents, Broker(i) \/ Expire(i) PROVE IInv'
    BY <1>6, BrokerKeeps, ExpireKeeps
  <1>7. CASE Pause \/ Crash
    BY <1>7, PauseKeeps, CrashKeeps
  <1>8. CASE UNCHANGED vars
    <2>1. /\ UNCHANGED <<row, cash, holdings, reconciled, paused, dispatchLock, local>>
          /\ UNCHANGED <<venue, expired, crashes, lateFills>>
      BY <1>8 DEF vars, ledger, environment
    <2>2. TypeOK'
      BY <2>1 DEF IInv, TypeOK
    <2>3. Bounds' /\ Once' /\ UncertaintyBlocksTrading'
      BY <2>1 DEF IInv, Safe, Bounds, Once, UncertaintyBlocksTrading
    <2>4. ASSUME NEW t \in Threads PROVE ThreadSafe(t)'
      BY <2>1 DEF IInv, Safe, ThreadSafe, Locked, Threaded, Doubt, Checked
    <2> QED
      BY <2>2, <2>3, <2>4 DEF IInv, Safe
  <1> QED
    BY <1>1, <1>2, <1>3, <1>4, <1>5, <1>6, <1>7, <1>8 DEF Next

\* Whatever the threads, the broker and the crashes do, the strengthening holds.
THEOREM Invariance == Spec => []IInv
  BY InitInv, NextKeeps, PTL DEF Spec

\* Every variable stays in its domain.
THEOREM TypeCorrect == Spec => []TypeOK
  <1>1. IInv => TypeOK
    BY DEF IInv
  <1> QED
    BY <1>1, Invariance, PTL

\* No intent is posted to the broker twice: the idempotency row is there before
\* the POST, whatever threads submit it and wherever the process dies.
THEOREM PostedOnce == Spec => []AtMostOnePost
  <1>1. IInv => AtMostOnePost
    BY DEF IInv, Safe, Once, AtMostOnePost
  <1> QED
    BY <1>1, Invariance, PTL

\* While an order's fate is unknown the account is not reconciled: no
\* reconciliation overlooks an unknown row, and no crash forgets one.
THEOREM UncertaintyBlocks == Spec => []UncertaintyBlocksTrading
  <1>1. IInv => UncertaintyBlocksTrading
    BY DEF IInv, Safe
  <1> QED
    BY <1>1, Invariance, PTL

\* Between the final check and the POST no command or account write slips in.
THEOREM OnlySentWhenAllowed == Spec => SentOnlyWhenAllowed
  <1> DEFINE Allowed == \A i \in Intents : venue'[i].posts > venue[i].posts =>
                            reconciled /\ (i \in Buys => ~paused)
  <1>1. IInv /\ [Next]_vars => [Allowed]_vars
    <2> SUFFICES ASSUME IInv, Next PROVE Allowed
      OBVIOUS
    <2> USE DEF IInv, At
    <2>0. venue \in [Intents -> VenueType]
      BY Types
    <2>1. ASSUME \A i \in Intents : venue'[i].posts = venue[i].posts PROVE Allowed
      BY <2>1, <2>0 DEF VenueType
    <2>2. ASSUME NEW t \in Threads, Transmit(t) \/ TransmitRaises(t) PROVE Allowed
      <3> DEFINE j == local[t].intent
      <3>1. reconciled /\ (j \in Buys => ~paused) /\ j \in Intents
        BY <2>2 DEF Safe, ThreadSafe, Threaded, Checked, Sending, Transmit, TransmitRaises
      <3>2. venue' = venue \/ \E status : venue' = Posted(j, status)
        BY <2>2 DEF Transmit, TransmitRaises, Answers
      <3> HIDE DEF j
      <3>3. \A i \in Intents \ {j} : venue'[i].posts = venue[i].posts
        BY <3>2, <2>0 DEF Posted
      <3> QED
        BY <3>1, <3>3, <2>0 DEF VenueType
    <2>3. ASSUME NEW t \in Threads, Submit(t), ~Transmit(t), ~TransmitRaises(t) PROVE Allowed
      <3>1. venue' = venue
        BY <2>3 DEF Submit, BeginBuy, BeginSell, Abandon, AlreadySubmitted, Reserve,
           MarkSubmitting, FinalCheck, FinalCheckFails, RecordResponse, environment
      <3> QED
        BY <2>1, <3>1
    <2>4. ASSUME NEW t \in Threads, Begin(t) \/ Reconcile(t) \/ ResumeCommit(t) PROVE Allowed
      <3>1. venue' = venue
        BY <2>4 DEF Begin, BeginTick, BeginProtect, BeginResume, Reconcile, Observe,
           ReadBalance, ObserveIncomplete, PreflightStale, ReconcileBegin, SettleState,
           ReconcileEnd, ApplyFill, ResumeCommit, environment
      <3> QED
        BY <2>1, <3>1
    <2>5. ASSUME NEW t \in Threads, Retire(t) PROVE Allowed
      <3>1. venue' = venue \/ \E asked : venue' = [venue EXCEPT ![local[t].order].cancelAsked = asked]
        BY <2>5 DEF Retire, InvalidateUnsubmitted, ProtectHolding, ProtectEnds, ListExpired,
           ListEntries, CancelsDone, RetireThesis, CancelSkips, CancelRefused, RequestCancel,
           CancelNotSent, CancelAcknowledged, CancelUncertain, environment
      <3>2. CASE venue' = venue
        BY <2>1, <3>2
      <3>3. ASSUME NEW asked, NEW k,
                   venue' = [venue EXCEPT ![k].cancelAsked = asked]
            PROVE  Allowed
        <4>1. \A j \in Intents : venue'[j].posts = venue[j].posts
          BY <3>3, <2>0 DEF VenueType
        <4> QED
          BY <2>1, <4>1
      <3> QED
        BY <3>1, <3>2, <3>3
    <2>6. ASSUME NEW i \in Intents, Broker(i) PROVE Allowed
      <3>1. \A j \in Intents : venue'[j].posts = venue[j].posts
        <4>1. CASE Arrive(i) \/ CancelTakesEffect(i) \/ SessionClose(i)
          <5>1. \E status : venue' = [venue EXCEPT ![i].status = status]
            BY <4>1 DEF Arrive, CancelTakesEffect, SessionClose
          <5> QED
            BY <5>1, <2>0 DEF VenueType
        <4>2. CASE Fill(i) \/ LateFill(i)
          <5>1. venue' = OneMoreTraded(i)
            BY <4>2 DEF Fill, LateFill
          <5> QED
            BY <5>1, <2>0 DEF OneMoreTraded, VenueType
        <4> QED
          BY <2>6, <4>1, <4>2 DEF Broker
      <3> QED
        BY <2>1, <3>1
    <2>7. ASSUME Pause \/ Crash \/ \E i \in Intents : Expire(i) PROVE Allowed
      <3>1. venue' = venue
        BY <2>7 DEF Pause, Crash, Expire, environment
      <3> QED
        BY <2>1, <3>1
    <2> QED
      BY <2>2, <2>3, <2>4, <2>5, <2>6, <2>7 DEF Next
  <1>2. [][Allowed]_vars => SentOnlyWhenAllowed
    BY PTL DEF SentOnlyWhenAllowed
  <1> QED
    BY <1>1, <1>2, Invariance, PTL DEF Spec

-----------------------------------------------------------------------------
(* What a row says of the order at the broker.                              *)

\* What the broker is done with.
Done == {"FILLED", "CANCELED", "EXPIRED"}

\* A live order has a working row that reserves all of its rest; what is known was
\* posted, what is VALIDATED was not; an exit is never canceled; and a closed row has
\* booked all that traded, but for the late fills of a canceled entry.
RowTrue(i) ==
    /\ Live(i) => row[i].state \in WORKING
    /\ i \in Buys /\ Live(i) => row[i].reserve = UnitReserve[i] * (Quantity[i] - row[i].filled)
    /\ row[i].known => venue[i].posts > 0
    /\ row[i].state = "VALIDATED" => venue[i].posts = 0
    /\ i \notin Buys => ~venue[i].cancelAsked /\ venue[i].status # "CANCELED"
    /\ row[i].state \in TERMINAL /\ (lateFills = 0 \/ i \notin Buys) => row[i].filled = venue[i].traded

\* What a snapshot shows closed stays closed, with what it had traded.
Seen(t) ==
    \A i \in Intents :
        /\ local[t].snapshot[i].status \in TERMINAL =>
              /\ venue[i].status \in Done
              /\ lateFills = 0 \/ i \notin Buys => local[t].snapshot[i].traded = venue[i].traded
        /\ local[t].snapshot[i].status # "ABSENT" => venue[i].posts > 0

\* The whole order is reserved.
Full(i) == row[i].filled = 0 /\ row[i].reserve = UnitReserve[i] * Quantity[i]

\* Orders of the instrument that work are on the side of i.
OneSide(i) ==
    \A j \in OtherWorking(i) : Instrument[j] = Instrument[i] => (j \in Buys <=> i \in Buys)

\* What a thread that holds dispatch_lock knows of the row it works on.
Held(t) ==
    /\ local[t].pc \in {"reserved", "submitting"} /\ local[t].fresh => Full(local[t].intent)
    /\ local[t].pc \in {"checked", "answered"} =>
          row[local[t].intent].state = "SUBMITTING" /\ Full(local[t].intent)
    /\ local[t].pc = "checked" => OneSide(local[t].intent)
    /\ local[t].pc = "answered" /\ local[t].answer \in {"NOT_SENT", "REJECTED"} =>
          venue[local[t].intent].status = "ABSENT"
    /\ local[t].pc = "answered" /\ local[t].answer = "ACKNOWLEDGED" =>
          venue[local[t].intent].posts > 0
    /\ local[t].pc \in Settling =>
          \A i \in local[t].todo : local[t].snapshot[i].status # "ABSENT"
    /\ local[t].pc = "applied" =>
          row[local[t].order].filled >= local[t].snapshot[local[t].order].traded
    /\ local[t].pc = "canceling" =>
          /\ local[t].prior \in WORKING \ {"VALIDATED"}
          /\ local[t].order \in Buys /\ row[local[t].order].state = "CANCEL_REQUESTED"
    /\ local[t].pc \in {"cancel", "canceling"} => local[t].todo \subseteq Buys
    /\ local[t].pc = "reserved" /\ local[t].intent \notin Buys => row[local[t].intent].state = "VALIDATED"

\* Where a thread knows such a thing.
Busy == Sending \cup Settling \cup {"answered", "canceling"}

OrdersHeld ==
    /\ \A i \in Intents : RowTrue(i)
    /\ NoOppositeOrdersLive
    /\ \A t \in Threads : Seen(t) /\ Held(t)

-----------------------------------------------------------------------------
(* How a step keeps it.                                                      *)

\* No thread's intent becomes current again, but that of t.
Lowered(t) == \A u \in Threads \ {t} : local'[u].fresh => local[u].fresh

\* What is done at the broker stays done; posts are counted.
VenueGrows ==
    \A i \in Intents :
        /\ venue[i].posts > 0 => venue'[i].posts > 0
        /\ lateFills' = 0 => lateFills = 0
        /\ venue[i].status \in Done =>
              /\ venue'[i].status \in Done
              /\ lateFills' = 0 \/ i \notin Buys => venue'[i].traded = venue[i].traded

\* What t may do to the rows of a thread that holds dispatch_lock: retire an entry that is
\* VALIDATED, which makes every intent stale.
Apart(t) ==
    \/ dispatchLock \in {None, t}
    \/ \A i \in Intents :
          /\ venue[i].status = "ABSENT" => venue'[i].status = "ABSENT"
          /\ venue[i].posts > 0 => venue'[i].posts > 0
          /\ \/ row'[i] = row[i]
             \/ /\ i \in Buys /\ row[i].state = "VALIDATED" /\ row'[i].state = "INVALIDATED"
                /\ row'[i].filled = row[i].filled
                /\ \A u \in Threads : ~local'[u].fresh

LEMMA Disjoint ==
    /\ WORKING \cap TERMINAL = {} /\ "NONE" \notin WORKING \cup TERMINAL
    /\ "SUBMITTING" \in WORKING /\ "VALIDATED" \in WORKING /\ "INVALIDATED" \in TERMINAL
    /\ Done \subseteq TERMINAL /\ VenueStatus \cap TERMINAL = Done
  BY DEF WORKING, TERMINAL, Done, VenueStatus

\* The types the steps below rest on.
LEMMA HeldTypes ==
    ASSUME TypeOK, NEW t \in Threads
    PROVE  /\ local[t] \in LocalType /\ local[t].snapshot \in SnapshotType
           /\ local[t].pc \in PCs /\ local[t].intent \in Intents \cup {None}
           /\ local[t].order \in Intents \cup {None}
           /\ \A i \in Intents : /\ row[i] \in RowType /\ row[i].filled \in Nat /\ row[i].state \in States
                                 /\ venue[i] \in VenueType /\ venue[i].status \in VenueStatus
                                 /\ venue[i].traded \in Nat /\ venue[i].posts \in Nat
                                 /\ local[t].snapshot[i].traded \in Nat
                                 /\ local[t].snapshot[i].status \in VenueStatus
  <1>1. local[t] \in LocalType
    BY Types
  <1>2. local[t].snapshot \in SnapshotType /\ local[t].pc \in PCs /\ local[t].intent \in Intents \cup {None}
        /\ local[t].order \in Intents \cup {None}
    BY <1>1 DEF LocalType
  <1>3. \A i \in Intents : row[i] \in RowType /\ venue[i] \in VenueType
    BY Types
  <1>4. \A i \in Intents : row[i].filled \in Nat /\ row[i].state \in States
    BY <1>3 DEF RowType
  <1>5. \A i \in Intents : venue[i].status \in VenueStatus /\ venue[i].traded \in Nat /\ venue[i].posts \in Nat
    BY <1>3 DEF VenueType
  <1>6. \A i \in Intents : local[t].snapshot[i].traded \in Nat /\ local[t].snapshot[i].status \in VenueStatus
    BY <1>2 DEF SnapshotType
  <1> QED BY <1>1, <1>2, <1>3, <1>4, <1>5, <1>6

\* A snapshot that is kept or dropped.
LEMMA SeenKept ==
    ASSUME IInv, OrdersHeld, NEW t \in Threads, VenueGrows,
           local'[t].snapshot \in {local[t].snapshot, NoSnapshot}
    PROVE  Seen(t)'
  <1>1. CASE local'[t].snapshot = NoSnapshot
    BY <1>1, Disjoint DEF Seen, NoSnapshot, TERMINAL
  <1>2. CASE local'[t].snapshot = local[t].snapshot
    BY <1>2 DEF Seen, OrdersHeld, VenueGrows
  <1> QED BY <1>1, <1>2

\* Another thread knows what it knew.
LEMMA OthersHold ==
    ASSUME IInv, OrdersHeld, NEW t, NEW u \in Threads \ {t}, Apart(t), Lowered(t),
           SameElsewhere(local, local', t)
    PROVE  Held(u)'
  <1>1. /\ local'[u].pc = local[u].pc /\ local'[u].intent = local[u].intent
        /\ local'[u].order = local[u].order /\ local'[u].prior = local[u].prior
        /\ local'[u].answer = local[u].answer /\ local'[u].snapshot = local[u].snapshot
        /\ local'[u].todo = local[u].todo
        /\ (local'[u].fresh => local[u].fresh)
    BY DEF SameElsewhere, Lowered
  <1>2. Held(u) /\ ThreadSafe(u) /\ u # None
    BY SetsAssumption DEF OrdersHeld, IInv, Safe
  <1>3. CASE local[u].pc \notin Busy
    BY <1>1, <1>2, <1>3 DEF Held, Busy, Sending, Settling
  <1>4. CASE local[u].pc \in Busy
    <2>1. dispatchLock = u
      BY <1>2, <1>4 DEF Busy, ThreadSafe, Locked, Sending, Settling
    <2>2. \A i \in Intents :
              /\ venue[i].status = "ABSENT" => venue'[i].status = "ABSENT"
              /\ venue[i].posts > 0 => venue'[i].posts > 0
              /\ row'[i].filled = row[i].filled
              /\ row[i].state # "VALIDATED" \/ i \notin Buys => row'[i] = row[i]
              /\ local'[u].fresh => row'[i] = row[i]
              /\ row'[i].state \in WORKING => row[i].state \in WORKING
      BY <1>2, <2>1, Disjoint DEF Apart
    <2>3. local[u].pc \in {"reserved", "submitting", "checked", "answered"} => local[u].intent \in Intents
      BY <1>2 DEF ThreadSafe, Threaded, Sending
    <2>4. local[u].pc = "applied" => local[u].order \in Intents
      BY <1>2 DEF ThreadSafe, Threaded
    <2>5. local[u].pc \in {"reserved", "submitting"} /\ local'[u].fresh => Full(local[u].intent)'
      BY <1>1, <1>2, <2>2, <2>3 DEF Held, Full
    <2>6. local[u].pc \in {"checked", "answered"} => row'[local[u].intent].state = "SUBMITTING" /\ Full(local[u].intent)'
      BY <1>1, <1>2, <2>2, <2>3 DEF Held, Full
    <2>7. local[u].pc = "checked" => OneSide(local[u].intent)'
      BY <1>1, <1>2, <2>2 DEF Held, OneSide, OtherWorking, Working
    <2>8. local[u].pc = "answered" /\ local[u].answer \in {"NOT_SENT", "REJECTED"} =>
              venue'[local[u].intent].status = "ABSENT"
      BY <1>2, <2>2, <2>3 DEF Held
    <2>9. local[u].pc = "applied" => row'[local[u].order].filled >= local[u].snapshot[local[u].order].traded
      BY <1>2, <2>2, <2>4 DEF Held
    <2>10. local[u].pc = "answered" /\ local[u].answer = "ACKNOWLEDGED" => venue'[local[u].intent].posts > 0
      BY <1>2, <2>2, <2>3 DEF Held
    <2>11. local[u].pc = "canceling" =>
              local[u].order \in Buys /\ row'[local[u].order].state = "CANCEL_REQUESTED"
      BY <1>2, <2>2, SetsAssumption DEF Held
    <2>12. local[u].pc = "reserved" /\ local[u].intent \notin Buys => row'[local[u].intent].state = "VALIDATED"
      BY <1>2, <2>2, <2>3 DEF Held
    <2> QED BY <1>1, <1>2, <2>5, <2>6, <2>7, <2>8, <2>9, <2>10, <2>11, <2>12 DEF Held
  <1> QED BY <1>3, <1>4

\* A step of t.
LEMMA StepHolds ==
    ASSUME IInv, OrdersHeld, NEW t \in Threads, Apart(t), Lowered(t), VenueGrows,
           SameElsewhere(local, local', t),
           \A i \in Intents : RowTrue(i)', NoOppositeOrdersLive', Seen(t)', Held(t)'
    PROVE  OrdersHeld'
  <1> SUFFICES ASSUME NEW u \in Threads, u # t PROVE Seen(u)' /\ Held(u)'
    BY DEF OrdersHeld
  <1>1. local'[u].snapshot = local[u].snapshot
    BY DEF SameElsewhere
  <1> QED BY <1>1, SeenKept, OthersHold

\* What a thread that advances to the record r leaves to the others.
LEMMA OthersKept ==
    ASSUME IInv, NEW t \in Threads, NEW r \in LocalType,
           local' = [local EXCEPT ![t] = r] \/ local' = Bumped([local EXCEPT ![t] = r])
    PROVE  /\ SameElsewhere(local, local', t) /\ Lowered(t)
           /\ local'[t].fresh => r.fresh
           /\ local' = Bumped([local EXCEPT ![t] = r]) => \A u \in Threads : ~local'[u].fresh
  <1> DEFINE l == [local EXCEPT ![t] = r]
  <1>1. local \in [Threads -> LocalType] /\ l \in [Threads -> LocalType]
    BY Types DEF IInv
  <1>2. /\ l[t] = r /\ SameElsewhere(local, l, t)
        /\ \A u \in Threads \ {t} : l[u] = local[u]
    BY <1>1 DEF SameElsewhere
  <1> HIDE DEF l
  <1>3. local' = Bumped(l) => \A u \in Threads : ~local'[u].fresh
    BY <1>1 DEF Bumped, LocalType
  <1>4. SameElsewhere(local, local', t) /\ Lowered(t) /\ (local'[t].fresh => r.fresh)
    <2>1. CASE local' = l
      BY <1>2, <2>1 DEF Lowered
    <2>2. CASE local' = Bumped(l)
      <3>1. Bumped(l) \in [Threads -> LocalType] /\ SameElsewhere(l, Bumped(l), None)
        BY <1>1, BumpedFields
      <3>2. SameElsewhere(local, local', t)
        BY <1>2, <2>2, <3>1, SetsAssumption DEF SameElsewhere
      <3> QED BY <1>3, <2>2, <3>2 DEF Lowered
    <2> QED BY <2>1, <2>2 DEF l
  <1> QED BY <1>3, <1>4 DEF l

\* The same, of a thread that returns.
LEMMA OthersKeptReturn ==
    ASSUME IInv, NEW t \in Threads, Return(t) \/ ReturnBumping(t)
    PROVE  /\ SameElsewhere(local, local', t) /\ Lowered(t)
           /\ local'[t].pc = "idle" /\ local'[t].snapshot = NoSnapshot
  <1>1. Idle \in LocalType
    BY IdleType
  <1>2. local' = [local EXCEPT ![t] = Idle] \/ local' = Bumped([local EXCEPT ![t] = Idle])
    BY DEF Return, ReturnBumping
  <1>3. SameElsewhere(local, local', t) /\ Lowered(t)
    BY <1>1, <1>2, OthersKept
  <1> QED BY <1>3, Returned DEF IInv

\* Steps that write no row, post nothing, and leave t with nothing to know.
LEMMA QuietHolds ==
    ASSUME IInv, OrdersHeld, NEW t \in Threads, SameElsewhere(local, local', t), Lowered(t),
           UNCHANGED <<row, venue, lateFills>>, local'[t].pc \notin Busy,
           local'[t].pc = "cancel" => local'[t].todo \subseteq Buys,
           local'[t].snapshot \in {local[t].snapshot, NoSnapshot}
    PROVE  OrdersHeld'
  <1>1. Apart(t) /\ VenueGrows
    BY DEF Apart, VenueGrows
  <1>2. NoOppositeOrdersLive' /\ \A i \in Intents : RowTrue(i)'
    BY DEF OrdersHeld, NoOppositeOrdersLive, RowTrue, Live
  <1>3. Held(t)'
    BY DEF Held, Busy, Sending, Settling
  <1> QED BY <1>1, <1>2, <1>3, SeenKept, StepHolds

\* A row that t writes.
LEMMA RowWritten ==
    ASSUME IInv, OrdersHeld, NEW t \in Threads, NEW i \in Intents, NEW n \in RowType,
           SameElsewhere(local, local', t), Lowered(t), dispatchLock \in {None, t},
           row' = [row EXCEPT ![i] = n], UNCHANGED <<venue, lateFills>>, RowTrue(i)',
           local'[t].snapshot \in {local[t].snapshot, NoSnapshot}, Held(t)'
    PROVE  OrdersHeld'
  <1>1. \A j \in Intents : j # i => row'[j] = row[j]
    BY Types DEF IInv
  <1>2. Apart(t) /\ VenueGrows
    BY DEF Apart, VenueGrows
  <1>3. \A j \in Intents : RowTrue(j)'
    BY <1>1 DEF OrdersHeld, RowTrue, Live
  <1>4. NoOppositeOrdersLive'
    BY DEF OrdersHeld, NoOppositeOrdersLive, Live
  <1>5. Seen(t)'
    BY <1>2, SeenKept
  <1> QED BY <1>2, <1>3, <1>4, <1>5, StepHolds

\* A row written by a thread that returns, or that goes on as r.
LEMMA RowWrittenReturn ==
    ASSUME IInv, OrdersHeld, NEW t \in Threads, NEW i \in Intents, NEW n \in RowType,
           Return(t) \/ ReturnBumping(t), dispatchLock \in {None, t},
           row' = [row EXCEPT ![i] = n], UNCHANGED <<venue, lateFills>>, RowTrue(i)'
    PROVE  OrdersHeld'
  <1>1. /\ SameElsewhere(local, local', t) /\ Lowered(t)
        /\ local'[t].pc = "idle" /\ local'[t].snapshot = NoSnapshot
    BY OthersKeptReturn
  <1>2. Held(t)'
    BY <1>1 DEF Held, Settling
  <1> QED BY <1>1, <1>2, RowWritten

LEMMA RowWrittenAdvance ==
    ASSUME IInv, OrdersHeld, NEW t \in Threads, NEW i \in Intents, NEW n \in RowType, NEW r \in LocalType,
           local' = [local EXCEPT ![t] = r] \/ local' = Bumped([local EXCEPT ![t] = r]),
           dispatchLock \in {None, t}, r.snapshot = local[t].snapshot,
           row' = [row EXCEPT ![i] = n], UNCHANGED <<venue, lateFills>>, RowTrue(i)', Held(t)'
    PROVE  OrdersHeld'
  <1>1. SameElsewhere(local, local', t) /\ Lowered(t)
    BY OthersKept
  <1>2. local'[t].snapshot = local[t].snapshot
    BY Advanced DEF IInv
  <1> QED BY <1>1, <1>2, RowWritten

\* A thread that returns having written no row.
LEMMA ReturnHolds ==
    ASSUME IInv, OrdersHeld, NEW t \in Threads, Return(t) \/ ReturnBumping(t),
           UNCHANGED <<row, venue, lateFills>>
    PROVE  OrdersHeld'
  <1>1. /\ SameElsewhere(local, local', t) /\ Lowered(t)
        /\ local'[t].pc = "idle" /\ local'[t].snapshot = NoSnapshot
    BY OthersKeptReturn
  <1>2. local'[t].pc \notin Busy
    BY <1>1 DEF Busy, Sending, Settling
  <1> QED BY <1>1, <1>2, QuietHolds

\* A thread that goes on to something it need not know a row for.
LEMMA MoveHolds ==
    ASSUME IInv, OrdersHeld, NEW t \in Threads, NEW r \in LocalType, local' = [local EXCEPT ![t] = r],
           UNCHANGED <<row, venue, lateFills>>, r.pc \notin Busy, r.pc = "cancel" => r.todo \subseteq Buys,
           r.snapshot \in {local[t].snapshot, NoSnapshot}
    PROVE  OrdersHeld'
  <1>1. local'[t] = r
    BY Types DEF IInv
  <1>2. SameElsewhere(local, local', t) /\ Lowered(t)
    BY OthersKept
  <1> QED BY <1>1, <1>2, QuietHolds

-----------------------------------------------------------------------------
(* The steps that write no row.                                              *)

\* The steps by which a thread begins.
LEMMA BeginHolds ==
    ASSUME IInv, OrdersHeld, NEW t \in Threads, NEW i,
           \/ BeginTick(t) \/ BeginProtect(t) \/ BeginResume(t) \/ BeginBuy(t, i) \/ BeginSell(t, i)
    PROVE  OrdersHeld'
  <1>1. UNCHANGED <<row, venue, lateFills>>
    BY DEF BeginTick, BeginProtect, BeginResume, BeginBuy, BeginSell, ledger, environment
  <1>2. ASSUME NEW r \in LocalType, local' = [local EXCEPT ![t] = r], r.pc = "observe",
               r.snapshot = NoSnapshot
        PROVE  OrdersHeld'
    <2>1. r.pc \notin Busy
      BY <1>2 DEF Busy, Sending, Settling
    <2> QED BY <1>1, <1>2, <2>1, MoveHolds
  <1>3. ASSUME NEW after \in {"expire", "protect", "resume"},
               local' = [local EXCEPT ![t] = [Idle EXCEPT !.pc = "observe", !.after = after]]
        PROVE  OrdersHeld'
    <2> DEFINE r == [Idle EXCEPT !.pc = "observe", !.after = after]
    <2>1. r \in LocalType /\ r.pc = "observe" /\ r.snapshot = NoSnapshot
      BY IdleType, Names DEF LocalType, Idle
    <2> QED BY <1>2, <1>3, <2>1
  <1>4. CASE BeginBuy(t, i)
    <2> DEFINE r == [Idle EXCEPT !.pc = "observe", !.after = "reserve", !.intent = i, !.fresh = TRUE]
    <2>1. i \in Intents
      BY <1>4, SetsAssumption DEF BeginBuy
    <2>2. r \in LocalType /\ r.pc = "observe" /\ r.snapshot = NoSnapshot
      BY <2>1, IdleType, Names DEF LocalType, Idle
    <2>3. local' = [local EXCEPT ![t] = r]
      BY <1>4 DEF BeginBuy
    <2> HIDE DEF r
    <2> QED BY <1>2, <2>2, <2>3
  <1>5. CASE BeginSell(t, i)
    <2> DEFINE r == [Idle EXCEPT !.pc = "observe", !.after = "reserve", !.intent = i,
                                 !.fresh = TRUE, !.held = TRUE]
    <2>1. i \in Intents
      BY <1>5, SetsAssumption DEF BeginSell
    <2>2. r \in LocalType /\ r.pc = "observe" /\ r.snapshot = NoSnapshot
      BY <2>1, IdleType, Names DEF LocalType, Idle
    <2>3. local' = [local EXCEPT ![t] = r]
      BY <1>5 DEF BeginSell
    <2> HIDE DEF r
    <2> QED BY <1>2, <2>2, <2>3
  <1> QED BY <1>3, <1>4, <1>5 DEF BeginTick, BeginProtect, BeginResume

\* The steps by which a thread returns or moves on.
LEMMA QuietStepsHold ==
    ASSUME IInv, OrdersHeld, NEW t \in Threads, NEW i,
           \/ PreflightStale(t) \/ Abandon(t) \/ AlreadySubmitted(t) \/ ProtectEnds(t)
           \/ CancelRefused(t, i) \/ ResumeCommit(t)
           \/ ReadBalance(t) \/ ObserveIncomplete(t) \/ ReconcileEnd(t)
           \/ ProtectHolding(t) \/ ListExpired(t) \/ ListEntries(t) \/ CancelSkips(t, i) \/ CancelsDone(t)
    PROVE  OrdersHeld'
  <1> USE DEF At
  <1>1. UNCHANGED <<row, venue, lateFills>>
    BY DEF PreflightStale, Abandon, AlreadySubmitted, ProtectEnds, CancelRefused, ResumeCommit, ReadBalance,
       ObserveIncomplete, ReconcileEnd, ProtectHolding, ListExpired, ListEntries, CancelSkips, CancelsDone,
       ledger, environment
  <1>2. CASE Return(t)
    BY <1>1, <1>2, ReturnHolds
  <1>3. PreflightStale(t) \/ Abandon(t) \/ AlreadySubmitted(t) \/ ProtectEnds(t) \/ CancelRefused(t, i)
         \/ ResumeCommit(t) => Return(t)
    BY DEF PreflightStale, Abandon, AlreadySubmitted, ProtectEnds, CancelRefused, ResumeCommit
  <1>4. local[t] \in LocalType /\ ThreadSafe(t)
    BY Types DEF IInv, Safe
  <1>5. ASSUME NEW r \in LocalType, local' = [local EXCEPT ![t] = r],
               r.pc \in {"collected", "exit", "cancel", "observe"} \cup Continuations,
               r.pc = "cancel" => r.todo \subseteq Buys,
               r.snapshot \in {local[t].snapshot, NoSnapshot}
        PROVE  OrdersHeld'
    <2>1. r.pc \notin Busy
      BY <1>5 DEF Busy, Sending, Settling, Continuations
    <2> QED BY <1>1, <1>5, <2>1, MoveHolds
  <1>6. CASE ReadBalance(t)
    <2> DEFINE r == [local[t] EXCEPT !.pc = "collected", !.balance = Traded]
    <2>1. Traded \in [Intents -> Nat]
      BY Types DEF IInv, Traded, VenueType
    <2>2. r \in LocalType /\ r.pc = "collected" /\ r.snapshot = local[t].snapshot
      BY ZenonT(30), <1>4, <2>1, Names DEF LocalType
    <2>3. local' = [local EXCEPT ![t] = r]
      BY <1>6 DEF ReadBalance
    <2> HIDE DEF r
    <2> QED BY <1>5, <2>2, <2>3
  <1>7. CASE ProtectHolding(t)
    <2> DEFINE r == [local[t] EXCEPT !.pc = "exit"]
    <2>1. r \in LocalType /\ r.pc = "exit" /\ r.snapshot = local[t].snapshot
      BY ZenonT(30), <1>4, Names DEF LocalType
    <2>2. local' = [local EXCEPT ![t] = r]
      BY <1>7 DEF ProtectHolding
    <2> HIDE DEF r
    <2> QED BY <1>5, <2>1, <2>2
  <1>8. CASE ListExpired(t)
    <2> DEFINE r == [local[t] EXCEPT !.pc = "cancel", !.after = "protect", !.todo = Working \cap Buys \cap expired]
    <2>1. r \in LocalType /\ r.pc = "cancel" /\ r.snapshot = local[t].snapshot /\ r.todo \subseteq Buys
      BY ZenonT(30), <1>4, Names DEF LocalType, Working
    <2>2. local' = [local EXCEPT ![t] = r]
      BY <1>8 DEF ListExpired
    <2> HIDE DEF r
    <2> QED BY <1>5, <2>1, <2>2
  <1>9. CASE CancelsDone(t)
    <2> DEFINE r == [local[t] EXCEPT !.pc = "observe", !.held = FALSE]
    <2>1. r \in LocalType /\ r.pc = "observe" /\ r.snapshot = local[t].snapshot
      BY ZenonT(30), <1>4, Names DEF LocalType
    <2>2. local' = [local EXCEPT ![t] = r]
      BY <1>9 DEF CancelsDone
    <2> HIDE DEF r
    <2> QED BY <1>5, <2>1, <2>2
  <1>10. CASE CancelSkips(t, i)
    <2> DEFINE r == [local[t] EXCEPT !.todo = @ \ {i}]
    <2>1. /\ r \in LocalType /\ r.pc = local[t].pc /\ r.snapshot = local[t].snapshot
          /\ r.todo = local[t].todo \ {i}
      BY ZenonT(30), <1>4, Names DEF LocalType
    <2>2. local' = [local EXCEPT ![t] = r] /\ local[t].pc = "cancel"
      BY <1>10 DEF CancelSkips
    <2>3. local[t].todo \subseteq Buys
      BY <2>2 DEF OrdersHeld, Held
    <2> HIDE DEF r
    <2> QED BY <1>5, <2>1, <2>2, <2>3
  <1>11. CASE ListEntries(t)
    <2>1. PICK x \in Instruments :
             LET entries == {j \in Working \cap Buys : Instrument[j] = x}
             IN  local' = [local EXCEPT ![t] =
                    [@ EXCEPT !.todo = entries, !.after = "exit",
                              !.pc = IF entries = {} THEN "exit" ELSE "cancel"]]
      BY <1>11 DEF ListEntries
    <2> DEFINE entries == {j \in Working \cap Buys : Instrument[j] = x}
               r == [local[t] EXCEPT !.todo = entries, !.after = "exit",
                                     !.pc = IF entries = {} THEN "exit" ELSE "cancel"]
    <2>2. entries \in SUBSET Intents /\ entries \subseteq Buys
      BY DEF Working
    <2>3. local' = [local EXCEPT ![t] = r]
      BY <2>1
    <2>4. /\ r \in LocalType /\ r.pc \in {"exit", "cancel"} /\ r.snapshot = local[t].snapshot
          /\ r.todo \subseteq Buys
      <3> HIDE DEF entries
      <3> QED BY ZenonT(30), <1>4, <2>2, Names DEF LocalType
    <2> HIDE DEF r
    <2> QED BY <1>5, <2>3, <2>4
  <1>12. local[t].pc \in Collecting \cup Settling => local[t].after \in Continuations \ {"none"}
    BY <1>4 DEF ThreadSafe, Threaded, LocalType
  <1>13. CASE ObserveIncomplete(t) /\ ~Return(t)
    <2> DEFINE r == [local[t] EXCEPT !.pc = local[t].after]
    <2>1. local[t].pc = "observe" /\ local' = [local EXCEPT ![t].pc = local[t].after]
      BY <1>13 DEF ObserveIncomplete
    <2>2. local[t].after \in Continuations \ {"none"}
      BY <1>12, <2>1 DEF Collecting
    <2>3. r \in LocalType /\ r.pc = local[t].after /\ r.snapshot = local[t].snapshot
      BY <1>4, <2>2, Names DEF LocalType
    <2>4. local' = [local EXCEPT ![t] = r]
      BY <2>1
    <2>5. local[t].after \notin {"cancel", "canceling"}
      BY <2>2 DEF Continuations
    <2> HIDE DEF r
    <2> QED BY <1>5, <2>2, <2>3, <2>4, <2>5
  <1>14. CASE ReconcileEnd(t) /\ ~Return(t)
    <2> DEFINE r == [local[t] EXCEPT !.pc = local[t].after, !.after = "none",
                                     !.snapshot = NoSnapshot, !.balance = Idle.balance]
    <2>1. local[t].pc = "settling" /\ local' = [local EXCEPT ![t] = r]
      BY <1>14 DEF ReconcileEnd
    <2>2. local[t].after \in Continuations \ {"none"}
      BY <1>12, <2>1 DEF Settling
    <2>3. Idle.balance \in [Intents -> Nat]
      BY DEF Idle
    <2>4. r \in LocalType /\ r.pc = local[t].after /\ r.snapshot = NoSnapshot
      BY <1>4, <2>2, <2>3, IdleType, Names DEF LocalType
    <2>5. local[t].after \notin {"cancel", "canceling"}
      BY <2>2 DEF Continuations
    <2> HIDE DEF r
    <2> QED BY <1>5, <2>1, <2>2, <2>4, <2>5
  <1> QED BY <1>2, <1>3, <1>6, <1>7, <1>8, <1>9, <1>10, <1>11, <1>13, <1>14

\* Observe: what is shown closed is closed.
LEMMA ObserveHolds ==
    ASSUME IInv, OrdersHeld, NEW t \in Threads, Observe(t) PROVE OrdersHeld'
  <1>1. PICK seen \in SUBSET Intents :
           local' = [local EXCEPT ![t] = [@ EXCEPT !.pc = "balance", !.snapshot = Shown(seen)]]
    BY DEF Observe
  <1> DEFINE r == [local[t] EXCEPT !.pc = "balance", !.snapshot = Shown(seen)]
  <1>2. local[t] \in LocalType /\ local \in [Threads -> LocalType] /\ UNCHANGED <<row, venue, lateFills>>
    BY Types DEF IInv, Observe, ledger, environment
  <1>3. Shown(seen) \in SnapshotType
    BY Types, Names DEF IInv, Shown, SnapshotType, NoSnapshot, VenueType
  <1>4. r \in LocalType /\ r.pc = "balance" /\ r.snapshot = Shown(seen)
    BY ZenonT(30), <1>2, <1>3, Names DEF LocalType
  <1>10. local' = [local EXCEPT ![t] = r]
    BY <1>1
  <1> HIDE DEF r
  <1>11. local'[t] = r
    BY <1>2, <1>10
  <1>5. SameElsewhere(local, local', t) /\ Lowered(t)
    BY <1>4, <1>10, OthersKept
  <1>6. Seen(t)'
    <2> SUFFICES ASSUME NEW i \in Intents
                 PROVE  /\ r.snapshot[i].status \in TERMINAL =>
                              /\ venue[i].status \in Done
                              /\ lateFills = 0 \/ i \notin Buys => r.snapshot[i].traded = venue[i].traded
                        /\ r.snapshot[i].status # "ABSENT" => venue[i].posts > 0
      BY <1>2, <1>11 DEF Seen
    <2>1. CASE i \in seen
      <3>1. r.snapshot[i].status = venue[i].status /\ r.snapshot[i].traded = venue[i].traded
        BY <1>4, <2>1 DEF Shown
      <3>2. venue[i].status \in VenueStatus /\ venue[i].posts \in Nat
        BY HeldTypes DEF IInv
      <3>3. venue[i].posts = 0 => venue[i].status = "ABSENT"
        BY DEF IInv, Safe, Once
      <3> QED BY <3>1, <3>2, <3>3, Disjoint
    <2>2. CASE i \notin seen
      BY <1>4, <2>2 DEF Shown, NoSnapshot, TERMINAL
    <2> QED BY <2>1, <2>2
  <1>7. Apart(t) /\ VenueGrows
    BY <1>2 DEF Apart, VenueGrows
  <1>8. NoOppositeOrdersLive' /\ \A i \in Intents : RowTrue(i)'
    BY <1>2 DEF OrdersHeld, NoOppositeOrdersLive, RowTrue, Live
  <1>9. Held(t)'
    BY <1>4, <1>11 DEF Held, Settling
  <1> QED BY <1>5, <1>6, <1>7, <1>8, <1>9, StepHolds

-----------------------------------------------------------------------------
(* Reconciliation.                                                           *)

\* ReconcileBegin: what is to be settled was shown.
LEMMA ReconcileBeginHolds ==
    ASSUME IInv, OrdersHeld, NEW t \in Threads, ReconcileBegin(t) PROVE OrdersHeld'
  <1> DEFINE matched == {i \in Intents : Matched(i, local[t].snapshot)}
             r == [local[t] EXCEPT !.pc = "settling",
                      !.todo = {i \in matched : Submitted(i)},
                      !.unresolved = Working \ matched]
  <1>1. local[t] \in LocalType
    BY Types DEF IInv
  <1>2. /\ r \in LocalType /\ r.pc = "settling" /\ r.snapshot = local[t].snapshot
        /\ \A i \in r.todo : r.snapshot[i].status # "ABSENT"
    <2>1. Working \ matched \in SUBSET Intents /\ {i \in matched : Submitted(i)} \in SUBSET Intents
      BY DEF Working
    <2>2. \A i \in {i \in matched : Submitted(i)} : local[t].snapshot[i].status # "ABSENT"
      BY DEF Matched
    <2>3. /\ r \in LocalType /\ r.pc = "settling" /\ r.snapshot = local[t].snapshot
          /\ r.todo = {i \in matched : Submitted(i)}
      BY ZenonT(30), <1>1, <2>1, Names DEF LocalType
    <2> HIDE DEF r, matched
    <2> QED BY <2>2, <2>3
  <1>3. local' = [local EXCEPT ![t] = r] /\ UNCHANGED <<row, venue, lateFills>>
    BY DEF ReconcileBegin, ledger, environment
  <1> HIDE DEF r
  <1>4. /\ SameElsewhere(local, local', t) /\ Lowered(t)
        /\ local'[t] = r
    BY <1>2, <1>3, OthersKept, Types DEF IInv
  <1>5. Apart(t) /\ VenueGrows
    BY <1>3 DEF Apart, VenueGrows
  <1>6. NoOppositeOrdersLive' /\ \A i \in Intents : RowTrue(i)'
    BY <1>3 DEF OrdersHeld, NoOppositeOrdersLive, RowTrue, Live
  <1>7. Seen(t)'
    BY <1>2, <1>4, <1>5, SeenKept
  <1>8. Held(t)'
    BY <1>2, <1>4 DEF Held
  <1> QED BY <1>4, <1>5, <1>6, <1>7, <1>8, StepHolds

\* What a row says is not changed by what it knows: its order was posted.
LEMMA KnownTrue ==
    ASSUME IInv, OrdersHeld, NEW i \in Intents, venue[i].posts > 0,
           row' = [row EXCEPT ![i].known = TRUE], UNCHANGED <<venue, lateFills>>
    PROVE  /\ RowTrue(i)' /\ row'[i] \in RowType
           /\ row'[i].filled = row[i].filled
  <1>1. row[i] \in RowType
    BY Types DEF IInv
  <1> DEFINE n == [row[i] EXCEPT !.known = TRUE]
  <1>2. row'[i] = n
    BY Types DEF IInv
  <1>3. /\ n \in RowType /\ n.filled = row[i].filled /\ n.state = row[i].state
        /\ n.reserve = row[i].reserve /\ n.known = TRUE
    BY <1>1 DEF RowType
  <1> HIDE DEF n
  <1>4. RowTrue(i)
    BY DEF OrdersHeld
  <1> QED BY <1>2, <1>3, <1>4 DEF RowTrue, Live

\* ApplyFill: a closed row had booked everything, so only a late fill reopens the question.
LEMMA ApplyFillHolds ==
    ASSUME IInv, OrdersHeld, NEW t \in Threads, NEW i \in Intents, ApplyFill(t, i) PROVE OrdersHeld'
  <1> DEFINE traded == local[t].snapshot[i].traded
             r == [local[t] EXCEPT !.pc = "applied", !.order = i, !.todo = local[t].todo \ {i}]
             next == [local EXCEPT ![t] = r]
  <1> USE DEF At, environment
  <1>1. /\ local[t].pc = "settling" /\ i \in local[t].todo /\ dispatchLock = t
        /\ UNCHANGED <<venue, lateFills>>
    BY DEF ApplyFill, IInv, Safe, ThreadSafe, Locked, Settling
  <1>2. local[t] \in LocalType /\ row[i] \in RowType /\ venue[i] \in VenueType /\ local[t].todo \in SUBSET Intents
    BY Types DEF IInv, LocalType
  <1>3. /\ r \in LocalType /\ r.pc = "applied" /\ r.order = i /\ r.snapshot = local[t].snapshot
        /\ r.todo = local[t].todo \ {i}
    BY ZenonT(30), <1>2, Names DEF LocalType
  <1>4. venue[i].posts > 0 /\ \A j \in local[t].todo : local[t].snapshot[j].status # "ABSENT"
    <2>1. \A j \in local[t].todo : local[t].snapshot[j].status # "ABSENT"
      BY <1>1 DEF OrdersHeld, Held, Settling
    <2> QED BY <1>1, <2>1 DEF OrdersHeld, Seen
  <1>5. /\ traded \in Nat /\ row[i].filled \in Nat /\ venue[i].traded \in Nat /\ Quantity[i] \in Nat \ {0}
        /\ traded <= venue[i].traded /\ venue[i].traded <= Quantity[i] /\ row[i].filled <= venue[i].traded
        /\ venue[i].status \in {"OPEN"} => venue[i].traded < Quantity[i]
        /\ venue[i].status = "INFLIGHT" => venue[i].traded = 0
    BY HeldTypes, FunctionsAssumption DEF IInv, Safe, Bounds
  <1> HIDE DEF r
  <1>6. ASSUME NEW n \in RowType, row' = [row EXCEPT ![i] = n], n.filled >= traded, RowTrue(i)',
               local' = next \/ local' = Bumped(next)
        PROVE  OrdersHeld'
    <2>1. /\ local'[t].pc = "applied" /\ local'[t].order = i /\ local'[t].snapshot = local[t].snapshot
          /\ local'[t].todo = local[t].todo \ {i}
      BY <1>3, <1>6, Advanced DEF IInv
    <2>2. row'[i] = n
      BY <1>6, Types DEF IInv
    <2>3. Held(t)'
      BY <1>4, <1>6, <2>1, <2>2 DEF Held
    <2> QED BY <1>1, <1>3, <1>6, <2>3, RowWrittenAdvance
  <1>7. CASE Older(i, traded)
    <2>1. local' = next /\ row' = [row EXCEPT ![i].known = TRUE]
      <3>1. local' = [local EXCEPT ![t] = [@ EXCEPT !.pc = "applied", !.order = i, !.todo = local[t].todo \ {i}]]
            /\ row' = [row EXCEPT ![i].known = TRUE]
        BY <1>7 DEF ApplyFill
      <3> QED BY <3>1 DEF r
    <2>2. RowTrue(i)' /\ row'[i] \in RowType /\ row'[i].filled = row[i].filled
      BY <1>1, <1>4, <2>1, KnownTrue
    <2>3. row' = [row EXCEPT ![i] = row'[i]]
      BY <2>1, Types DEF IInv
    <2>4. row'[i].filled >= traded
      BY <1>5, <1>7, <2>2 DEF Older
    <2> QED BY <1>6, <2>1, <2>2, <2>3, <2>4
  <1>8. CASE ~Older(i, traded) /\ Refused(i, traded - row[i].filled)
    <2>1. Return(t) /\ row' = [row EXCEPT ![i].known = TRUE]
      BY <1>8 DEF ApplyFill
    <2>2. RowTrue(i)' /\ row'[i] \in RowType
      BY <1>1, <1>4, <2>1, KnownTrue
    <2>3. row' = [row EXCEPT ![i] = row'[i]]
      BY <2>1, Types DEF IInv
    <2> QED BY <1>1, <2>1, <2>2, <2>3, RowWrittenReturn
  <1>9. CASE ~Older(i, traded) /\ ~Refused(i, traded - row[i].filled)
    <2> DEFINE state == FillState(i, traded)
               reserve == IF state \in WORKING THEN UnitReserve[i] * (Quantity[i] - traded) ELSE 0
               n == [row[i] EXCEPT !.state = state, !.filled = traded, !.known = TRUE, !.reserve = reserve]
    <2>1. local' = Bumped(next) /\ row' = [row EXCEPT ![i] = n]
      <3>1. /\ local' = Bumped([local EXCEPT ![t] = [@ EXCEPT !.pc = "applied",
                                             !.order = i, !.todo = local[t].todo \ {i}]])
            /\ row' = [row EXCEPT ![i] =
                  [@ EXCEPT !.state = state, !.filled = traded, !.known = TRUE,
                            !.reserve = IF state \in WORKING
                                     THEN UnitReserve[i] * (Quantity[i] - traded)
                                     ELSE 0]]
        BY <1>9 DEF ApplyFill
      <3> QED BY <3>1 DEF r
    <2>2. state \in States \ {"VALIDATED"}
      BY Names DEF FillState
    <2>3. reserve \in Nat
      <3>1. Quantity[i] - traded \in Nat /\ UnitReserve[i] \in Nat
        BY <1>5, FunctionsAssumption
      <3>2. UnitReserve[i] * (Quantity[i] - traded) \in Nat
        <4> HIDE DEF traded
        <4> QED BY <3>1
      <3> QED BY <3>2
    <2>4. traded > row[i].filled
      BY <1>5, <1>9 DEF Older
    <2>5. RowTrue(i)
      BY DEF OrdersHeld
    <2>6. state \in TERMINAL /\ (lateFills = 0 \/ i \notin Buys) => traded = venue[i].traded
      <3>1. CASE traded = Quantity[i]
        BY <1>5, <3>1
      <3>2. CASE traded # Quantity[i] /\ row[i].state \in {"CANCELED", "PARTIAL_CANCELED", "EXPIRED"}
        BY <1>5, <2>4, <2>5, <3>2 DEF RowTrue, TERMINAL
      <3>3. CASE traded # Quantity[i] /\ row[i].state \notin {"CANCELED", "PARTIAL_CANCELED", "EXPIRED"}
        BY <3>3 DEF FillState, TERMINAL
      <3> QED BY <3>1, <3>2, <3>3
    <2>7. Live(i) => state \in WORKING
      <3>1. Live(i) => traded # Quantity[i]
        BY <1>5 DEF Live
      <3>2. Live(i) => row[i].state \in WORKING
        BY <2>5 DEF RowTrue
      <3> QED BY <3>1, <3>2 DEF FillState, WORKING
    <2> HIDE DEF state
    <2>8. Live(i) => reserve = UnitReserve[i] * (Quantity[i] - traded)
      BY <2>7
    <2> HIDE DEF reserve, traded
    <2>9. /\ n \in RowType /\ n.filled = traded /\ n.state = state /\ n.known = TRUE /\ n.reserve = reserve
      BY <1>2, <1>5, <2>2, <2>3 DEF RowType
    <2>10. row'[i] = n
      BY <2>1, Types DEF IInv
    <2> HIDE DEF n
    <2>11. RowTrue(i)'
      BY <1>1, <1>4, <2>2, <2>5, <2>6, <2>7, <2>8, <2>9, <2>10 DEF RowTrue, Live
    <2>12. n.filled >= traded
      BY <1>5, <2>9
    <2> QED BY <1>6, <2>1, <2>9, <2>11, <2>12
  <1> QED BY <1>7, <1>8, <1>9

\* SettleState: what the snapshot shows closed is closed, and all of it is booked.
LEMMA SettleStateHolds ==
    ASSUME IInv, OrdersHeld, NEW t \in Threads, SettleState(t) PROVE OrdersHeld'
  <1>0. PICK i \in Intents : i = local[t].order
    BY DEF IInv, Safe, ThreadSafe, Threaded, SettleState, At
  <1> DEFINE r == [local[t] EXCEPT !.pc = "settling", !.order = None]
  <1> USE DEF At
  <1>1. /\ ThreadSafe(t) /\ dispatchLock = t /\ local[t].pc = "applied"
        /\ UNCHANGED <<venue, lateFills>>
    BY DEF IInv, Safe, ThreadSafe, Threaded, Locked, SettleState, Settling, environment
  <1>2. local[t] \in LocalType /\ row[i] \in RowType /\ row \in [Intents -> RowType]
    BY <1>1, Types DEF IInv
  <1>3. /\ r \in LocalType /\ r.pc = "settling" /\ r.snapshot = local[t].snapshot /\ r.todo = local[t].todo
    BY ZenonT(30), <1>2, Names DEF LocalType
  <1>4. local' = [local EXCEPT ![t] = r]
    BY DEF SettleState
  <1> HIDE DEF r
  <1>5. Held(t)'
    <2>1. \A j \in local[t].todo : local[t].snapshot[j].status # "ABSENT"
      BY <1>1 DEF OrdersHeld, Held, Settling
    <2>2. /\ local'[t].pc = "settling" /\ local'[t].snapshot = local[t].snapshot
          /\ local'[t].todo = local[t].todo
      BY <1>3, <1>4, Advanced DEF IInv
    <2> QED BY <2>1, <2>2 DEF Held
  <1>6. RowTrue(i) /\ Seen(t) /\ row[i].filled >= local[t].snapshot[i].traded
    BY <1>0, <1>1 DEF OrdersHeld, Held
  <1>7. row[i].filled \in Nat /\ venue[i].traded \in Nat /\ row[i].filled <= venue[i].traded
        /\ local[t].snapshot[i].traded \in Nat
    BY <1>1, HeldTypes DEF IInv, Safe, Bounds
  <1>8. \E n \in RowType : row' = [row EXCEPT ![i] = n] /\ RowTrue(i)'
    <2>1. CASE local[t].snapshot[i].status \in TERMINAL
      <3>1. PICK state \in TERMINAL : row' = Closed(i, state)
        BY <1>0, <2>1 DEF SettleState, TERMINAL
      <3> DEFINE n == [row[i] EXCEPT !.state = state, !.reserve = 0]
      <3>2. n \in RowType /\ n.state = state /\ n.filled = row[i].filled /\ n.known = row[i].known
        BY <1>2, Names DEF RowType
      <3>3. row' = [row EXCEPT ![i] = n]
        BY <3>1 DEF Closed
      <3> HIDE DEF n
      <3>4. row'[i] = n
        BY <1>1, <1>2, <3>3
      <3>5. ~Live(i) /\ (lateFills = 0 \/ i \notin Buys => row[i].filled = venue[i].traded)
        <4>1. /\ venue[i].status \in Done
              /\ lateFills = 0 \/ i \notin Buys => local[t].snapshot[i].traded = venue[i].traded
          BY <1>1, <1>6, <2>1 DEF Seen
        <4> QED BY <1>6, <1>7, <4>1 DEF Done, Live
      <3>6. RowTrue(i)'
        BY <1>1, <1>6, <3>2, <3>4, <3>5, Disjoint DEF RowTrue, Live
      <3> QED BY <3>2, <3>3, <3>6
    <2>2. CASE local[t].snapshot[i].status \notin TERMINAL /\ row[i].state = "UNKNOWN"
      <3>1. PICK state \in {"PARTIALLY_FILLED", "ACKNOWLEDGED"} : row' = [row EXCEPT ![i].state = state]
        BY <1>0, <2>2 DEF SettleState, BrokerState
      <3> DEFINE n == [row[i] EXCEPT !.state = state]
      <3>2. n \in RowType /\ n.state = state /\ n.filled = row[i].filled /\ n.known = row[i].known
            /\ n.reserve = row[i].reserve
        BY <1>2, Names DEF RowType
      <3>3. row' = [row EXCEPT ![i] = n]
        BY <3>1
      <3> HIDE DEF n
      <3>4. row'[i] = n
        BY <1>1, <1>2, <3>3
      <3>5. state \in WORKING /\ state \notin TERMINAL /\ state # "VALIDATED"
        BY DEF WORKING, TERMINAL
      <3>6. RowTrue(i)'
        BY <1>1, <1>6, <3>2, <3>4, <3>5 DEF RowTrue, Live
      <3> QED BY <3>2, <3>3, <3>6
    <2>3. CASE local[t].snapshot[i].status \notin TERMINAL /\ row[i].state # "UNKNOWN"
      <3>1. row' = row
        BY <1>0, <2>3 DEF SettleState
      <3>2. row' = [row EXCEPT ![i] = row[i]]
        BY <1>2, <3>1
      <3>3. RowTrue(i)'
        BY <1>1, <1>6, <3>1 DEF RowTrue, Live
      <3> QED BY <1>2, <3>2, <3>3
    <2> QED BY <2>1, <2>2, <2>3
  <1> QED BY <1>1, <1>3, <1>4, <1>5, <1>8, RowWrittenAdvance

-----------------------------------------------------------------------------
(* Submission.                                                               *)

\* Reserve: all of the order is reserved, and nothing of it is at the broker.
LEMMA ReserveHolds ==
    ASSUME IInv, OrdersHeld, NEW t \in Threads, Reserve(t) PROVE OrdersHeld'
  <1> USE DEF At
  <1>0. PICK i \in Intents : i = local[t].intent
    BY DEF IInv, Safe, ThreadSafe, Threaded, Reserve
  <1> DEFINE r == [local[t] EXCEPT !.pc = "reserved"]
             earlier == {j \in Intents : Submitted(j)}
             n == [state |-> "VALIDATED", filled |-> 0, known |-> FALSE,
                   reserve |-> UnitReserve[i] * Quantity[i], earlier |-> earlier]
  <1>1. /\ row[i].state = "NONE" /\ dispatchLock \in {None, t}
        /\ row' = [row EXCEPT ![i] = n] /\ local' = [local EXCEPT ![t] = r]
        /\ UNCHANGED <<venue, lateFills>>
    BY <1>0 DEF Reserve, Submitted, MayDispatch, environment
  <1>2. local[t] \in LocalType /\ local \in [Threads -> LocalType] /\ row \in [Intents -> RowType]
    BY Types DEF IInv
  <1>3. UnitReserve[i] \in Nat /\ Quantity[i] \in Nat /\ UnitReserve[i] * Quantity[i] \in Nat
    BY FunctionsAssumption
  <1>4. /\ n \in RowType /\ n.state = "VALIDATED" /\ n.filled = 0 /\ ~n.known
        /\ n.reserve = UnitReserve[i] * Quantity[i]
    <2>1. earlier \in SUBSET Intents
      OBVIOUS
    <2> HIDE DEF earlier
    <2> QED BY <1>3, <2>1, Names DEF RowType
  <1>5. r \in LocalType /\ r.pc = "reserved" /\ r.intent = i /\ r.snapshot = local[t].snapshot
    BY ZenonT(30), <1>0, <1>2, Names DEF LocalType
  <1> HIDE DEF r, n
  <1>6. local'[t] = r /\ row'[i] = n
    BY <1>1, <1>2
  <1>7. venue[i].posts = 0 /\ venue[i].status = "ABSENT"
    BY <1>1 DEF IInv, Safe, Once
  <1>8. RowTrue(i)'
    BY <1>1, <1>4, <1>6, <1>7 DEF OrdersHeld, RowTrue, Live, TERMINAL
  <1>9. Held(t)'
    BY <1>4, <1>5, <1>6 DEF Held, Full, Settling
  <1> QED BY <1>1, <1>4, <1>5, <1>8, <1>9, RowWrittenAdvance

\* MarkSubmitting: a row retired meanwhile is written over, but its intent is stale.
LEMMA MarkSubmittingHolds ==
    ASSUME IInv, OrdersHeld, NEW t \in Threads, MarkSubmitting(t) PROVE OrdersHeld'
  <1> USE DEF At
  <1>0. PICK i \in Intents : i = local[t].intent
    BY DEF IInv, Safe, ThreadSafe, Threaded, MarkSubmitting, Sending
  <1> DEFINE r == [local[t] EXCEPT !.pc = "submitting"]
             n == [row[i] EXCEPT !.state = "SUBMITTING"]
  <1>1. /\ local[t].pc = "reserved" /\ dispatchLock = t /\ venue[i].posts = 0
        /\ row' = [row EXCEPT ![i] = n] /\ local' = [local EXCEPT ![t] = r]
        /\ UNCHANGED <<venue, lateFills>>
    BY <1>0 DEF MarkSubmitting, IInv, Safe, ThreadSafe, Threaded, Locked, Sending, environment
  <1>2. local[t] \in LocalType /\ local \in [Threads -> LocalType] /\ row \in [Intents -> RowType]
        /\ row[i] \in RowType
    BY Types DEF IInv
  <1>4. /\ n \in RowType /\ n.state = "SUBMITTING" /\ n.filled = row[i].filled /\ n.known = row[i].known
        /\ n.reserve = row[i].reserve
    BY <1>2, Names DEF RowType
  <1>5. /\ r \in LocalType /\ r.pc = "submitting" /\ r.intent = i /\ r.snapshot = local[t].snapshot
        /\ r.fresh = local[t].fresh
    BY ZenonT(30), <1>0, <1>2, Names DEF LocalType
  <1> HIDE DEF r, n
  <1>6. local'[t] = r /\ row'[i] = n
    BY <1>1, <1>2
  <1>7. venue[i].status = "ABSENT" /\ RowTrue(i)
    BY <1>1 DEF IInv, Safe, Once, OrdersHeld
  <1>8. RowTrue(i)'
    BY <1>1, <1>4, <1>6, <1>7 DEF RowTrue, Live, TERMINAL
  <1>9. local[t].fresh => Full(i)
    BY <1>0, <1>1 DEF OrdersHeld, Held
  <1>10. Held(t)'
    BY <1>4, <1>5, <1>6, <1>9 DEF Held, Full, Settling
  <1> QED BY <1>1, <1>4, <1>5, <1>8, <1>10, RowWrittenAdvance

\* FinalCheck: a fresh intent is reserved in full, and nothing opposite works.
LEMMA FinalCheckHolds ==
    ASSUME IInv, OrdersHeld, NEW t \in Threads, FinalCheck(t) PROVE OrdersHeld'
  <1> USE DEF At
  <1>0. PICK i \in Intents : i = local[t].intent
    BY DEF IInv, Safe, ThreadSafe, Threaded, FinalCheck, Sending
  <1> DEFINE r == [local[t] EXCEPT !.pc = "checked"]
  <1>1. /\ local[t].pc = "submitting" /\ local[t].fresh /\ row[i].state = "SUBMITTING" /\ OneSide(i)
        /\ dispatchLock = t /\ local' = [local EXCEPT ![t] = r]
        /\ UNCHANGED <<row, venue, lateFills>>
    BY <1>0 DEF FinalCheck, StateValid, OneSide, IInv, Safe, ThreadSafe, Locked, Sending, ledger, environment
  <1>2. local[t] \in LocalType /\ local \in [Threads -> LocalType] /\ row \in [Intents -> RowType]
        /\ row[i] \in RowType
    BY Types DEF IInv
  <1>3. r \in LocalType /\ r.pc = "checked" /\ r.intent = i /\ r.snapshot = local[t].snapshot
    BY ZenonT(30), <1>0, <1>2, Names DEF LocalType
  <1> HIDE DEF r
  <1>4. local'[t] = r
    BY <1>1, <1>2
  <1>5. Full(i) /\ RowTrue(i)
    BY <1>0, <1>1 DEF OrdersHeld, Held
  <1>6. OneSide(i)'
    BY <1>1 DEF OneSide, OtherWorking, Working
  <1>7. Held(t)'
    BY <1>1, <1>3, <1>4, <1>5, <1>6 DEF Held, Full, Settling
  <1>8. RowTrue(i)'
    BY <1>1, <1>5 DEF RowTrue, Live
  <1>9. row' = [row EXCEPT ![i] = row[i]]
    BY <1>1, <1>2
  <1> QED BY <1>1, <1>2, <1>3, <1>7, <1>8, <1>9, RowWrittenAdvance

\* A row closed although its order was never sent.
LEMMA ClosedUnsent ==
    ASSUME IInv, NEW i \in Intents, NEW state \in TERMINAL, venue[i].status = "ABSENT",
           NEW n \in RowType, n.state = state, n.filled = row[i].filled, n.known = row[i].known,
           row'[i] = n, UNCHANGED <<venue, lateFills>>, RowTrue(i)
    PROVE  RowTrue(i)'
  <1>1. row[i].filled = venue[i].traded
    BY HeldTypes, Types DEF IInv, Safe, Bounds, RowType, VenueType
  <1> QED BY <1>1, Disjoint DEF RowTrue, Live

\* The record of a closed row.
LEMMA ClosedRow ==
    ASSUME TypeOK, NEW i \in Intents, NEW state \in TERMINAL, row' = Closed(i, state)
    PROVE  \E n \in RowType : /\ row' = [row EXCEPT ![i] = n] /\ row'[i] = n
                              /\ n.state = state /\ n.filled = row[i].filled /\ n.known = row[i].known
  <1> DEFINE n == [row[i] EXCEPT !.state = state, !.reserve = 0]
  <1>1. row[i] \in RowType /\ row \in [Intents -> RowType]
    BY Types
  <1>2. n \in RowType /\ n.state = state /\ n.filled = row[i].filled /\ n.known = row[i].known
    BY <1>1, Names DEF RowType
  <1>3. row' = [row EXCEPT ![i] = n]
    BY DEF Closed
  <1> HIDE DEF n
  <1> QED BY <1>1, <1>2, <1>3

\* FinalCheckFails: the row is closed, and nothing was sent.
LEMMA FinalCheckFailsHolds ==
    ASSUME IInv, OrdersHeld, NEW t \in Threads, FinalCheckFails(t) PROVE OrdersHeld'
  <1>0. PICK i \in Intents : i = local[t].intent
    BY DEF IInv, Safe, ThreadSafe, Threaded, FinalCheckFails, Sending, At
  <1>1. /\ row' = Closed(i, "INVALIDATED") /\ ReturnBumping(t) /\ dispatchLock = t
        /\ venue[i].status = "ABSENT" /\ UNCHANGED <<venue, lateFills>>
    BY <1>0 DEF FinalCheckFails, At, IInv, Safe, ThreadSafe, Threaded, Locked, Once, Sending, environment
  <1>2. "INVALIDATED" \in TERMINAL
    BY DEF TERMINAL
  <1>3. PICK n \in RowType : /\ row' = [row EXCEPT ![i] = n] /\ row'[i] = n /\ n.state = "INVALIDATED"
                             /\ n.filled = row[i].filled /\ n.known = row[i].known
    BY <1>1, <1>2, ClosedRow DEF IInv
  <1>4. RowTrue(i)'
    BY <1>1, <1>2, <1>3, ClosedUnsent DEF OrdersHeld
  <1> QED BY <1>1, <1>3, <1>4, RowWrittenReturn

\* An order sent while nothing opposite works: the book stays one-sided.
LEMMA SentOneSided ==
    ASSUME IInv, OrdersHeld, NEW i \in Intents, OneSide(i),
           \A j \in Intents \ {i} : venue'[j] = venue[j]
    PROVE  NoOppositeOrdersLive'
  <1> SUFFICES ASSUME NEW j \in Buys, NEW k \in Intents \ Buys, Instrument[j] = Instrument[k]
               PROVE  ~(Live(j)' /\ Live(k)')
    BY DEF NoOppositeOrdersLive
  <1>1. j \in Intents /\ RowTrue(j) /\ RowTrue(k) /\ j # k
    BY SetsAssumption DEF OrdersHeld
  <1>2. CASE i = j
    BY <1>1, <1>2 DEF OneSide, OtherWorking, Working, RowTrue, Live
  <1>3. CASE i = k
    BY <1>1, <1>3 DEF OneSide, OtherWorking, Working, RowTrue, Live
  <1>4. CASE i # j /\ i # k
    BY <1>1, <1>4 DEF OrdersHeld, NoOppositeOrdersLive, Live
  <1> QED BY <1>2, <1>3, <1>4

\* An order that is posted: it has its row, reserved in full.
LEMMA PostedTrue ==
    ASSUME IInv, OrdersHeld, NEW t \in Threads, NEW i \in Intents, dispatchLock = t,
           OneSide(i), Full(i), row[i].state = "SUBMITTING", venue[i].posts = 0,
           NEW status \in {"ABSENT", "INFLIGHT", "OPEN"}, venue' = Posted(i, status), lateFills' = lateFills,
           row'[i].filled = row[i].filled, row'[i].reserve = row[i].reserve,
           row'[i].state \in {"SUBMITTING", "UNKNOWN"},
           \A j \in Intents \ {i} : row'[j] = row[j]
    PROVE  /\ NoOppositeOrdersLive' /\ \A j \in Intents : RowTrue(j)'
           /\ Apart(t) /\ VenueGrows /\ venue'[i].status = status /\ venue'[i].posts = 1
  <1>1. /\ \A j \in Intents \ {i} : venue'[j] = venue[j]
        /\ \A j \in Intents : /\ venue'[j].traded = venue[j].traded
                              /\ venue'[j].cancelAsked = venue[j].cancelAsked
        /\ venue'[i].status = status /\ venue'[i].posts = 1
    BY PostKeeps
  <1>2. venue[i].status = "ABSENT"
    BY DEF IInv, Safe, Once
  <1>3. NoOppositeOrdersLive'
    BY <1>1, SentOneSided
  <1>4. ASSUME NEW j \in Intents PROVE RowTrue(j)'
    <2>1. CASE j # i
      BY <1>1, <2>1 DEF OrdersHeld, RowTrue, Live
    <2>2. CASE j = i
      <3>1. row[i].filled = 0 /\ row[i].reserve = UnitReserve[i] * Quantity[i] /\ Quantity[i] \in Nat
        BY FunctionsAssumption DEF Full
      <3>2. Quantity[i] - row[i].filled = Quantity[i]
        BY <3>1
      <3>3. ~venue[i].cancelAsked \/ i \in Buys
        BY DEF OrdersHeld, RowTrue
      <3> QED BY <1>1, <2>2, <3>1, <3>2, <3>3 DEF RowTrue, Live, WORKING, TERMINAL
    <2> QED BY <2>1, <2>2
  <1>5. Apart(t)
    BY DEF Apart
  <1>6. VenueGrows
    BY <1>1, <1>2, HeldTypes DEF VenueGrows, Done
  <1> QED BY <1>1, <1>3, <1>4, <1>5, <1>6

\* What a thread that is about to send knows.
LEMMA Sendable ==
    ASSUME IInv, OrdersHeld, NEW t \in Threads, local[t].pc = "checked"
    PROVE  \E i \in Intents : /\ i = local[t].intent /\ dispatchLock = t /\ OneSide(i) /\ Full(i)
                              /\ row[i].state = "SUBMITTING" /\ venue[i].posts = 0
  BY DEF IInv, Safe, ThreadSafe, Threaded, Locked, Sending, OrdersHeld, Held

\* Transmit: the order sent is the only one of its side that is new.
LEMMA TransmitHolds ==
    ASSUME IInv, OrdersHeld, NEW t \in Threads, Transmit(t) PROVE OrdersHeld'
  <1> USE DEF At
  <1>0. PICK i \in Intents : /\ i = local[t].intent /\ dispatchLock = t /\ OneSide(i) /\ Full(i)
                             /\ row[i].state = "SUBMITTING" /\ venue[i].posts = 0
    BY Sendable DEF Transmit
  <1>1. PICK answer \in Answers :
           /\ local' = [local EXCEPT ![t] = [@ EXCEPT !.pc = "answered", !.answer = answer]]
           /\ venue' = CASE answer = "NOT_SENT"     -> venue
                         [] answer = "REJECTED"     -> Posted(i, venue[i].status)
                         [] answer = "ACKNOWLEDGED" -> Posted(i, "OPEN")
                         [] answer = "UNKNOWN"      -> Posted(i, "INFLIGHT")
    BY <1>0 DEF Transmit
  <1> DEFINE r == [local[t] EXCEPT !.pc = "answered", !.answer = answer]
  <1>2. local[t] \in LocalType /\ local \in [Threads -> LocalType] /\ UNCHANGED <<row, lateFills>>
    BY Types DEF IInv, Transmit, ledger
  <1>3. r \in LocalType /\ r.pc = "answered" /\ r.intent = i /\ r.answer = answer /\ r.snapshot = local[t].snapshot
    BY ZenonT(30), <1>0, <1>2, Names DEF LocalType
  <1>4. local' = [local EXCEPT ![t] = r]
    BY <1>1
  <1> HIDE DEF r
  <1>5. /\ local'[t] = r /\ SameElsewhere(local, local', t) /\ Lowered(t)
    BY <1>2, <1>3, <1>4, OthersKept
  <1>6. venue[i].status = "ABSENT"
    BY <1>0 DEF IInv, Safe, Once
  <1>7. /\ NoOppositeOrdersLive' /\ \A j \in Intents : RowTrue(j)'
        /\ Apart(t) /\ VenueGrows
        /\ answer \in {"NOT_SENT", "REJECTED"} => venue'[i].status = "ABSENT"
        /\ answer = "ACKNOWLEDGED" => venue'[i].posts > 0
    <2>1. CASE answer = "NOT_SENT"
      <3>1. venue' = venue
        BY <1>1, <2>1
      <3> QED BY <1>2, <1>6, <2>1, <3>1 DEF OrdersHeld, NoOppositeOrdersLive, RowTrue, Live, Apart, VenueGrows
    <2>2. CASE answer # "NOT_SENT"
      <3>1. PICK status \in {"ABSENT", "INFLIGHT", "OPEN"} :
               venue' = Posted(i, status) /\ (answer = "REJECTED" => status = "ABSENT")
        BY <1>1, <1>6, <2>2 DEF Answers
      <3> QED BY <1>0, <1>2, <2>2, <3>1, PostedTrue
    <2> QED BY <2>1, <2>2
  <1>8. Seen(t)'
    BY <1>3, <1>5, <1>7, SeenKept
  <1>9. row'[i].state = "SUBMITTING" /\ Full(i)'
    BY <1>0, <1>2 DEF Full
  <1>10. Held(t)'
    BY <1>3, <1>5, <1>7, <1>9 DEF Held, Settling
  <1> QED BY <1>5, <1>7, <1>8, <1>10, StepHolds

\* TransmitRaises: the same, and the row is UNKNOWN.
LEMMA TransmitRaisesHolds ==
    ASSUME IInv, OrdersHeld, NEW t \in Threads, TransmitRaises(t) PROVE OrdersHeld'
  <1>0. PICK i \in Intents : /\ i = local[t].intent /\ dispatchLock = t /\ OneSide(i) /\ Full(i)
                             /\ row[i].state = "SUBMITTING" /\ venue[i].posts = 0
    BY Sendable DEF TransmitRaises, At
  <1> DEFINE n == [row[i] EXCEPT !.state = "UNKNOWN"]
  <1>1. /\ venue' = Posted(i, "INFLIGHT") /\ row' = [row EXCEPT ![i] = n]
        /\ Return(t) /\ lateFills' = lateFills
    BY <1>0 DEF TransmitRaises
  <1>2. row[i] \in RowType /\ row \in [Intents -> RowType]
    BY Types DEF IInv
  <1>3. n.state = "UNKNOWN" /\ n.filled = row[i].filled /\ n.reserve = row[i].reserve
    BY <1>2 DEF RowType
  <1> HIDE DEF n
  <1>4. row'[i] = n /\ \A j \in Intents \ {i} : row'[j] = row[j]
    BY <1>1, <1>2
  <1>5. NoOppositeOrdersLive' /\ (\A j \in Intents : RowTrue(j)') /\ Apart(t) /\ VenueGrows
    <2>1. /\ row'[i].filled = row[i].filled /\ row'[i].reserve = row[i].reserve
          /\ row'[i].state \in {"SUBMITTING", "UNKNOWN"}
      BY <1>3, <1>4
    <2> QED BY <1>0, <1>1, <1>4, <2>1, PostedTrue
  <1>6. /\ SameElsewhere(local, local', t) /\ Lowered(t)
        /\ local'[t].pc = "idle" /\ local'[t].snapshot = NoSnapshot
    BY <1>1, OthersKeptReturn
  <1>7. Seen(t)' /\ Held(t)'
    BY <1>5, <1>6, SeenKept DEF Held, Settling
  <1> QED BY <1>5, <1>6, <1>7, StepHolds

\* RecordResponse: only an order that never arrived is closed.
LEMMA RecordResponseHolds ==
    ASSUME IInv, OrdersHeld, NEW t \in Threads, RecordResponse(t) PROVE OrdersHeld'
  <1>0. PICK i \in Intents : i = local[t].intent
    BY DEF IInv, Safe, ThreadSafe, Threaded, RecordResponse, At
  <1> DEFINE answer == local[t].answer
  <1>1. /\ local[t].pc = "answered" /\ dispatchLock = t /\ answer \in Answers
        /\ Return(t) \/ ReturnBumping(t)
    BY DEF RecordResponse, At, IInv, Safe, ThreadSafe, Threaded, Locked, environment
  <1>2. UNCHANGED <<venue, lateFills>>
    BY DEF RecordResponse, environment
  <1>3. row[i] \in RowType /\ row \in [Intents -> RowType] /\ RowTrue(i)
    BY Types DEF IInv, OrdersHeld
  <1>4. CASE answer \in {"NOT_SENT", "REJECTED"}
    <2>1. PICK state \in TERMINAL : row' = Closed(i, state)
      BY <1>0, <1>4 DEF RecordResponse, TERMINAL
    <2>2. PICK n \in RowType : /\ row' = [row EXCEPT ![i] = n] /\ row'[i] = n /\ n.state = state
                               /\ n.filled = row[i].filled /\ n.known = row[i].known
      BY <2>1, ClosedRow DEF IInv
    <2>3. venue[i].status = "ABSENT"
      BY <1>0, <1>1, <1>4 DEF OrdersHeld, Held
    <2>4. RowTrue(i)'
      BY <1>2, <1>3, <2>2, <2>3, ClosedUnsent
    <2> QED BY <1>1, <1>2, <2>2, <2>4, RowWrittenReturn
  <1>5. CASE answer = "ACKNOWLEDGED"
    <2> DEFINE n == [row[i] EXCEPT !.state = "ACKNOWLEDGED", !.known = TRUE]
    <2>1. row' = [row EXCEPT ![i] = n]
      BY <1>0, <1>5 DEF RecordResponse
    <2>2. /\ n \in RowType /\ n.state = "ACKNOWLEDGED" /\ n.filled = row[i].filled /\ n.known = TRUE
          /\ n.reserve = row[i].reserve
      BY <1>3, Names DEF RowType
    <2> HIDE DEF n
    <2>3. row'[i] = n /\ venue[i].posts > 0
      BY <1>0, <1>1, <1>3, <1>5, <2>1 DEF OrdersHeld, Held
    <2>4. RowTrue(i)'
      BY <1>2, <1>3, <2>2, <2>3 DEF RowTrue, Live, WORKING, TERMINAL
    <2> QED BY <1>1, <1>2, <2>1, <2>2, <2>4, RowWrittenReturn
  <1>6. CASE answer = "UNKNOWN"
    <2> DEFINE n == [row[i] EXCEPT !.state = "UNKNOWN"]
    <2>1. row' = [row EXCEPT ![i] = n]
      BY <1>0, <1>6 DEF RecordResponse
    <2>2. /\ n \in RowType /\ n.state = "UNKNOWN" /\ n.filled = row[i].filled /\ n.known = row[i].known
          /\ n.reserve = row[i].reserve
      BY <1>3, Names DEF RowType
    <2> HIDE DEF n
    <2>3. row'[i] = n
      BY <1>3, <2>1
    <2>4. RowTrue(i)'
      BY <1>2, <1>3, <2>2, <2>3 DEF RowTrue, Live, WORKING, TERMINAL
    <2> QED BY <1>1, <1>2, <2>1, <2>2, <2>4, RowWrittenReturn
  <1> QED BY <1>1, <1>4, <1>5, <1>6 DEF Answers

-----------------------------------------------------------------------------
(* Protection and cancellation.                                              *)

\* A row retired before its order was sent.
LEMMA UnsentClosed ==
    ASSUME IInv, OrdersHeld, NEW i \in Intents, row[i].state = "VALIDATED", NEW n \in RowType,
           n.state = "INVALIDATED", n.filled = row[i].filled, n.known = row[i].known,
           row'[i] = n, UNCHANGED <<venue, lateFills>>
    PROVE  RowTrue(i)'
  <1>1. RowTrue(i) /\ venue[i].posts = 0
    BY DEF OrdersHeld, RowTrue
  <1>2. venue[i].status = "ABSENT" /\ "INVALIDATED" \in TERMINAL
    BY <1>1 DEF IInv, Safe, Once, TERMINAL
  <1> QED BY <1>1, <1>2, ClosedUnsent

\* InvalidateUnsubmitted: rows of other threads are retired, and their intents are stale.
LEMMA InvalidateUnsubmittedHolds ==
    ASSUME IInv, OrdersHeld, NEW t \in Threads, InvalidateUnsubmitted(t) PROVE OrdersHeld'
  <1> DEFINE unsent == {i \in Buys : row[i].state = "VALIDATED"}
             r == [local[t] EXCEPT !.pc = "retire"]
             next == [local EXCEPT ![t] = r]
  <1>1. /\ row' = [i \in Intents |->
                     IF i \in unsent THEN [row[i] EXCEPT !.state = "INVALIDATED", !.reserve = 0] ELSE row[i]]
        /\ local' = IF unsent = {} THEN next ELSE Bumped(next)
        /\ UNCHANGED <<venue, lateFills>>
    BY DEF InvalidateUnsubmitted, environment
  <1>2. local[t] \in LocalType /\ \A i \in Intents : row[i] \in RowType
    BY Types DEF IInv
  <1>3. r \in LocalType /\ r.pc = "retire" /\ r.snapshot = local[t].snapshot
    BY ZenonT(30), <1>2, Names DEF LocalType
  <1> HIDE DEF r
  <1>4. /\ SameElsewhere(local, local', t) /\ Lowered(t)
        /\ local'[t].pc = "retire" /\ local'[t].snapshot = local[t].snapshot
        /\ unsent # {} => \A u \in Threads : ~local'[u].fresh
    <2>1. local' = next \/ local' = Bumped(next)
      BY <1>1
    <2>2. SameElsewhere(local, local', t) /\ Lowered(t)
      BY <1>3, <2>1, OthersKept
    <2>3. local'[t].pc = "retire" /\ local'[t].snapshot = local[t].snapshot
      BY <1>3, <2>1, Advanced DEF IInv
    <2>4. CASE unsent # {}
      <3>1. local' = Bumped(next)
        BY <1>1, <2>4
      <3> QED BY <1>3, <2>2, <2>3, <3>1, OthersKept
    <2> QED BY <2>2, <2>3, <2>4
  <1>5. ASSUME NEW i \in Intents
        PROVE  RowTrue(i)' /\ \/ row'[i] = row[i]
                              \/ /\ i \in unsent /\ row'[i].state = "INVALIDATED"
                                 /\ row'[i].filled = row[i].filled
    <2>1. CASE i \notin unsent
      BY <1>1, <2>1 DEF OrdersHeld, RowTrue, Live
    <2>2. CASE i \in unsent
      <3> DEFINE n == [row[i] EXCEPT !.state = "INVALIDATED", !.reserve = 0]
      <3>1. row'[i] = n
        BY <1>1, <2>2
      <3>2. n \in RowType /\ n.state = "INVALIDATED" /\ n.filled = row[i].filled /\ n.known = row[i].known
        <4>1. row[i] \in RowType
          BY <1>2
        <4> QED BY <4>1, Names DEF RowType
      <3> HIDE DEF n
      <3> QED BY <1>1, <2>2, <3>1, <3>2, UnsentClosed
    <2> QED BY <2>1, <2>2
  <1>6. Apart(t) /\ VenueGrows
    <2>1. \A i \in unsent : i \in Buys /\ row[i].state = "VALIDATED"
      OBVIOUS
    <2> HIDE DEF unsent
    <2> QED BY <1>1, <1>4, <1>5, <2>1 DEF Apart, VenueGrows
  <1>7. NoOppositeOrdersLive'
    BY <1>1 DEF OrdersHeld, NoOppositeOrdersLive, Live
  <1>8. Seen(t)' /\ Held(t)'
    BY <1>4, <1>6, SeenKept DEF Held, Settling
  <1> QED BY <1>4, <1>5, <1>6, <1>7, <1>8, StepHolds

\* RetireThesis: one entry is closed, or its cancel begins.
LEMMA RetireThesisHolds ==
    ASSUME IInv, OrdersHeld, NEW t \in Threads, NEW i \in Intents, RetireThesis(t, i) PROVE OrdersHeld'
  <1>1. /\ local[t].pc = "protect" /\ dispatchLock = None /\ UNCHANGED <<venue, lateFills>>
    BY DEF RetireThesis, At, environment
  <1>2. local[t] \in LocalType /\ local \in [Threads -> LocalType] /\ row \in [Intents -> RowType]
    BY Types DEF IInv
  <1>3. CASE row[i].state = "VALIDATED"
    <2> DEFINE r == local[t]
    <2>1. row' = Closed(i, "INVALIDATED") /\ local' = Bumped([local EXCEPT ![t] = r]) /\ "INVALIDATED" \in TERMINAL
      <3>1. local = [local EXCEPT ![t] = r]
        BY <1>2
      <3> QED BY <1>3, <3>1 DEF RetireThesis, TERMINAL
    <2>2. PICK n \in RowType : /\ row' = [row EXCEPT ![i] = n] /\ row'[i] = n /\ n.state = "INVALIDATED"
                               /\ n.filled = row[i].filled /\ n.known = row[i].known
      BY <2>1, ClosedRow DEF IInv
    <2>3. RowTrue(i)'
      BY <1>1, <1>3, <2>2, UnsentClosed
    <2>4. local'[t].pc = "protect"
      BY <1>1, <1>2, <2>1, Advanced DEF IInv
    <2>5. Held(t)'
      BY <2>4 DEF Held, Settling
    <2> QED BY <1>1, <1>2, <2>1, <2>2, <2>3, <2>5, RowWrittenAdvance
  <1>4. CASE row[i].state # "VALIDATED"
    <2> DEFINE r == [local[t] EXCEPT !.pc = "cancel", !.todo = {i}, !.after = "exit", !.held = TRUE]
    <2>1. local' = [local EXCEPT ![t] = r] /\ row' = row /\ i \in Buys
      BY <1>4 DEF RetireThesis
    <2>2. r \in LocalType /\ r.pc = "cancel" /\ r.snapshot = local[t].snapshot /\ r.todo \subseteq Buys
      BY ZenonT(30), <1>2, <2>1, Names DEF LocalType
    <2> HIDE DEF r
    <2>3. r.pc \notin Busy
      BY <2>2 DEF Busy, Sending, Settling
    <2> QED BY <1>1, <2>1, <2>2, <2>3, MoveHolds
  <1> QED BY <1>3, <1>4

\* A working row that takes another working state.
LEMMA StillWorking ==
    ASSUME IInv, OrdersHeld, NEW i \in Intents, NEW state \in WORKING \ {"VALIDATED"},
           row' = [row EXCEPT ![i].state = state],
           venue'[i].status = venue[i].status, venue'[i].posts = venue[i].posts,
           i \notin Buys => venue'[i].cancelAsked = venue[i].cancelAsked
    PROVE  \E n \in RowType : /\ row' = [row EXCEPT ![i] = n] /\ row'[i] = n /\ n.state = state
                              /\ RowTrue(i)'
  <1> DEFINE n == [row[i] EXCEPT !.state = state]
  <1>1. row[i] \in RowType /\ row \in [Intents -> RowType] /\ RowTrue(i)
    BY Types DEF IInv, OrdersHeld
  <1>2. /\ n \in RowType /\ n.state = state /\ n.filled = row[i].filled /\ n.known = row[i].known
        /\ n.reserve = row[i].reserve
    BY <1>1, Names DEF RowType
  <1>3. row' = [row EXCEPT ![i] = n]
    OBVIOUS
  <1> HIDE DEF n
  <1>4. row'[i] = n
    BY <1>1, <1>3
  <1>5. RowTrue(i)'
    BY <1>1, <1>2, <1>4, Disjoint DEF RowTrue, Live
  <1> QED BY <1>2, <1>3, <1>4, <1>5

\* RequestCancel: what is known was posted, so the state to restore is a working one.
LEMMA RequestCancelHolds ==
    ASSUME IInv, OrdersHeld, NEW t \in Threads, NEW i \in Intents, RequestCancel(t, i) PROVE OrdersHeld'
  <1> DEFINE r == [local[t] EXCEPT !.pc = "canceling", !.order = i, !.prior = row[i].state,
                                   !.todo = local[t].todo \ {i}]
  <1>1. /\ dispatchLock \in {None, t} /\ row[i].known /\ row[i].state \notin TERMINAL
        /\ i \in local[t].todo /\ local[t].pc = "cancel"
        /\ row' = [row EXCEPT ![i].state = "CANCEL_REQUESTED"]
        /\ local' = [local EXCEPT ![t] = r] /\ UNCHANGED <<venue, lateFills>>
    BY DEF RequestCancel, First, At, MayDispatch, environment
  <1>2. local[t] \in LocalType /\ local \in [Threads -> LocalType] /\ row[i] \in RowType /\ row[i].state \in States
    BY Types DEF IInv, RowType
  <1>3. /\ r \in LocalType /\ r.pc = "canceling" /\ r.prior = row[i].state /\ r.snapshot = local[t].snapshot
        /\ r.order = i /\ r.todo = local[t].todo \ {i}
    BY <1>2, Names DEF LocalType
  <1> HIDE DEF r
  <1>4. row[i].state \in WORKING \ {"VALIDATED"}
    <2>1. row[i].state # "NONE"
      BY <1>1 DEF IInv, Safe, Once
    <2>2. row[i].state # "VALIDATED"
      BY <1>1, HeldTypes DEF OrdersHeld, RowTrue, IInv
    <2> QED BY <1>1, <1>2, <2>1, <2>2 DEF States
  <1>5. "CANCEL_REQUESTED" \in WORKING \ {"VALIDATED"}
    BY DEF WORKING
  <1>6. PICK n \in RowType : /\ row' = [row EXCEPT ![i] = n] /\ row'[i] = n
                             /\ n.state = "CANCEL_REQUESTED" /\ RowTrue(i)'
    <2>1. venue'[i] = venue[i] /\ row' = [row EXCEPT ![i].state = "CANCEL_REQUESTED"]
      BY <1>1
    <2> QED BY <1>5, <2>1, StillWorking
  <1>7. local'[t] = r
    BY <1>1, <1>2
  <1>8. Held(t)'
    <2>1. local[t].todo \subseteq Buys /\ i \in Buys
      BY <1>1 DEF OrdersHeld, Held
    <2> QED BY <1>3, <1>4, <1>6, <1>7, <2>1 DEF Held, Settling
  <1> QED BY <1>1, <1>3, <1>6, <1>8, RowWrittenAdvance

\* The record of a thread whose cancel is over.
LEMMA CancelOver ==
    ASSUME TypeOK, NEW t \in Threads, local' = Canceled(t)
    PROVE  \E r \in LocalType : /\ local' = [local EXCEPT ![t] = r] /\ r.pc = "cancel"
                                /\ r.snapshot = local[t].snapshot /\ r.todo = local[t].todo
  <1> DEFINE r == [local[t] EXCEPT !.pc = "cancel", !.order = None, !.prior = "NONE"]
  <1>1. r \in LocalType /\ r.pc = "cancel" /\ r.snapshot = local[t].snapshot /\ r.todo = local[t].todo
    BY ZenonT(30), Types, Names DEF LocalType
  <1>2. local' = [local EXCEPT ![t] = r]
    BY DEF Canceled
  <1> HIDE DEF r
  <1> QED BY <1>1, <1>2

\* CancelNotSent: the state that comes back is a working one.
LEMMA CancelNotSentHolds ==
    ASSUME IInv, OrdersHeld, NEW t \in Threads, CancelNotSent(t) PROVE OrdersHeld'
  <1>0. PICK i \in Intents : i = local[t].order
    BY DEF IInv, Safe, ThreadSafe, Threaded, CancelNotSent, At
  <1>1. /\ dispatchLock = t /\ local[t].prior \in WORKING \ {"VALIDATED"} /\ local[t].todo \subseteq Buys
        /\ row' = [row EXCEPT ![i].state = local[t].prior] /\ UNCHANGED <<venue, lateFills>>
    BY <1>0 DEF CancelNotSent, Restored, At, IInv, Safe, ThreadSafe, Locked, OrdersHeld, Held, environment
  <1>2. PICK n \in RowType : row' = [row EXCEPT ![i] = n] /\ RowTrue(i)'
    BY <1>1, StillWorking
  <1>3. CASE Return(t)
    BY <1>1, <1>2, <1>3, RowWrittenReturn
  <1>4. CASE local' = Canceled(t)
    <2>1. PICK r \in LocalType : /\ local' = [local EXCEPT ![t] = r] /\ r.pc = "cancel"
                                 /\ r.snapshot = local[t].snapshot /\ r.todo = local[t].todo
      BY <1>4, CancelOver DEF IInv
    <2>2. Held(t)'
      <3>1. local'[t].pc = "cancel" /\ local'[t].todo = local[t].todo
        BY <2>1, Advanced DEF IInv
      <3> QED BY <1>1, <3>1 DEF Held, Settling
    <2> QED BY <1>1, <1>2, <2>1, <2>2, RowWrittenAdvance
  <1> QED BY <1>3, <1>4 DEF CancelNotSent

\* CancelAcknowledged and CancelUncertain: the order's status at the broker is what it was.
LEMMA CancelSentHolds ==
    ASSUME IInv, OrdersHeld, NEW t \in Threads, CancelAcknowledged(t) \/ CancelUncertain(t)
    PROVE  OrdersHeld'
  <1>0. PICK i \in Intents : i = local[t].order
    BY DEF IInv, Safe, ThreadSafe, Threaded, CancelAcknowledged, CancelUncertain, At
  <1>1. /\ dispatchLock = t /\ local' = Canceled(t) /\ lateFills' = lateFills
        /\ row' = row \/ row' = [row EXCEPT ![i].state = "UNKNOWN"]
        /\ local[t].pc = "canceling"
    BY <1>0 DEF CancelAcknowledged, CancelUncertain, At, IInv, Safe, ThreadSafe, Locked, ledger
  <1>2. \E asked \in BOOLEAN : venue' = [venue EXCEPT ![i].cancelAsked = asked]
    <2>1. CASE CancelAcknowledged(t)
      BY <1>0, <2>1 DEF CancelAcknowledged
    <2>2. CASE CancelUncertain(t)
      <3>1. PICK reached \in BOOLEAN : venue' = [venue EXCEPT ![i].cancelAsked = @ \/ reached]
        BY <1>0, <2>2 DEF CancelUncertain
      <3> QED BY <3>1
    <2> QED BY <2>1, <2>2
  <1>3. \A j \in Intents : /\ venue'[j].status = venue[j].status /\ venue'[j].traded = venue[j].traded
                           /\ venue'[j].posts = venue[j].posts
                           /\ j \notin Buys => venue'[j].cancelAsked = venue[j].cancelAsked
    <2>1. i \in Buys
      BY <1>0, <1>1 DEF OrdersHeld, Held
    <2> QED BY <1>2, <2>1, Types DEF IInv, VenueType
  <1>4. ASSUME NEW j \in Intents PROVE RowTrue(j)'
    <2>1. CASE row'[j] = row[j]
      BY <1>1, <1>3, <2>1 DEF OrdersHeld, RowTrue, Live
    <2>2. CASE row'[j] # row[j]
      <3>1. j = i /\ row' = [row EXCEPT ![i].state = "UNKNOWN"] /\ "UNKNOWN" \in WORKING \ {"VALIDATED"}
        BY <1>1, <2>2, Types DEF IInv, WORKING
      <3> QED BY <1>3, <3>1, StillWorking
    <2> QED BY <2>1, <2>2
  <1>5. NoOppositeOrdersLive'
    BY <1>3, SetsAssumption DEF OrdersHeld, NoOppositeOrdersLive, Live
  <1>6. Apart(t) /\ VenueGrows
    BY <1>1, <1>3 DEF Apart, VenueGrows
  <1>7. PICK r \in LocalType : /\ local' = [local EXCEPT ![t] = r] /\ r.pc = "cancel"
                               /\ r.snapshot = local[t].snapshot /\ r.todo = local[t].todo
    BY <1>1, CancelOver DEF IInv
  <1>8. SameElsewhere(local, local', t) /\ Lowered(t)
    BY <1>7, OthersKept
  <1>9. local'[t].pc = "cancel" /\ local'[t].snapshot = local[t].snapshot /\ local'[t].todo \subseteq Buys
    <2>1. local[t].todo \subseteq Buys
      BY <1>1 DEF OrdersHeld, Held
    <2> QED BY <1>7, <2>1, Advanced DEF IInv
  <1>10. Seen(t)' /\ Held(t)'
    BY <1>6, <1>9, SeenKept DEF Held, Settling
  <1> QED BY <1>4, <1>5, <1>6, <1>8, <1>10, StepHolds

-----------------------------------------------------------------------------
(* The broker, time, the operator and a process death.                       *)

\* A step of no thread.
LEMMA EnvironmentHolds ==
    ASSUME IInv, OrdersHeld, Apart(None), Lowered(None), VenueGrows, SameElsewhere(local, local', None),
           \A i \in Intents : RowTrue(i)', NoOppositeOrdersLive'
    PROVE  OrdersHeld'
  <1> SUFFICES ASSUME NEW u \in Threads PROVE Seen(u)' /\ Held(u)'
    BY DEF OrdersHeld
  <1>1. u \in Threads \ {None}
    BY SetsAssumption
  <1>2. local'[u].snapshot = local[u].snapshot
    BY <1>1 DEF SameElsewhere
  <1> QED BY <1>1, <1>2, SeenKept, OthersHold

\* A step of the broker on an order that was sent, which brings no order to life.
LEMMA VenueHolds ==
    ASSUME IInv, OrdersHeld, NEW i \in Intents, NEW v \in VenueType, venue' = [venue EXCEPT ![i] = v],
           UNCHANGED <<row, local>>, lateFills' \in Nat, lateFills' = 0 => lateFills = 0,
           venue[i].status # "ABSENT", v.posts = venue[i].posts,
           v.status \in {"INFLIGHT", "OPEN"} => Live(i),
           ~Live(i) => v.status \in Done /\ lateFills' # 0 /\ i \in Buys,
           i \notin Buys => ~v.cancelAsked /\ v.status # "CANCELED"
    PROVE  OrdersHeld'
  <1>1. venue'[i] = v /\ \A j \in Intents \ {i} : venue'[j] = venue[j]
    BY Types DEF IInv
  <1>2. Live(i) => venue[i].status \notin Done
    BY DEF Live, Done
  <1>3. VenueGrows
    BY <1>1, <1>2 DEF VenueGrows
  <1>4. Apart(None)
    BY <1>1 DEF Apart
  <1>5. ASSUME NEW j \in Intents PROVE RowTrue(j)'
    <2>1. CASE j # i
      BY <1>1, <2>1 DEF OrdersHeld, RowTrue, Live
    <2>2. CASE j = i
      BY <1>1, <2>2, Disjoint DEF OrdersHeld, RowTrue, Live
    <2> QED BY <2>1, <2>2
  <1>6. NoOppositeOrdersLive'
    <2>1. \A j \in Intents : Live(j)' => Live(j)
      BY <1>1 DEF Live
    <2> QED BY <2>1, SetsAssumption DEF OrdersHeld, NoOppositeOrdersLive
  <1>7. SameElsewhere(local, local', None) /\ Lowered(None)
    BY DEF SameElsewhere, Lowered
  <1> QED BY <1>3, <1>4, <1>5, <1>6, <1>7, EnvironmentHolds

\* Every step of the broker is one.
LEMMA BrokerHolds ==
    ASSUME IInv, OrdersHeld, NEW i \in Intents, Broker(i) PROVE OrdersHeld'
  <1>1. venue[i] \in VenueType /\ venue \in [Intents -> VenueType] /\ lateFills \in Nat
    BY Types DEF IInv, TypeOK
  <1>2. CASE Arrive(i) \/ CancelTakesEffect(i) \/ SessionClose(i)
    <2>1. PICK status \in {"OPEN", "CANCELED", "EXPIRED"} :
             /\ venue' = [venue EXCEPT ![i].status = status] /\ Live(i) /\ UNCHANGED <<row, local, lateFills>>
             /\ status = "CANCELED" => venue[i].cancelAsked
      BY <1>2 DEF Arrive, CancelTakesEffect, SessionClose, Live, ledger
    <2> DEFINE v == [venue[i] EXCEPT !.status = status]
    <2>2. /\ v \in VenueType /\ v.posts = venue[i].posts /\ v.status = status
          /\ v.cancelAsked = venue[i].cancelAsked
      BY <1>1, Names DEF VenueType
    <2>3. venue' = [venue EXCEPT ![i] = v]
      BY <2>1
    <2> HIDE DEF v
    <2>4. venue[i].status # "ABSENT" /\ RowTrue(i)
      BY <2>1 DEF Live, OrdersHeld
    <2>5. i \notin Buys => ~v.cancelAsked /\ v.status # "CANCELED"
      BY <2>1, <2>2, <2>4 DEF RowTrue
    <2> QED BY <1>1, <2>1, <2>2, <2>3, <2>4, <2>5, VenueHolds
  <1>3. CASE Fill(i) \/ LateFill(i)
    <2> DEFINE n == venue[i].traded + 1
               s == IF n = Quantity[i] THEN "FILLED" ELSE venue[i].status
               v == [venue[i] EXCEPT !.traded = n, !.status = s]
    <2>1. /\ venue' = [venue EXCEPT ![i] = v] /\ UNCHANGED <<row, local>>
          /\ \/ venue[i].status = "OPEN" /\ lateFills' = lateFills
             \/ venue[i].status = "CANCELED" /\ lateFills' = lateFills + 1
      BY <1>3 DEF Fill, LateFill, OneMoreTraded, ledger
    <2>2. n \in Nat /\ s \in {"FILLED", venue[i].status} /\ venue[i].status \in VenueStatus
      BY <1>1 DEF VenueType
    <2> HIDE DEF n, s
    <2>3. /\ v \in VenueType /\ v.posts = venue[i].posts /\ v.status = s
          /\ v.cancelAsked = venue[i].cancelAsked
      BY <1>1, <2>2, Names DEF VenueType
    <2> HIDE DEF v
    <2>4. /\ v.status \in {"INFLIGHT", "OPEN"} => Live(i)
          /\ ~Live(i) => v.status \in Done /\ lateFills' # 0 /\ i \in Buys
          /\ lateFills' \in Nat /\ (lateFills' = 0 => lateFills = 0)
          /\ venue[i].status # "ABSENT"
          /\ i \notin Buys => ~v.cancelAsked /\ v.status # "CANCELED"
      <3>1. RowTrue(i)
        BY DEF OrdersHeld
      <3> QED BY <1>1, <2>1, <2>2, <2>3, <3>1 DEF Live, Done, RowTrue
    <2> QED BY <2>1, <2>3, <2>4, VenueHolds
  <1> QED BY <1>2, <1>3 DEF Broker

\* Time and the operator write no row and reach no order.
LEMMA ExpireOrPauseHolds ==
    ASSUME IInv, OrdersHeld, Pause \/ \E i \in Intents : Expire(i) PROVE OrdersHeld'
  <1>1. UNCHANGED <<row, venue, lateFills>> /\ (local' = local \/ local' = Bumped(local))
    BY DEF Pause, Expire, ledger, environment
  <1>2. SameElsewhere(local, local', None) /\ Lowered(None)
    <2>1. CASE local' = local
      BY <2>1 DEF SameElsewhere, Lowered
    <2>2. CASE local' = Bumped(local)
      <3>1. local \in [Threads -> LocalType]
        BY Types DEF IInv
      <3>2. \A u \in Threads : ~local'[u].fresh
        BY <2>2, <3>1 DEF Bumped, LocalType
      <3> QED BY <2>2, <3>1, <3>2, BumpedFields DEF Lowered
    <2> QED BY <1>1, <2>1, <2>2
  <1>3. Apart(None) /\ VenueGrows
    BY <1>1 DEF Apart, VenueGrows
  <1>4. NoOppositeOrdersLive' /\ \A i \in Intents : RowTrue(i)'
    BY <1>1 DEF OrdersHeld, NoOppositeOrdersLive, RowTrue, Live
  <1> QED BY <1>2, <1>3, <1>4, EnvironmentHolds

\* Crash: what was being sent is UNKNOWN, which is a working state.
LEMMA CrashHolds == ASSUME IInv, OrdersHeld, Crash PROVE OrdersHeld'
  <1>1. /\ row' = [i \in Intents |-> RestartRow(i)] /\ local' = [t \in Threads |-> Idle]
        /\ UNCHANGED <<venue, lateFills>>
    BY DEF Crash
  <1>2. ASSUME NEW i \in Intents PROVE RowTrue(i)'
    <2>1. row[i] \in RowType /\ RowTrue(i)
      BY Types DEF IInv, OrdersHeld
    <2>2. row'[i] = RestartRow(i)
      BY <1>1
    <2>3. /\ row'[i].filled = row[i].filled /\ row'[i].known = row[i].known /\ row'[i].reserve = row[i].reserve
          /\ row'[i].state = row[i].state \/ (row'[i].state = "UNKNOWN" /\ row[i].state = "SUBMITTING")
      <3>1. CASE row[i].state = "SUBMITTING"
        <4> DEFINE n == [row[i] EXCEPT !.state = "UNKNOWN"]
        <4>1. row'[i] = n
          BY <2>2, <3>1 DEF RestartRow
        <4>2. /\ n.filled = row[i].filled /\ n.known = row[i].known /\ n.reserve = row[i].reserve
              /\ n.state = "UNKNOWN"
          BY <2>1 DEF RowType
        <4> HIDE DEF n
        <4> QED BY <3>1, <4>1, <4>2
      <3>2. CASE row[i].state # "SUBMITTING"
        BY <2>2, <3>2 DEF RestartRow
      <3> QED BY <3>1, <3>2
    <2> QED BY <1>1, <2>1, <2>3 DEF RowTrue, Live, WORKING, TERMINAL
  <1>3. NoOppositeOrdersLive'
    BY <1>1 DEF OrdersHeld, NoOppositeOrdersLive, Live
  <1>4. ASSUME NEW t \in Threads PROVE Seen(t)' /\ Held(t)'
    <2>1. local'[t].pc = "idle" /\ local'[t].snapshot = NoSnapshot
      BY <1>1 DEF Idle
    <2>2. VenueGrows
      BY <1>1 DEF VenueGrows
    <2> QED BY <2>1, <2>2, SeenKept DEF Held, Settling
  <1> QED BY <1>2, <1>3, <1>4 DEF OrdersHeld

-----------------------------------------------------------------------------
(* The invariant, and what follows from it.                                  *)

\* Nothing is at the broker when the ledger is new.
LEMMA InitHolds == Init => OrdersHeld
  <1> SUFFICES ASSUME Init PROVE OrdersHeld
    OBVIOUS
  <1>1. \A i \in Intents : /\ row[i].state = "NONE" /\ row[i].known = FALSE
                           /\ venue[i].status = "ABSENT" /\ venue[i].cancelAsked = FALSE
    BY DEF Init
  <1>2. \A t \in Threads : local[t].pc = "idle" /\ local[t].snapshot = NoSnapshot
    BY DEF Init, Idle
  <1>3. \A i \in Intents : RowTrue(i)
    BY <1>1, Disjoint DEF RowTrue, Live
  <1>4. NoOppositeOrdersLive
    BY <1>1, SetsAssumption DEF NoOppositeOrdersLive, Live
  <1>5. \A t \in Threads : Seen(t)
    BY <1>2 DEF Seen, NoSnapshot, TERMINAL
  <1>6. \A t \in Threads : Held(t)
    BY <1>2 DEF Held, Settling
  <1> QED BY <1>3, <1>4, <1>5, <1>6 DEF OrdersHeld

\* Every step keeps it.
LEMMA NextHolds == IInv /\ OrdersHeld /\ [Next]_vars => OrdersHeld'
  <1> SUFFICES ASSUME IInv, OrdersHeld, [Next]_vars PROVE OrdersHeld'
    OBVIOUS
  <1>1. ASSUME NEW t \in Threads, Begin(t) \/ Reconcile(t) \/ ResumeCommit(t) PROVE OrdersHeld'
    BY <1>1, BeginHolds, QuietStepsHold, ObserveHolds, ReconcileBeginHolds, ApplyFillHolds, SettleStateHolds
       DEF Begin, Reconcile
  <1>2. ASSUME NEW t \in Threads, Submit(t) PROVE OrdersHeld'
    BY <1>2, BeginHolds, QuietStepsHold, ReserveHolds, MarkSubmittingHolds, FinalCheckHolds,
       FinalCheckFailsHolds, TransmitHolds, TransmitRaisesHolds, RecordResponseHolds
       DEF Submit
  <1>3. ASSUME NEW t \in Threads, Retire(t) PROVE OrdersHeld'
    BY <1>3, QuietStepsHold, InvalidateUnsubmittedHolds, RetireThesisHolds, RequestCancelHolds,
       CancelNotSentHolds, CancelSentHolds
       DEF Retire
  <1>4. ASSUME NEW i \in Intents, Broker(i) \/ Expire(i) PROVE OrdersHeld'
    BY <1>4, BrokerHolds, ExpireOrPauseHolds
  <1>5. CASE Pause \/ Crash
    BY <1>5, ExpireOrPauseHolds, CrashHolds
  <1>6. CASE UNCHANGED vars
    <2>1. UNCHANGED <<row, local, venue, lateFills>>
      BY <1>6 DEF vars, ledger, environment
    <2>2. Apart(None) /\ Lowered(None) /\ VenueGrows /\ SameElsewhere(local, local', None)
      BY <2>1 DEF Apart, Lowered, VenueGrows, SameElsewhere
    <2>3. NoOppositeOrdersLive' /\ \A i \in Intents : RowTrue(i)'
      BY <2>1 DEF OrdersHeld, NoOppositeOrdersLive, RowTrue, Live
    <2> QED BY <2>2, <2>3, EnvironmentHolds
  <1> QED BY <1>1, <1>2, <1>3, <1>4, <1>5, <1>6 DEF Next

\* What the ledger and the threads know of the orders is true, always.
THEOREM OrdersAreHeld == Spec => []OrdersHeld
  BY InitHolds, NextHolds, Invariance, PTL DEF Spec

\* A closed row is closed at the broker too, and has booked all that traded there: a
\* cancel's acknowledgement, a refused order and a stale snapshot are not taken for more
\* than they show (reconcile and submit, execution.py).
THEOREM ClosedIsDone == Spec => []ClosedMeansDone
  <1>1. OrdersHeld => ClosedMeansDone
    BY Disjoint DEF OrdersHeld, RowTrue, ClosedMeansDone
  <1> QED BY <1>1, OrdersAreHeld, PTL

\* An entry that may be live has all its unfilled shares reserved, although protect()
\* releases reservations without dispatch_lock: a released intent is stale, and a stale
\* intent is not sent.
THEOREM EntryReserved == Spec => []LiveEntryReserved
  <1>1. OrdersHeld => LiveEntryReserved
    BY SetsAssumption DEF OrdersHeld, RowTrue, LiveEntryReserved
  <1> QED BY <1>1, OrdersAreHeld, PTL

\* The broker never has a live buy and a live sell of one instrument: the final check
\* sees every working row, and what may be live has one.
THEOREM NoOpposite == Spec => []NoOppositeOrdersLive
  <1>1. OrdersHeld => NoOppositeOrdersLive
    BY DEF OrdersHeld
  <1> QED BY <1>1, OrdersAreHeld, PTL

-----------------------------------------------------------------------------
(* The funds: what the rows reserve and still ask for is there.            *)

\* What a row's reservation stands for.
RowFunds(i) ==
    /\ row[i].state \notin WORKING => row[i].reserve = 0
    /\ i \notin Buys => row[i].reserve = 0
    /\ i \in Buys /\ row[i].state \in WORKING /\ venue[i].posts > 0 =>
          row[i].reserve = UnitReserve[i] * (Quantity[i] - row[i].filled)

\* The sums are taken over these functions of the rows.
Reserves == [i \in Intents |-> row[i].reserve]
Booked == [i \in Intents |-> IF i \in Buys THEN row[i].filled ELSE -row[i].filled]
Asked == [i \in Intents |-> IF i \in Working \ Buys THEN Quantity[i] - row[i].filled ELSE 0]

\* What the rows reserve is in the strategy's cash, if no canceled entry filled late.
CashBacked == lateFills = 0 => SumFunctionOnSet(Reserves, Intents) <= cash

\* A holding is the initial one and what the orders have booked since, and the exits at
\* work ask for no more of it than there is.
HoldingBacked(x) ==
    /\ holdings[x] = InitialHoldings[x] + SumFunctionOnSet(Booked, Of(x))
    /\ SumFunctionOnSet(Asked, Of(x)) <= holdings[x]

FundsHeld ==
    /\ \A i \in Intents : RowFunds(i)
    /\ CashBacked
    /\ \A x \in Instruments : HoldingBacked(x)

\* Three things a step does to a row that books nothing: it leaves the money alone, it
\* closes the row and frees its reservation, or it takes an entry up again that was
\* retired meanwhile and was never posted.
Unmoved(i) ==
    /\ row'[i].filled = row[i].filled
    /\ row'[i].reserve = row[i].reserve
    /\ row'[i].state \in WORKING <=> row[i].state \in WORKING

Shut(i) ==
    /\ row'[i].filled = row[i].filled
    /\ row'[i].reserve = 0
    /\ row'[i].state \notin WORKING

Taken(i) ==
    /\ i \in Buys
    /\ row'[i].filled = row[i].filled
    /\ row'[i].reserve = row[i].reserve
    /\ row[i].state \notin WORKING
    /\ venue'[i].posts = 0

\* Only a row that is at work and reserved in full is posted.
PostsFull(i) ==
    venue'[i].posts > 0 => venue[i].posts > 0 \/ (Full(i) /\ row[i].state \in WORKING)

\* A step that books nothing and reserves nothing.
NoFundsMove ==
    /\ UNCHANGED <<cash, holdings>>
    /\ lateFills' = 0 => lateFills = 0
    /\ \A i \in Intents : (Unmoved(i) \/ Shut(i) \/ Taken(i)) /\ PostsFull(i)

\* The types the sums need.
LEMMA FundTypes ==
    ASSUME TypeOK
    PROVE  /\ IsFiniteSet(Intents) /\ \A x : IsFiniteSet(Of(x)) /\ Of(x) \subseteq Intents
           /\ cash \in Int /\ \A x \in Instruments : holdings[x] \in Int /\ InitialHoldings[x] \in Nat
           /\ \A i \in Intents : /\ row[i].filled \in Nat /\ row[i].reserve \in Nat
                                 /\ Quantity[i] \in Nat \ {0} /\ UnitReserve[i] \in Nat /\ Price[i] \in Nat
                                 /\ Instrument[i] \in Instruments
  <1>1. IsFiniteSet(Intents)
    BY SetsAssumption
  <1>2. ASSUME NEW x PROVE IsFiniteSet(Of(x)) /\ Of(x) \subseteq Intents
    <2>1. Of(x) \subseteq Intents
      BY DEF Of
    <2> QED BY <1>1, <2>1, FS_Subset
  <1>3. cash \in Int /\ \A x \in Instruments : holdings[x] \in Int /\ InitialHoldings[x] \in Nat
    BY FunctionsAssumption DEF TypeOK
  <1>4. ASSUME NEW i \in Intents PROVE row[i].filled \in Nat /\ row[i].reserve \in Nat
    BY Types DEF RowType
  <1>5. \A i \in Intents : /\ Quantity[i] \in Nat \ {0} /\ UnitReserve[i] \in Nat /\ Price[i] \in Nat
                           /\ Instrument[i] \in Instruments
    BY FunctionsAssumption
  <1> QED BY <1>1, <1>2, <1>3, <1>4, <1>5

\* A filled quantity is within the order, in this state and the next.
LEMMA WithinOrder == ASSUME IInv, NEW i \in Intents PROVE row[i].filled <= Quantity[i]
  BY FunctionsAssumption, FundTypes, Types DEF IInv, Safe, Bounds, VenueType

\* The value of a sum's function at a row.
LEMMA FundsAt ==
    ASSUME NEW i \in Intents
    PROVE  /\ Reserves[i] = row[i].reserve
           /\ Booked[i] = IF i \in Buys THEN row[i].filled ELSE -row[i].filled
           /\ Asked[i] = IF row[i].state \in WORKING /\ i \notin Buys THEN Quantity[i] - row[i].filled ELSE 0
  BY DEF Reserves, Booked, Asked, Working

LEMMA FundsAtNext ==
    ASSUME NEW i \in Intents
    PROVE  /\ Reserves'[i] = row'[i].reserve
           /\ Booked'[i] = IF i \in Buys THEN row'[i].filled ELSE -row'[i].filled
           /\ Asked'[i] = IF row'[i].state \in WORKING /\ i \notin Buys THEN Quantity[i] - row'[i].filled ELSE 0
  BY DEF Reserves, Booked, Asked, Working

\* A step that moves no funds keeps them.
LEMMA NoFundsMoveHolds ==
    ASSUME IInv, FundsHeld, NoFundsMove PROVE FundsHeld'
  <1> DEFINE f == Reserves
             g == Reserves'
             b == Booked
             c == Booked'
             a == Asked
             d == Asked'
  <1>0. TypeOK
    BY DEF IInv
  <1>1. ASSUME NEW i \in Intents
        PROVE  /\ RowFunds(i)'
               /\ f[i] \in Int /\ g[i] \in Int /\ g[i] <= f[i]
               /\ b[i] \in Int /\ c[i] = b[i]
               /\ a[i] \in Int /\ d[i] \in Int /\ d[i] <= a[i]
    <2>1. RowFunds(i)
      BY DEF FundsHeld
    <2>2. /\ row[i].filled \in Nat /\ row[i].reserve \in Nat /\ Quantity[i] \in Nat /\ row[i].filled <= Quantity[i]
          /\ UnitReserve[i] \in Nat
      BY <1>0, FundTypes, WithinOrder
    <2>3. /\ f[i] = row[i].reserve /\ g[i] = row'[i].reserve
          /\ b[i] = (IF i \in Buys THEN row[i].filled ELSE -row[i].filled)
          /\ c[i] = (IF i \in Buys THEN row'[i].filled ELSE -row'[i].filled)
          /\ a[i] = (IF row[i].state \in WORKING /\ i \notin Buys THEN Quantity[i] - row[i].filled ELSE 0)
          /\ d[i] = (IF row'[i].state \in WORKING /\ i \notin Buys THEN Quantity[i] - row'[i].filled ELSE 0)
      BY FundsAt, FundsAtNext
    <2>4. PostsFull(i) /\ (Unmoved(i) \/ Shut(i) \/ Taken(i))
      BY DEF NoFundsMove
    <2>5. RowFunds(i)'
      <3>1. CASE Unmoved(i)
        <4>1. Full(i) => row[i].filled = 0 /\ row[i].reserve = UnitReserve[i] * (Quantity[i] - row[i].filled)
          <5>1. row[i].filled = 0 => Quantity[i] - row[i].filled = Quantity[i]
            BY <2>2
          <5> QED BY <5>1 DEF Full
        <4> QED BY <2>1, <2>4, <3>1, <4>1 DEF RowFunds, Unmoved, PostsFull
      <3>2. CASE Shut(i)
        BY <3>2 DEF Shut, RowFunds
      <3>3. CASE Taken(i)
        BY <2>1, <3>3 DEF Taken, RowFunds
      <3> QED BY <2>4, <3>1, <3>2, <3>3
    <2> HIDE DEF f, g, b, c, a, d
    <2>6. row'[i].filled = row[i].filled /\ row'[i].reserve \in {0, row[i].reserve}
          /\ (row'[i].state \in WORKING /\ i \notin Buys => row[i].state \in WORKING)
      BY <2>4 DEF Unmoved, Shut, Taken
    <2> QED BY <2>2, <2>3, <2>5, <2>6
  <1> HIDE DEF f, g, b, c, a, d
  <1>2. CashBacked'
    <2>1. SumFunctionOnSet(g, Intents) <= SumFunctionOnSet(f, Intents)
      BY <1>0, <1>1, FundTypes, SumMonotone
    <2>2. SumFunctionOnSet(g, Intents) \in Int /\ SumFunctionOnSet(f, Intents) \in Int
      BY <1>0, <1>1, FundTypes, SumInt
    <2>3. lateFills' = 0 => SumFunctionOnSet(f, Intents) <= cash'
      BY DEF FundsHeld, CashBacked, NoFundsMove, f
    <2>4. lateFills' = 0 => SumFunctionOnSet(g, Intents) <= cash'
      <3>1. cash' \in Int
        BY <1>0, FundTypes DEF NoFundsMove
      <3> QED BY <2>1, <2>2, <2>3, <3>1
    <2> QED BY <2>4 DEF CashBacked, g
  <1>3. ASSUME NEW x \in Instruments PROVE HoldingBacked(x)'
    <2>0. IsFiniteSet(Of(x)) /\ Of(x) \subseteq Intents
      BY <1>0, FundTypes
    <2>1. SumFunctionOnSet(b, Of(x)) = SumFunctionOnSet(c, Of(x))
      BY <1>1, <2>0, SumSame
    <2>2. SumFunctionOnSet(d, Of(x)) <= SumFunctionOnSet(a, Of(x))
      BY <1>1, <2>0, SumMonotone
    <2>3. SumFunctionOnSet(d, Of(x)) \in Int /\ SumFunctionOnSet(a, Of(x)) \in Int
      BY <1>1, <2>0, SumInt
    <2>4. HoldingBacked(x) /\ holdings'[x] = holdings[x] /\ holdings[x] \in Int
      BY <1>0, FundTypes DEF FundsHeld, NoFundsMove
    <2>5. holdings'[x] = InitialHoldings[x] + SumFunctionOnSet(c, Of(x))
      BY <2>1, <2>4 DEF HoldingBacked, b
    <2>6. SumFunctionOnSet(d, Of(x)) <= holdings'[x]
      <3>1. SumFunctionOnSet(a, Of(x)) <= holdings'[x]
        BY <2>4 DEF HoldingBacked, a
      <3> QED BY <2>2, <2>3, <2>4, <3>1
    <2> QED BY <2>5, <2>6 DEF HoldingBacked, c, d, Of
  <1> QED BY <1>1, <1>2, <1>3 DEF FundsHeld

\* Reserve: the check left room for the reservation, or for the shares the exit asks.
LEMMA ReserveFunds ==
    ASSUME IInv, FundsHeld, NEW t \in Threads, Reserve(t) PROVE FundsHeld'
  <1>0. TypeOK /\ \E i \in Intents : i = local[t].intent
    BY DEF IInv, Safe, ThreadSafe, Threaded, Reserve, At
  <1>1. PICK i \in Intents : i = local[t].intent
    BY <1>0
  <1> DEFINE n == [state |-> "VALIDATED", filled |-> 0, known |-> FALSE,
                   reserve |-> UnitReserve[i] * Quantity[i],
                   earlier |-> {j \in Intents : Submitted(j)}]
  <1>2. /\ row[i].state = "NONE" /\ StateValid(t, i) /\ row' = [row EXCEPT ![i] = n]
        /\ UNCHANGED <<cash, holdings, venue, lateFills>>
    BY <1>1 DEF Reserve, Submitted, environment
  <1>3. n.state = "VALIDATED" /\ n.filled = 0 /\ n.reserve = UnitReserve[i] * Quantity[i]
    OBVIOUS
  <1> HIDE DEF n
  <1>4. /\ row'[i].state = "VALIDATED" /\ row'[i].filled = 0 /\ row'[i].reserve = UnitReserve[i] * Quantity[i]
        /\ \A j \in Intents \ {i} : row'[j] = row[j]
    BY <1>0, <1>2, <1>3, Types
  <1>5. /\ UnitReserve[i] \in Nat /\ Quantity[i] \in Nat \ {0} /\ UnitReserve[i] * Quantity[i] \in Nat
        /\ i \notin Buys => UnitReserve[i] = 0
        /\ row[i].filled \in Nat /\ row[i].reserve \in Nat /\ Instrument[i] \in Instruments
    BY <1>0, FundTypes, CashAssumption, FunctionsAssumption
  <1>6. venue[i].posts = 0 /\ row[i].filled = 0 /\ row[i].reserve = 0
    <2>1. venue[i].posts = 0 /\ row[i].filled = 0
      BY <1>2, <1>5, HeldTypes, Types DEF IInv, Safe, Once, Bounds
    <2> QED BY <1>2, <2>1, Disjoint DEF FundsHeld, RowFunds
  <1> DEFINE f == Reserves
             g == Reserves'
             b == Booked
             c == Booked'
             a == Asked
             d == Asked'
  <1>7. \A j \in Intents : /\ f[j] \in Nat /\ b[j] \in Int /\ a[j] \in Nat
                           /\ g[j] \in Nat /\ c[j] = b[j] /\ d[j] \in Nat
                           /\ j # i => g[j] = f[j] /\ d[j] = a[j]
                           /\ row[j].state \notin WORKING => f[j] = 0
    <2> SUFFICES ASSUME NEW j \in Intents
                 PROVE  /\ f[j] \in Nat /\ b[j] \in Int /\ a[j] \in Nat
                        /\ g[j] \in Nat /\ c[j] = b[j] /\ d[j] \in Nat
                        /\ j # i => g[j] = f[j] /\ d[j] = a[j]
                        /\ row[j].state \notin WORKING => f[j] = 0
      OBVIOUS
    <2>1. /\ row[j].filled \in Nat /\ row[j].reserve \in Nat /\ Quantity[j] \in Nat /\ row[j].filled <= Quantity[j]
          /\ row[j].state \notin WORKING => row[j].reserve = 0
      BY <1>0, FundTypes, WithinOrder DEF FundsHeld, RowFunds
    <2>2. /\ f[j] = row[j].reserve /\ g[j] = row'[j].reserve
          /\ b[j] = (IF j \in Buys THEN row[j].filled ELSE -row[j].filled)
          /\ c[j] = (IF j \in Buys THEN row'[j].filled ELSE -row'[j].filled)
          /\ a[j] = (IF row[j].state \in WORKING /\ j \notin Buys THEN Quantity[j] - row[j].filled ELSE 0)
          /\ d[j] = (IF row'[j].state \in WORKING /\ j \notin Buys THEN Quantity[j] - row'[j].filled ELSE 0)
      BY FundsAt, FundsAtNext
    <2> HIDE DEF f, g, b, c, a, d
    <2>3. CASE j # i
      BY <1>4, <2>1, <2>2, <2>3
    <2>4. CASE j = i
      BY <1>4, <1>5, <1>6, <2>1, <2>2, <2>4
    <2> QED BY <2>3, <2>4
  <1>8. /\ f[i] = 0 /\ g[i] = UnitReserve[i] * Quantity[i]
        /\ a[i] = 0 /\ d[i] = IF i \in Buys THEN 0 ELSE Quantity[i]
    BY <1>2, <1>4, <1>5, <1>6, FundsAt, FundsAtNext, Disjoint
  <1>9. ASSUME i \in Buys PROVE UnitReserve[i] * Quantity[i] <= cash - SumFunctionOnSet(f, OtherWorking(i))
    BY <1>2, <1>9 DEF StateValid, Reserved, Reserves
  <1>10. ASSUME i \notin Buys
         PROVE  Quantity[i] <= holdings[Instrument[i]] - PendingSells(i)
    BY <1>2, <1>10 DEF StateValid
  <1> HIDE DEF f, g, b, c, a, d
  <1>11. CashBacked'
    <2>1. SumFunctionOnSet(g, Intents) = SumFunctionOnSet(f, Intents) + g[i] - f[i]
      <3>1. \A j \in Intents \ {i} : f[j] \in Int /\ f[j] = g[j]
        BY <1>7
      <3>2. f[i] \in Int /\ g[i] \in Int
        BY <1>7
      <3> QED BY <1>0, <3>1, <3>2, FundTypes, SumBut
    <2>2. SumFunctionOnSet(f, OtherWorking(i)) = SumFunctionOnSet(f, Intents)
      <3>1. \A j \in Intents \ OtherWorking(i) : f[j] = 0
        BY <1>7, <1>8 DEF OtherWorking, Working
      <3>2. OtherWorking(i) \in SUBSET Intents /\ \A j \in Intents : f[j] \in Int
        BY <1>7 DEF OtherWorking, Working
      <3> QED BY <1>0, <3>1, <3>2, FundTypes, SumWhere
    <2>3. SumFunctionOnSet(f, Intents) \in Int /\ cash \in Int
      <3>1. \A j \in Intents : f[j] \in Int
        BY <1>7
      <3> QED BY <1>0, <3>1, FundTypes, SumInt
    <2>4. lateFills' = 0 => SumFunctionOnSet(g, Intents) <= cash'
      <3>1. CASE i \in Buys
        BY <1>2, <1>5, <1>8, <1>9, <2>1, <2>2, <2>3, <3>1
      <3>2. CASE i \notin Buys
        <4>1. g[i] = 0
          BY <1>5, <1>8, <3>2
        <4>2. lateFills' = 0 => SumFunctionOnSet(f, Intents) <= cash
          BY <1>2 DEF FundsHeld, CashBacked, f
        <4> QED BY <1>2, <1>8, <2>1, <2>3, <4>1, <4>2
      <3> QED BY <3>1, <3>2
    <2> QED BY <2>4 DEF CashBacked, g
  <1>12. ASSUME NEW x \in Instruments PROVE HoldingBacked(x)'
    <2>0. IsFiniteSet(Of(x)) /\ Of(x) \subseteq Intents
      BY <1>0, FundTypes
    <2>1. SumFunctionOnSet(b, Of(x)) = SumFunctionOnSet(c, Of(x))
      BY <1>7, <2>0, SumSame
    <2>2. HoldingBacked(x) /\ holdings'[x] = holdings[x] /\ holdings[x] \in Int
      BY <1>0, <1>2, FundTypes DEF FundsHeld
    <2>3. holdings'[x] = InitialHoldings[x] + SumFunctionOnSet(c, Of(x))
      BY <2>1, <2>2 DEF HoldingBacked, b
    <2>4. SumFunctionOnSet(a, Of(x)) \in Int /\ SumFunctionOnSet(a, Of(x)) <= holdings[x]
      <3>1. \A j \in Of(x) : a[j] \in Int
        BY <1>7, <2>0
      <3> QED BY <2>0, <2>2, <3>1, SumInt DEF HoldingBacked, a
    <2>5. SumFunctionOnSet(d, Of(x)) <= holdings'[x]
      <3>1. CASE i \in Of(x) \ Buys
        <4>1. SumFunctionOnSet(d, Of(x)) = SumFunctionOnSet(a, Of(x)) + d[i] - a[i]
          <5>1. \A j \in Of(x) \ {i} : a[j] \in Int /\ a[j] = d[j]
            BY <1>7, <2>0
          <5>2. a[i] \in Int /\ d[i] \in Int /\ i \in Of(x)
            BY <1>7, <3>1
          <5> QED BY <2>0, <5>1, <5>2, SumBut
        <4>2. PendingSells(i) = SumFunctionOnSet(a, Of(x))
          <5> DEFINE S == (Of(x) \cap OtherWorking(i)) \ Buys
                     rest == [j \in Intents |-> Quantity[j] - row[j].filled]
          <5>1. PendingSells(i) = SumFunctionOnSet(rest, S)
            BY <3>1 DEF PendingSells, Of
          <5>2. \A j \in S : rest[j] \in Int /\ a[j] = rest[j]
            BY <1>0, FundTypes, FundsAt DEF OtherWorking, Working, a
          <5>3. \A j \in Of(x) \ S : a[j] = 0
            BY <1>8, <2>0, FundsAt DEF OtherWorking, Working, a
          <5>4. S \in SUBSET Of(x)
            OBVIOUS
          <5> HIDE DEF S, rest
          <5> QED BY <2>0, <5>1, <5>2, <5>3, <5>4, SumWhere
        <4>3. Instrument[i] = x
          BY <3>1 DEF Of
        <4> QED BY <1>5, <1>8, <1>10, <2>2, <2>4, <3>1, <4>1, <4>2, <4>3
      <3>2. CASE i \notin Of(x) \ Buys
        <4>1. \A j \in Of(x) : d[j] \in Int /\ d[j] = a[j]
          BY <1>7, <1>8, <2>0, <3>2
        <4>2. SumFunctionOnSet(d, Of(x)) = SumFunctionOnSet(a, Of(x))
          BY <2>0, <4>1, SumSame
        <4> QED BY <2>2, <2>4, <4>2
      <3> QED BY <3>1, <3>2
    <2> QED BY <2>3, <2>5 DEF HoldingBacked, c, d, Of
  <1>13. ASSUME NEW j \in Intents PROVE RowFunds(j)'
    <2>1. CASE j = i
      BY <1>2, <1>4, <1>5, <1>6, <2>1, Disjoint DEF RowFunds
    <2>2. CASE j # i
      BY <1>2, <1>4, <2>2 DEF FundsHeld, RowFunds
    <2> QED BY <2>1, <2>2
  <1> QED BY <1>11, <1>12, <1>13 DEF FundsHeld

\* What a share costs is within what is reserved for it.
LEMMA CostWithinReserve ==
    ASSUME NEW u \in Nat, NEW p \in Nat, p <= u, NEW q \in Nat, NEW m \in Nat, NEW n \in Nat, m <= n, n <= q
    PROVE  u * (q - n) + (n - m) * p <= u * (q - m)
  <1>1. PICK d \in Nat : n = m + d
    <2>1. n - m \in Nat /\ n = m + (n - m)
      OBVIOUS
    <2> QED BY <2>1
  <1>2. PICK e \in Nat : u = p + e
    <2>1. u - p \in Nat /\ u = p + (u - p)
      OBVIOUS
    <2> QED BY <2>1
  <1>3. e * d \in Nat /\ p * d \in Nat
    OBVIOUS
  <1>4. u * (q - m) = u * (q - n) + u * d
    BY <1>1
  <1>5. u * d = p * d + e * d
    BY <1>2
  <1>6. (n - m) * p = p * d
    BY <1>1
  <1>7. u * (q - n) \in Int /\ u * d \in Int
    OBVIOUS
  <1> QED BY <1>3, <1>4, <1>5, <1>6, <1>7

\* ApplyFill, when it books shares: the row was at work, and what it reserved pays for them.
LEMMA BookFunds ==
    ASSUME IInv, OrdersHeld, FundsHeld, NEW t \in Threads, NEW i \in Intents, ApplyFill(t, i),
           ~Older(i, local[t].snapshot[i].traded),
           ~Refused(i, local[t].snapshot[i].traded - row[i].filled)
    PROVE  FundsHeld'
  <1> DEFINE traded == local[t].snapshot[i].traded
             delta == traded - row[i].filled
             state == FillState(i, traded)
             reserve == IF state \in WORKING THEN UnitReserve[i] * (Quantity[i] - traded) ELSE 0
             n == [row[i] EXCEPT !.state = state, !.filled = traded, !.known = TRUE, !.reserve = reserve]
             sign == IF i \in Buys THEN 1 ELSE -1
  <1>0. TypeOK
    BY DEF IInv
  <1>1. /\ local[t].pc = "settling" /\ i \in local[t].todo
        /\ row' = [row EXCEPT ![i] = n]
        /\ cash' = cash - sign * delta * Price[i]
        /\ holdings' = [holdings EXCEPT ![Instrument[i]] = holdings[Instrument[i]] + sign * delta]
        /\ UNCHANGED <<venue, lateFills>>
    BY DEF ApplyFill, At, environment
  <1>2. /\ traded \in Nat /\ row[i].filled \in Nat /\ Quantity[i] \in Nat \ {0} /\ row[i].filled < traded
        /\ traded <= venue[i].traded /\ venue[i].traded \in Nat /\ traded <= Quantity[i]
    BY <1>0, HeldTypes, FundTypes, WithinOrder DEF IInv, Safe, Bounds, Older
  <1>3. lateFills = 0 \/ i \notin Buys => row[i].state \in WORKING
    <2>1. row[i].state # "NONE" /\ row[i].state \in States /\ RowTrue(i)
      BY <1>0, <1>1, HeldTypes DEF IInv, Safe, ThreadSafe, Threaded, Settling, OrdersHeld
    <2> QED BY <1>2, <2>1 DEF RowTrue, States
  <1>4. venue[i].posts > 0
    <2>1. local[t].snapshot[i].status # "ABSENT"
      BY <1>1 DEF OrdersHeld, Held, Settling
    <2> QED BY <2>1 DEF OrdersHeld, Seen
  <1>5. row[i].state \in WORKING => (state \in WORKING <=> traded # Quantity[i])
    BY DEF FillState, WORKING
  <1>6. /\ row'[i].filled = traded /\ row'[i].state = state /\ row'[i].reserve = reserve
        /\ \A j \in Intents \ {i} : row'[j] = row[j]
    BY <1>0, <1>1, Types DEF RowType
  <1>7. /\ UnitReserve[i] \in Nat /\ Price[i] \in Nat /\ Instrument[i] \in Instruments
        /\ IF i \in Buys THEN Price[i] <= UnitReserve[i] ELSE UnitReserve[i] = 0
        /\ cash \in Int
    BY <1>0, FundTypes, CashAssumption
  <1>8. /\ UnitReserve[i] * (Quantity[i] - traded) \in Nat
        /\ delta \in Nat /\ delta * Price[i] \in Nat /\ Quantity[i] - traded \in Nat
    <2> HIDE DEF traded
    <2>1. Quantity[i] - traded \in Nat /\ traded - row[i].filled \in Nat
      BY <1>2
    <2> QED BY <1>7, <2>1
  <1> DEFINE f == Reserves
             g == Reserves'
             b == Booked
             c == Booked'
             a == Asked
             d == Asked'
  <1> HIDE DEF state, traded, n
  <1>9. /\ g[i] = reserve
        /\ b[i] = (IF i \in Buys THEN row[i].filled ELSE -row[i].filled)
        /\ c[i] = (IF i \in Buys THEN traded ELSE -traded)
        /\ a[i] = (IF i \notin Buys THEN Quantity[i] - row[i].filled ELSE 0)
        /\ d[i] = (IF i \notin Buys THEN Quantity[i] - traded ELSE 0)
    BY <1>2, <1>3, <1>5, <1>6, FundsAt, FundsAtNext
  <1>10. lateFills = 0 => f[i] = UnitReserve[i] * (Quantity[i] - row[i].filled)
    <2>1. RowFunds(i) /\ f[i] = row[i].reserve
      BY FundsAt DEF FundsHeld
    <2>2. UnitReserve[i] = 0 => UnitReserve[i] * (Quantity[i] - row[i].filled) = 0
      BY <1>2
    <2> HIDE DEF f
    <2> QED BY <1>3, <1>4, <1>7, <2>1, <2>2 DEF RowFunds
  <1>11. \A j \in Intents : /\ f[j] \in Int /\ b[j] \in Int /\ a[j] \in Int
                            /\ g[j] \in Int /\ c[j] \in Int /\ d[j] \in Int
                            /\ j # i => g[j] = f[j] /\ c[j] = b[j] /\ d[j] = a[j]
    <2> SUFFICES ASSUME NEW j \in Intents
                 PROVE  /\ f[j] \in Int /\ b[j] \in Int /\ a[j] \in Int
                        /\ g[j] \in Int /\ c[j] \in Int /\ d[j] \in Int
                        /\ j # i => g[j] = f[j] /\ c[j] = b[j] /\ d[j] = a[j]
      OBVIOUS
    <2>1. /\ row[j].filled \in Nat /\ row[j].reserve \in Nat /\ Quantity[j] \in Nat
      BY <1>0, FundTypes
    <2>2. /\ f[j] = row[j].reserve /\ g[j] = row'[j].reserve
          /\ b[j] = (IF j \in Buys THEN row[j].filled ELSE -row[j].filled)
          /\ c[j] = (IF j \in Buys THEN row'[j].filled ELSE -row'[j].filled)
          /\ a[j] = (IF row[j].state \in WORKING /\ j \notin Buys THEN Quantity[j] - row[j].filled ELSE 0)
          /\ d[j] = (IF row'[j].state \in WORKING /\ j \notin Buys THEN Quantity[j] - row'[j].filled ELSE 0)
      BY FundsAt, FundsAtNext
    <2>3. reserve \in Int
      BY <1>8
    <2> HIDE DEF f, g, b, c, a, d, reserve
    <2>4. CASE j # i
      BY <1>6, <2>1, <2>2, <2>4
    <2>5. CASE j = i
      BY <1>2, <1>6, <2>1, <2>2, <2>3, <2>5
    <2> QED BY <2>4, <2>5
  <1> HIDE DEF f, g, b, c, a, d
  <1>12. CashBacked'
    <2> SUFFICES ASSUME lateFills' = 0 PROVE SumFunctionOnSet(g, Intents) <= cash'
      BY DEF CashBacked, g
    <2>1. SumFunctionOnSet(g, Intents) = SumFunctionOnSet(f, Intents) + g[i] - f[i]
      BY <1>0, <1>11, FundTypes, SumBut
    <2>2. SumFunctionOnSet(f, Intents) \in Int /\ SumFunctionOnSet(f, Intents) <= cash
      BY <1>0, <1>1, <1>11, FundTypes, SumInt DEF FundsHeld, CashBacked, f
    <2>3. f[i] = UnitReserve[i] * (Quantity[i] - row[i].filled) /\ f[i] \in Int
      BY <1>1, <1>10, <1>11
    <2>4. g[i] \in Int /\ g[i] <= UnitReserve[i] * (Quantity[i] - traded)
      BY <1>8, <1>9
    <2>5. CASE i \in Buys
      <3>1. UnitReserve[i] * (Quantity[i] - traded) + delta * Price[i] <= f[i]
        BY <1>2, <1>7, <2>3, <2>5, CostWithinReserve
      <3>2. cash' = cash - delta * Price[i]
        BY <1>1, <1>8, <2>5
      <3> HIDE DEF delta
      <3> QED BY <1>7, <1>8, <2>1, <2>2, <2>3, <2>4, <3>1, <3>2
    <2>6. CASE i \notin Buys
      <3>1. UnitReserve[i] * (Quantity[i] - traded) = 0 /\ f[i] = 0
        BY <1>2, <1>7, <2>3, <2>6
      <3>2. cash' = cash + delta * Price[i]
        BY <1>1, <1>7, <1>8, <2>6
      <3> HIDE DEF delta
      <3> QED BY <1>7, <1>8, <2>1, <2>2, <2>3, <2>4, <3>1, <3>2
    <2> QED BY <2>5, <2>6
  <1>13. ASSUME NEW x \in Instruments PROVE HoldingBacked(x)'
    <2>0. IsFiniteSet(Of(x)) /\ Of(x) \subseteq Intents
      BY <1>0, FundTypes
    <2>1. HoldingBacked(x) /\ holdings[x] \in Int /\ holdings \in [Instruments -> Int] /\ InitialHoldings[x] \in Int
      BY <1>0, FundTypes DEF FundsHeld, TypeOK
    <2>2. /\ SumFunctionOnSet(b, Of(x)) \in Int /\ SumFunctionOnSet(a, Of(x)) \in Int
          /\ holdings[x] = InitialHoldings[x] + SumFunctionOnSet(b, Of(x))
          /\ SumFunctionOnSet(a, Of(x)) <= holdings[x]
      BY <1>11, <2>0, <2>1, SumInt DEF HoldingBacked, b, a
    <2>3. /\ holdings'[x] = InitialHoldings[x] + SumFunctionOnSet(c, Of(x))
          /\ SumFunctionOnSet(d, Of(x)) <= holdings'[x]
      <3>1. CASE i \in Of(x)
        <4>1. holdings'[x] = holdings[x] + sign * delta
          BY <1>1, <2>1, <3>1 DEF Of
        <4>2. /\ SumFunctionOnSet(c, Of(x)) = SumFunctionOnSet(b, Of(x)) + c[i] - b[i]
              /\ SumFunctionOnSet(d, Of(x)) = SumFunctionOnSet(a, Of(x)) + d[i] - a[i]
          BY <1>11, <2>0, <3>1, SumBut
        <4> QED BY <1>2, <1>8, <1>9, <2>1, <2>2, <4>1, <4>2
      <3>2. CASE i \notin Of(x)
        <4>1. Instrument[i] # x /\ holdings'[x] = holdings[x]
          BY <1>1, <2>1, <3>2 DEF Of
        <4>2. /\ SumFunctionOnSet(c, Of(x)) = SumFunctionOnSet(b, Of(x))
              /\ SumFunctionOnSet(d, Of(x)) = SumFunctionOnSet(a, Of(x))
          BY <1>11, <2>0, <3>2, SumSame
        <4> QED BY <2>2, <4>1, <4>2
      <3> QED BY <3>1, <3>2
    <2> QED BY <2>3 DEF HoldingBacked, c, d, Of
  <1>14. ASSUME NEW j \in Intents PROVE RowFunds(j)'
    <2>1. CASE j = i
      <3>1. i \notin Buys => UnitReserve[i] * (Quantity[i] - traded) = 0
        BY <1>2, <1>7
      <3> QED BY <1>6, <2>1, <3>1 DEF RowFunds
    <2>2. CASE j # i
      BY <1>1, <1>6, <2>2 DEF FundsHeld, RowFunds
    <2> QED BY <2>1, <2>2
  <1> QED BY <1>12, <1>13, <1>14 DEF FundsHeld

\* A row that takes another state, or is only known from now on, moves no funds.
LEMMA StateMoves ==
    ASSUME TypeOK, NEW i \in Intents, NEW state, row' = [row EXCEPT ![i].state = state],
           state \in WORKING <=> row[i].state \in WORKING
    PROVE  \A j \in Intents : Unmoved(j)
  BY Types DEF Unmoved, RowType

LEMMA KnownMoves ==
    ASSUME TypeOK, NEW i \in Intents, row' = [row EXCEPT ![i].known = TRUE]
    PROVE  \A j \in Intents : Unmoved(j)
  BY Types DEF Unmoved, RowType

LEMMA ClosedMoves ==
    ASSUME TypeOK, NEW i \in Intents, NEW state, state \notin WORKING, row' = Closed(i, state)
    PROVE  \A j \in Intents : Unmoved(j) \/ Shut(j)
  BY Types DEF Unmoved, Shut, Closed, RowType

LEMMA StillMoves ==
    ASSUME UNCHANGED row PROVE \A j \in Intents : Unmoved(j)
  BY DEF Unmoved

\* The two steps of a reconciliation that write a row, when they book nothing.
LEMMA ReconcileMoves ==
    ASSUME IInv, OrdersHeld, NEW t \in Threads, NEW i \in Intents,
           \/ SettleState(t)
           \/ /\ ApplyFill(t, i)
              /\ \/ Older(i, local[t].snapshot[i].traded)
                 \/ Refused(i, local[t].snapshot[i].traded - row[i].filled)
    PROVE  NoFundsMove
  <1> USE DEF At, environment
  <1>0. TypeOK
    BY DEF IInv
  <1>1. UNCHANGED <<cash, holdings, venue, lateFills>>
    BY DEF SettleState, ApplyFill
  <1>2. CASE ApplyFill(t, i) /\ (\/ Older(i, local[t].snapshot[i].traded)
                                 \/ Refused(i, local[t].snapshot[i].traded - row[i].filled))
    <2>1. row' = [row EXCEPT ![i].known = TRUE]
      BY <1>2 DEF ApplyFill
    <2> QED BY <1>0, <1>1, <2>1, KnownMoves DEF NoFundsMove, PostsFull
  <1>3. CASE SettleState(t)
    <2>1. PICK k \in Intents : k = local[t].order
      BY <1>3 DEF SettleState, IInv, Safe, ThreadSafe, Threaded
    <2>2. \/ \E state \in TERMINAL : row' = Closed(k, state)
          \/ row[k].state = "UNKNOWN" /\ row' = [row EXCEPT ![k].state = BrokerState(local[t].snapshot[k])]
          \/ row' = row
      <3>1. {"FILLED", "PARTIAL_CANCELED"} \subseteq TERMINAL
        BY DEF TERMINAL
      <3> QED BY <1>3, <2>1, <3>1 DEF SettleState
    <2>3. BrokerState(local[t].snapshot[k]) \in WORKING /\ "UNKNOWN" \in WORKING
      BY DEF BrokerState, WORKING
    <2>4. \A j \in Intents : Unmoved(j) \/ Shut(j)
      BY <1>0, <2>2, <2>3, ClosedMoves, StateMoves, StillMoves, Disjoint
    <2> QED BY <1>1, <2>4 DEF NoFundsMove, PostsFull
  <1> QED BY <1>2, <1>3

\* Marking an intent SUBMITTING writes over a row that was retired meanwhile.
LEMMA MarkMoves ==
    ASSUME IInv, OrdersHeld, NEW t \in Threads, MarkSubmitting(t) PROVE NoFundsMove
  <1>0. TypeOK
    BY DEF IInv
  <1>1. PICK i \in Intents : i = local[t].intent
    BY DEF IInv, Safe, ThreadSafe, Threaded, MarkSubmitting, Sending, At
  <1>2. /\ row' = [row EXCEPT ![i].state = "SUBMITTING"] /\ local[t].pc = "reserved"
        /\ UNCHANGED <<cash, holdings, venue, lateFills>>
    BY <1>1 DEF MarkSubmitting, At, environment
  <1>3. venue[i].posts = 0 /\ (i \notin Buys => row[i].state = "VALIDATED")
    BY <1>1, <1>2 DEF IInv, Safe, ThreadSafe, Threaded, Sending, OrdersHeld, Held
  <1>4. CASE row[i].state \in WORKING
    BY <1>0, <1>2, <1>4, StateMoves, Disjoint DEF NoFundsMove, PostsFull
  <1>5. CASE row[i].state \notin WORKING
    <2>1. Taken(i)
      BY <1>0, <1>2, <1>3, <1>5, Types, Disjoint DEF Taken, RowType
    <2>2. \A j \in Intents \ {i} : Unmoved(j)
      BY <1>0, <1>2, Types DEF Unmoved
    <2> QED BY <1>2, <2>1, <2>2 DEF NoFundsMove, PostsFull
  <1> QED BY <1>4, <1>5

\* The steps of a submission after it: the row stays at work or is closed, and what is
\* posted is reserved in full.
LEMMA SubmitMoves ==
    ASSUME IInv, OrdersHeld, NEW t \in Threads,
           FinalCheckFails(t) \/ Transmit(t) \/ TransmitRaises(t) \/ RecordResponse(t)
    PROVE  NoFundsMove
  <1>0. TypeOK
    BY DEF IInv
  <1>1. PICK i \in Intents : i = local[t].intent
    <2>1. local[t].pc \in {"submitting", "checked", "answered"} => local[t].intent \in Intents
      BY DEF IInv, Safe, ThreadSafe, Threaded, Sending
    <2>2. FinalCheckFails(t) \/ TransmitRaises(t) => local[t].pc \in {"submitting", "checked"}
      BY DEF FinalCheckFails, TransmitRaises, At
    <2>3. Transmit(t) => local[t].pc = "checked"
      BY DEF Transmit, At
    <2>4. RecordResponse(t) => local[t].pc = "answered"
      BY DEF RecordResponse, At
    <2> QED BY <2>1, <2>2, <2>3, <2>4
  <1>2. UNCHANGED <<cash, holdings, lateFills>>
    <2>1. FinalCheckFails(t) => UNCHANGED <<cash, holdings, lateFills>>
      BY DEF FinalCheckFails, environment
    <2>2. Transmit(t) => UNCHANGED <<cash, holdings, lateFills>>
      BY DEF Transmit, ledger
    <2>3. TransmitRaises(t) => UNCHANGED <<cash, holdings, lateFills>>
      BY DEF TransmitRaises
    <2>4. RecordResponse(t) => UNCHANGED <<cash, holdings, lateFills>>
      BY DEF RecordResponse, environment
    <2> QED BY <2>1, <2>2, <2>3, <2>4
  <1>3. local[t].pc \in {"checked", "answered"} => row[i].state = "SUBMITTING" /\ Full(i)
    BY <1>1 DEF OrdersHeld, Held
  <1>4. {"SUBMITTING", "ACKNOWLEDGED", "UNKNOWN"} \subseteq WORKING /\ {"INVALIDATED", "REJECTED"} \cap WORKING = {}
    BY DEF WORKING
  <1>5. CASE FinalCheckFails(t)
    <2>1. row' = Closed(i, "INVALIDATED") /\ UNCHANGED venue
      BY <1>1, <1>5 DEF FinalCheckFails, environment
    <2>2. \A j \in Intents : Unmoved(j) \/ Shut(j)
      BY <1>0, <1>4, <2>1, ClosedMoves
    <2> QED BY <1>2, <2>1, <2>2 DEF NoFundsMove, PostsFull
  <1>6. ASSUME local[t].pc = "checked", venue' = venue \/ \E status : venue' = Posted(i, status)
        PROVE  \A j \in Intents : PostsFull(j)
    <2>1. ASSUME NEW j \in Intents \ {i} PROVE venue'[j] = venue[j]
      <3>1. ASSUME NEW status, venue' = Posted(i, status) PROVE venue'[j] = venue[j]
        BY <1>0, <3>1, Types DEF Posted
      <3> QED BY <1>6, <3>1
    <2> QED BY <1>3, <1>4, <1>6, <2>1 DEF PostsFull
  <1>7. CASE Transmit(t)
    <2>1. local[t].pc = "checked" /\ UNCHANGED row /\ (venue' = venue \/ \E status : venue' = Posted(i, status))
      BY <1>1, <1>7 DEF Transmit, At, ledger, Answers
    <2>2. \A j \in Intents : Unmoved(j)
      BY <2>1, StillMoves
    <2> QED BY <1>2, <1>6, <2>1, <2>2 DEF NoFundsMove
  <1>8. CASE TransmitRaises(t)
    <2>1. local[t].pc = "checked" /\ row' = [row EXCEPT ![i].state = "UNKNOWN"] /\ venue' = Posted(i, "INFLIGHT")
      BY <1>1, <1>8 DEF TransmitRaises, At
    <2>2. \A j \in Intents : Unmoved(j)
      BY <1>0, <1>3, <1>4, <2>1, StateMoves
    <2> QED BY <1>2, <1>6, <2>1, <2>2 DEF NoFundsMove
  <1>9. CASE RecordResponse(t)
    <2>1. local[t].pc = "answered" /\ UNCHANGED venue
      BY <1>9 DEF RecordResponse, At, environment
    <2>2. \/ row' = Closed(i, "INVALIDATED") \/ row' = Closed(i, "REJECTED")
          \/ row' = [row EXCEPT ![i] = [@ EXCEPT !.state = "ACKNOWLEDGED", !.known = TRUE]]
          \/ row' = [row EXCEPT ![i].state = "UNKNOWN"]
      BY <1>1, <1>9 DEF RecordResponse
    <2>3. CASE row' = [row EXCEPT ![i] = [@ EXCEPT !.state = "ACKNOWLEDGED", !.known = TRUE]]
      <3>1. \A j \in Intents : Unmoved(j)
        BY <1>0, <1>3, <1>4, <2>1, <2>3, Types DEF Unmoved, RowType
      <3> QED BY <1>2, <2>1, <3>1 DEF NoFundsMove, PostsFull
    <2>4. CASE row' = [row EXCEPT ![i].state = "UNKNOWN"]
      <3>1. \A j \in Intents : Unmoved(j)
        BY <1>0, <1>3, <1>4, <2>1, <2>4, StateMoves
      <3> QED BY <1>2, <2>1, <3>1 DEF NoFundsMove, PostsFull
    <2>5. CASE row' = Closed(i, "INVALIDATED") \/ row' = Closed(i, "REJECTED")
      <3>1. \A j \in Intents : Unmoved(j) \/ Shut(j)
        BY <1>0, <1>4, <2>5, ClosedMoves
      <3> QED BY <1>2, <2>1, <3>1 DEF NoFundsMove, PostsFull
    <2> QED BY <2>2, <2>3, <2>4, <2>5
  <1> QED BY <1>5, <1>7, <1>8, <1>9

\* Retiring and canceling: reservations are freed with the row, or stay with it.
LEMMA RetireMoves ==
    ASSUME IInv, OrdersHeld, NEW t \in Threads, NEW i \in Intents,
           \/ InvalidateUnsubmitted(t) \/ RetireThesis(t, i) \/ RequestCancel(t, i)
           \/ CancelNotSent(t) \/ CancelAcknowledged(t) \/ CancelUncertain(t)
    PROVE  NoFundsMove
  <1> USE DEF At
  <1>0. TypeOK
    BY DEF IInv
  <1>1. UNCHANGED <<cash, holdings, lateFills>>
    <2>1. InvalidateUnsubmitted(t) => UNCHANGED <<cash, holdings, lateFills>>
      BY DEF InvalidateUnsubmitted, environment
    <2>2. RetireThesis(t, i) \/ RequestCancel(t, i) => UNCHANGED <<cash, holdings, lateFills>>
      BY DEF RetireThesis, RequestCancel, environment
    <2>3. CancelNotSent(t) \/ CancelAcknowledged(t) \/ CancelUncertain(t) => UNCHANGED <<cash, holdings, lateFills>>
      BY DEF CancelNotSent, CancelAcknowledged, CancelUncertain, ledger, environment
    <2> QED BY <2>1, <2>2, <2>3
  <1>2. ASSUME NEW j \in Intents PROVE PostsFull(j)
    <2>1. venue' = venue => PostsFull(j)
      BY DEF PostsFull
    <2>2. InvalidateUnsubmitted(t) => venue' = venue
      BY DEF InvalidateUnsubmitted, environment
    <2>3. RetireThesis(t, i) \/ RequestCancel(t, i) \/ CancelNotSent(t) => venue' = venue
      BY DEF RetireThesis, RequestCancel, CancelNotSent, environment
    <2>4. ASSUME CancelAcknowledged(t) \/ CancelUncertain(t) PROVE PostsFull(j)
      <3>1. \E asked : venue' = [venue EXCEPT ![local[t].order].cancelAsked = asked]
        <4>1. CancelAcknowledged(t) => venue' = [venue EXCEPT ![local[t].order].cancelAsked = TRUE]
          BY DEF CancelAcknowledged
        <4>2. ASSUME CancelUncertain(t)
              PROVE  \E asked : venue' = [venue EXCEPT ![local[t].order].cancelAsked = asked]
          <5>1. PICK reached \in BOOLEAN : venue' = [venue EXCEPT ![local[t].order].cancelAsked = @ \/ reached]
            BY <4>2 DEF CancelUncertain
          <5> QED BY <5>1
        <4> QED BY <2>4, <4>1, <4>2
      <3>2. venue'[j].posts = venue[j].posts
        BY <1>0, <3>1, Types DEF VenueType
      <3> QED BY <3>2 DEF PostsFull
    <2> QED BY <2>1, <2>2, <2>3, <2>4
  <1>3. CASE InvalidateUnsubmitted(t)
    <2> DEFINE unsent == {j \in Buys : row[j].state = "VALIDATED"}
    <2>1. row' = [j \in Intents |-> IF j \in unsent
                                    THEN [row[j] EXCEPT !.state = "INVALIDATED", !.reserve = 0] ELSE row[j]]
      BY <1>3 DEF InvalidateUnsubmitted
    <2> HIDE DEF unsent
    <2>2. ASSUME NEW j \in Intents PROVE Unmoved(j) \/ Shut(j)
      <3>1. CASE j \in unsent
        <4>1. row[j] \in RowType /\ row'[j] = [row[j] EXCEPT !.state = "INVALIDATED", !.reserve = 0]
          BY <1>0, <2>1, <3>1, Types
        <4> QED BY <4>1, Disjoint DEF Shut, RowType
      <3>2. CASE j \notin unsent
        BY <2>1, <3>2 DEF Unmoved
      <3> QED BY <3>1, <3>2
    <2> QED BY <1>1, <1>2, <2>2 DEF NoFundsMove
  <1>4. CASE RetireThesis(t, i)
    <2>1. row' = Closed(i, "INVALIDATED") \/ row' = row
      BY <1>4 DEF RetireThesis
    <2>2. \A j \in Intents : Unmoved(j) \/ Shut(j)
      BY <1>0, <2>1, ClosedMoves, StillMoves, Disjoint
    <2> QED BY <1>1, <1>2, <2>2 DEF NoFundsMove
  <1>5. CASE RequestCancel(t, i)
    <2>1. row[i].known /\ row[i].state \notin TERMINAL /\ row' = [row EXCEPT ![i].state = "CANCEL_REQUESTED"]
      BY <1>5 DEF RequestCancel
    <2>2. row[i].state \in WORKING /\ "CANCEL_REQUESTED" \in WORKING
      <3>1. row[i].state # "NONE" /\ row[i].state \in States
        BY <1>0, <2>1, Types DEF IInv, Safe, Once, RowType
      <3> QED BY <2>1, <3>1 DEF States, WORKING, TERMINAL
    <2>3. \A j \in Intents : Unmoved(j)
      BY <1>0, <2>1, <2>2, StateMoves
    <2> QED BY <1>1, <1>2, <2>3 DEF NoFundsMove
  <1>6. CASE CancelNotSent(t) \/ CancelAcknowledged(t) \/ CancelUncertain(t)
    <2>1. local[t].pc = "canceling"
      BY <1>6 DEF CancelNotSent, CancelAcknowledged, CancelUncertain
    <2>2. PICK k \in Intents : k = local[t].order
      BY <2>1 DEF IInv, Safe, ThreadSafe, Threaded
    <2>3. /\ row[k].state = "CANCEL_REQUESTED" /\ local[t].prior \in WORKING
          /\ {"CANCEL_REQUESTED", "UNKNOWN"} \subseteq WORKING
      BY <2>1, <2>2 DEF OrdersHeld, Held, WORKING
    <2>4. \/ row' = [row EXCEPT ![k].state = local[t].prior] \/ row' = [row EXCEPT ![k].state = "UNKNOWN"]
          \/ row' = row
      BY <1>6, <2>2 DEF CancelNotSent, CancelAcknowledged, CancelUncertain, Restored, ledger
    <2>5. \A j \in Intents : Unmoved(j)
      BY <1>0, <2>3, <2>4, StateMoves, StillMoves
    <2> QED BY <1>1, <1>2, <2>5 DEF NoFundsMove
  <1> QED BY <1>3, <1>4, <1>5, <1>6

\* The broker posts nothing and writes no row.
LEMMA BrokerMoves ==
    ASSUME IInv, NEW i \in Intents, Broker(i) \/ Expire(i) PROVE NoFundsMove
  <1>1. UNCHANGED <<row, cash, holdings>>
    BY DEF Broker, Arrive, Fill, CancelTakesEffect, SessionClose, LateFill, Expire, ledger
  <1>2. \A j \in Intents : venue'[j].posts = venue[j].posts
    <2>1. venue' = venue \/ (\E status : venue' = [venue EXCEPT ![i].status = status]) \/ venue' = OneMoreTraded(i)
      BY DEF Broker, Arrive, Fill, CancelTakesEffect, SessionClose, LateFill, Expire
    <2>2. venue \in [Intents -> VenueType]
      BY Types DEF IInv
    <2>3. CASE venue' = OneMoreTraded(i)
      BY <2>2, <2>3 DEF OneMoreTraded, VenueType
    <2>4. CASE venue' = venue \/ \E status : venue' = [venue EXCEPT ![i].status = status]
      BY <2>2, <2>4 DEF VenueType
    <2> QED BY <2>1, <2>3, <2>4
  <1>3. lateFills \in Nat /\ lateFills' \in {lateFills, lateFills + 1}
    BY DEF IInv, TypeOK, Broker, Arrive, Fill, CancelTakesEffect, SessionClose, LateFill, Expire
  <1> QED BY <1>1, <1>2, <1>3, StillMoves DEF NoFundsMove, PostsFull

LEMMA CrashMoves == ASSUME IInv, Crash PROVE NoFundsMove
  <1>1. row' = [i \in Intents |-> RestartRow(i)] /\ UNCHANGED <<cash, holdings, venue, lateFills>>
    BY DEF Crash
  <1>2. \A j \in Intents : Unmoved(j)
    BY <1>1, Types DEF IInv, RestartRow, Unmoved, WORKING, RowType
  <1> QED BY <1>1, <1>2 DEF NoFundsMove, PostsFull

\* The other steps touch neither the rows nor the money.
LEMMA QuietMoves == ASSUME UNCHANGED <<row, cash, holdings, venue, lateFills>> PROVE NoFundsMove
  BY StillMoves DEF NoFundsMove, PostsFull

\* Every step keeps the funds.
LEMMA NextFunds == IInv /\ OrdersHeld /\ FundsHeld /\ [Next]_vars => FundsHeld'
  <1> SUFFICES ASSUME IInv, OrdersHeld, FundsHeld, [Next]_vars PROVE FundsHeld'
    OBVIOUS
  <1>1. NoFundsMove => FundsHeld'
    BY NoFundsMoveHolds
  <1>2. UNCHANGED <<row, cash, holdings, venue, lateFills>> => FundsHeld'
    BY <1>1, QuietMoves
  <1> USE DEF ledger, environment
  <1>3. ASSUME NEW t \in Threads, Begin(t) \/ ResumeCommit(t) PROVE FundsHeld'
    <2>1. UNCHANGED <<row, cash, holdings, venue, lateFills>>
      BY <1>3 DEF Begin, BeginTick, BeginProtect, BeginResume, ResumeCommit
    <2> QED BY <1>2, <2>1
  <1>4. ASSUME NEW t \in Threads, Reconcile(t) PROVE FundsHeld'
    <2>1. Observe(t) \/ ReadBalance(t) \/ ObserveIncomplete(t) \/ PreflightStale(t) \/ ReconcileBegin(t)
             \/ ReconcileEnd(t) => UNCHANGED <<row, cash, holdings, venue, lateFills>>
      BY DEF Observe, ReadBalance, ObserveIncomplete, PreflightStale, ReconcileBegin, ReconcileEnd
    <2>2. ASSUME NEW i \in Intents, ApplyFill(t, i) PROVE FundsHeld'
      BY <1>1, <2>2, ReconcileMoves, BookFunds
    <2>3. CASE SettleState(t)
      <3>1. PICK i \in Intents : TRUE
        BY <2>3 DEF SettleState, At, IInv, Safe, ThreadSafe, Threaded
      <3> QED BY <1>1, <2>3, ReconcileMoves
    <2> QED BY <1>2, <1>4, <2>1, <2>2, <2>3 DEF Reconcile
  <1>5. ASSUME NEW t \in Threads, Submit(t) PROVE FundsHeld'
    <2>1. Abandon(t) \/ AlreadySubmitted(t) \/ FinalCheck(t) => UNCHANGED <<row, cash, holdings, venue, lateFills>>
      BY DEF Abandon, AlreadySubmitted, FinalCheck
    <2>2. ASSUME NEW i \in Intents, BeginBuy(t, i) \/ BeginSell(t, i)
          PROVE  UNCHANGED <<row, cash, holdings, venue, lateFills>>
      BY <2>2 DEF BeginBuy, BeginSell
    <2> QED BY <1>1, <1>2, <1>5, <2>1, <2>2, ReserveFunds, MarkMoves, SubmitMoves DEF Submit
  <1>6. ASSUME NEW t \in Threads, Retire(t) PROVE FundsHeld'
    <2>0. ASSUME NEW i \in Intents, CancelSkips(t, i) \/ CancelRefused(t, i)
          PROVE  UNCHANGED <<row, cash, holdings, venue, lateFills>>
      BY <2>0 DEF CancelSkips, CancelRefused
    <2>1. ProtectHolding(t) \/ ProtectEnds(t) \/ ListExpired(t) \/ ListEntries(t) \/ CancelsDone(t)
             => UNCHANGED <<row, cash, holdings, venue, lateFills>>
      BY DEF ProtectHolding, ProtectEnds, ListExpired, ListEntries, CancelsDone
    <2>2. ASSUME NEW i \in Intents, RetireThesis(t, i) \/ RequestCancel(t, i) PROVE FundsHeld'
      BY <1>1, <2>2, RetireMoves
    <2>3. ASSUME CancelNotSent(t) \/ CancelAcknowledged(t) \/ CancelUncertain(t) PROVE FundsHeld'
      <3>1. \E i \in Intents : TRUE
        BY <2>3 DEF CancelNotSent, CancelAcknowledged, CancelUncertain, At, IInv, Safe, ThreadSafe, Threaded
      <3> QED BY <1>1, <2>3, <3>1, RetireMoves
    <2>4. ASSUME InvalidateUnsubmitted(t) PROVE FundsHeld'
      <3>1. CASE \E i \in Intents : TRUE
        BY <1>1, <2>4, <3>1, RetireMoves
      <3>2. CASE ~\E i \in Intents : TRUE
        <4>1. UNCHANGED <<cash, holdings, lateFills>>
          BY <2>4, Zenon DEF InvalidateUnsubmitted
        <4> QED BY <1>1, <3>2, <4>1 DEF NoFundsMove
      <3> QED BY <3>1, <3>2
    <2> QED BY <1>2, <1>6, <2>0, <2>1, <2>2, <2>3, <2>4 DEF Retire
  <1>7. ASSUME NEW i \in Intents, Broker(i) \/ Expire(i) PROVE FundsHeld'
    BY <1>1, <1>7, BrokerMoves
  <1>8. CASE Pause \/ UNCHANGED vars
    <2>1. UNCHANGED <<row, cash, holdings, venue, lateFills>>
      BY <1>8 DEF Pause, vars
    <2> QED BY <1>2, <2>1
  <1>9. CASE Crash
    BY <1>1, <1>9, CrashMoves
  <1> QED BY <1>3, <1>4, <1>5, <1>6, <1>7, <1>8, <1>9 DEF Next

LEMMA SumOfZeros == ASSUME NEW f, NEW S, IsFiniteSet(S), \A x \in S : f[x] = 0 PROVE SumFunctionOnSet(f, S) = 0
  <1>1. SumFunctionOnSet(f, {}) = SumFunctionOnSet(f, S)
    BY SumWhere
  <1> QED BY <1>1, SumEmpty

\* At first nothing is reserved, booked or asked.
LEMMA InitFunds == Init => FundsHeld
  <1> SUFFICES ASSUME Init PROVE FundsHeld
    OBVIOUS
  <1>0. TypeOK
    BY InitInv DEF IInv
  <1>1. \A i \in Intents : row[i].filled = 0 /\ row[i].reserve = 0 /\ row[i].state = "NONE"
    BY DEF Init
  <1>2. \A i \in Intents : RowFunds(i)
    BY <1>1, Disjoint DEF RowFunds
  <1>3. \A i \in Intents : Reserves[i] = 0 /\ Booked[i] = 0 /\ Asked[i] = 0
    BY <1>1, FundsAt, Disjoint
  <1>4. CashBacked
    <2>1. SumFunctionOnSet(Reserves, Intents) = 0
      BY <1>0, <1>3, FundTypes, SumOfZeros
    <2> QED BY <2>1, CashAssumption DEF CashBacked, Init
  <1>5. ASSUME NEW x \in Instruments PROVE HoldingBacked(x)
    <2>1. IsFiniteSet(Of(x)) /\ Of(x) \subseteq Intents
      BY <1>0, FundTypes
    <2>2. SumFunctionOnSet(Booked, Of(x)) = 0 /\ SumFunctionOnSet(Asked, Of(x)) = 0
      BY <1>3, <2>1, SumOfZeros
    <2> QED BY <2>2, FunctionsAssumption DEF HoldingBacked, Init
  <1> QED BY <1>2, <1>4, <1>5 DEF FundsHeld

\* The funds are there, always.
THEOREM FundsAreHeld == Spec => []FundsHeld
  BY InitFunds, NextFunds, Invariance, OrdersAreHeld, PTL DEF Spec

\* Working entries never promise more cash than the strategy has, unless a canceled entry
\* has filled late: what an entry reserves per share pays for each share that fills, and
\* the check before the reservation is made counts every row that still reserves
\* (_validate_state, execution.py; apply_cumulative_fill, store.py).  A late fill is paid
\* from cash that may be reserved again by then.
THEOREM CashCovered == Spec => [](lateFills = 0 => CashCoversReservations)
  <1>1. ASSUME IInv, FundsHeld, lateFills = 0 PROVE CashCoversReservations
    <2> DEFINE f == Reserves
    <2>1. /\ IsFiniteSet(Intents) /\ \A i \in Intents : f[i] \in Int
          /\ \A i \in Intents \ Working : f[i] = 0
      BY <1>1, FundTypes, FundsAt DEF IInv, FundsHeld, RowFunds, Working
    <2>2. Reserved(Working) = SumFunctionOnSet(f, Working)
      BY DEF Reserved, Reserves
    <2>3. SumFunctionOnSet(f, Intents) <= cash
      BY <1>1 DEF FundsHeld, CashBacked
    <2>4. Working \in SUBSET Intents
      BY DEF Working
    <2> HIDE DEF f
    <2>5. SumFunctionOnSet(f, Working) = SumFunctionOnSet(f, Intents)
      BY <2>1, <2>4, SumWhere
    <2> QED BY <2>2, <2>3, <2>5 DEF CashCoversReservations
  <1> QED BY <1>1, Invariance, FundsAreHeld, PTL

\* Live sells never ask for more shares than the account holds, whatever fills and
\* cancels the engine has not seen yet: what it asks for is in the holdings it has
\* booked, entries have delivered at least what is booked of them, and exits at work what
\* they still ask for less (protect, application.py; _validate_state, execution.py).
THEOREM SellsCovered == Spec => []LiveSellsCovered
  <1>1. ASSUME IInv, OrdersHeld, FundsHeld, NEW x \in Instruments
        PROVE  SumFunctionOnSet([i \in Intents |-> Quantity[i] - venue[i].traded],
                                {i \in Of(x) \ Buys : Live(i)}) <= Position(x, Traded)
    <2> DEFINE S == {i \in Of(x) \ Buys : Live(i)}
               left == [i \in Intents |-> Quantity[i] - venue[i].traded]
               moved == [i \in Intents |-> IF i \in Buys THEN Traded[i] ELSE -Traded[i]]
               open == [i \in Intents |-> IF i \in S THEN left[i] ELSE 0]
               real == [i \in Intents |-> open[i] - moved[i]]
               known == [i \in Intents |-> Asked[i] - Booked[i]]
    <2>0. TypeOK /\ IsFiniteSet(Of(x)) /\ Of(x) \subseteq Intents /\ InitialHoldings[x] \in Int /\ holdings[x] \in Int
      BY <1>1, FundTypes DEF IInv
    <2>1. ASSUME NEW i \in Of(x)
          PROVE  /\ left[i] \in Int /\ moved[i] \in Int /\ open[i] \in Int /\ Asked[i] \in Int /\ Booked[i] \in Int
                 /\ real[i] = open[i] - moved[i] /\ known[i] = Asked[i] - Booked[i]
                 /\ real[i] <= known[i]
                 /\ i \in S => open[i] = left[i]
                 /\ i \notin S => open[i] = 0
      <3>1. /\ i \in Intents /\ venue[i].traded \in Nat /\ Quantity[i] \in Nat /\ row[i].filled \in Nat
            /\ row[i].filled <= venue[i].traded /\ venue[i].traded <= Quantity[i]
            /\ row[i].state \in States /\ RowTrue(i)
        BY <1>1, <2>0, FundTypes, Types DEF IInv, Safe, Bounds, VenueType, RowType, OrdersHeld
      <3>2. /\ left[i] = Quantity[i] - venue[i].traded
            /\ moved[i] = (IF i \in Buys THEN venue[i].traded ELSE -venue[i].traded)
            /\ open[i] = (IF i \in S THEN left[i] ELSE 0)
            /\ real[i] = open[i] - moved[i] /\ known[i] = Asked[i] - Booked[i]
            /\ i \in S <=> i \notin Buys /\ Live(i)
        BY <3>1 DEF Traded
      <3>3. /\ Booked[i] = (IF i \in Buys THEN row[i].filled ELSE -row[i].filled)
            /\ Asked[i] = (IF row[i].state \in WORKING /\ i \notin Buys THEN Quantity[i] - row[i].filled ELSE 0)
        BY <3>1, FundsAt
      <3>4. i \notin Buys /\ Live(i) => row[i].state \in WORKING
        BY <3>1 DEF RowTrue
      <3>5. i \notin Buys /\ row[i].state \notin WORKING => row[i].filled = venue[i].traded
        <4>1. row[i].state = "NONE" => venue[i].traded = 0
          BY <1>1, <3>1 DEF IInv, Safe, Once, Bounds
        <4> QED BY <3>1, <4>1 DEF RowTrue, States
      <3> HIDE DEF S, left, moved, open, real, known
      <3>6. CASE i \in Buys
        BY <3>1, <3>2, <3>3, <3>6
      <3>7. CASE i \notin Buys /\ Live(i)
        BY <3>1, <3>2, <3>3, <3>4, <3>7
      <3>8. CASE i \notin Buys /\ ~Live(i)
        BY <3>1, <3>2, <3>3, <3>5, <3>8
      <3> QED BY <3>6, <3>7, <3>8
    <2>2. S \in SUBSET Of(x)
      OBVIOUS
    <2>3. Position(x, Traded) = InitialHoldings[x] + SumFunctionOnSet(moved, Of(x))
      BY DEF Position
    <2>4. HoldingBacked(x)
      BY <1>1 DEF FundsHeld
    <2> HIDE DEF S, left, moved, open, real, known
    <2>5. SumFunctionOnSet(left, S) = SumFunctionOnSet(open, Of(x))
      BY <2>0, <2>1, <2>2, SumWhere
    <2>6. SumFunctionOnSet(real, Of(x)) <= SumFunctionOnSet(known, Of(x))
      <3>1. \A i \in Of(x) : real[i] \in Int /\ known[i] \in Int /\ real[i] <= known[i]
        BY <2>1
      <3> QED BY <2>0, <3>1, SumMonotone
    <2>7. SumFunctionOnSet(open, Of(x)) = SumFunctionOnSet(real, Of(x)) + SumFunctionOnSet(moved, Of(x))
      <3>1. \A i \in Of(x) : real[i] \in Int /\ moved[i] \in Int /\ open[i] = real[i] + moved[i]
        BY <2>1
      <3> QED BY <2>0, <3>1, SumPlus
    <2>8. SumFunctionOnSet(Asked, Of(x)) = SumFunctionOnSet(known, Of(x)) + SumFunctionOnSet(Booked, Of(x))
      <3>1. \A i \in Of(x) : known[i] \in Int /\ Booked[i] \in Int /\ Asked[i] = known[i] + Booked[i]
        BY <2>1
      <3> QED BY <2>0, <3>1, SumPlus
    <2>9. /\ SumFunctionOnSet(real, Of(x)) \in Int /\ SumFunctionOnSet(known, Of(x)) \in Int
          /\ SumFunctionOnSet(moved, Of(x)) \in Int /\ SumFunctionOnSet(Booked, Of(x)) \in Int
      <3>1. \A i \in Of(x) : real[i] \in Int /\ known[i] \in Int /\ moved[i] \in Int /\ Booked[i] \in Int
        BY <2>1
      <3> QED BY <2>0, <3>1, SumInt
    <2>10. SumFunctionOnSet(left, S) <= Position(x, Traded)
      BY <2>0, <2>3, <2>4, <2>5, <2>6, <2>7, <2>8, <2>9 DEF HoldingBacked
    <2> QED BY <2>10 DEF S, left
  <1>2. IInv /\ OrdersHeld /\ FundsHeld => LiveSellsCovered
    BY <1>1 DEF LiveSellsCovered
  <1> QED BY <1>2, Invariance, OrdersAreHeld, FundsAreHeld, PTL

-----------------------------------------------------------------------------
(* OrderExecution implements OrderPromise: initial states map to initial   *)
(* states, and under IInv every step maps to a step of the promise or to a *)
(* stutter.  The invariant is needed where an order leaves (never posted   *)
(* before, nothing in doubt), where a fill is booked (not beyond what      *)
(* traded) and where the broker trades (only an order that was posted).    *)

\* What the promise sees of an intent did not change.
Same(i) ==
    /\ venue'[i].posts = venue[i].posts
    /\ venue'[i].traded = venue[i].traded
    /\ row'[i].filled = row[i].filled

\* Nothing that the promise speaks of changed, except that the orders of S
\* became doubtful, or that i no longer is.
LEMMA StutterMaps ==
    ASSUME \A i \in Intents : Same(i) /\ (row'[i].state = "UNKNOWN" <=> row[i].state = "UNKNOWN")
    PROVE  UNCHANGED Promise!vars
  <1>1. {i \in Intents : row'[i].state = "UNKNOWN"} = {i \in Intents : row[i].state = "UNKNOWN"}
    OBVIOUS
  <1> QED
    BY <1>1 DEF Promise!vars, Traded, Same

\* Some orders became doubtful, as OrderPromise!Doubt.
LEMMA DoubtMaps ==
    ASSUME NEW S \in SUBSET Intents,
           \A i \in Intents :
               /\ Same(i)
               /\ row'[i].state = "UNKNOWN" <=> (row[i].state = "UNKNOWN" \/ i \in S)
    PROVE  Promise!Next
  <1>1. {i \in Intents : row'[i].state = "UNKNOWN"}
           = {i \in Intents : row[i].state = "UNKNOWN"} \cup S
    OBVIOUS
  <1>2. Promise!Doubt(S)
    BY <1>1 DEF Promise!Doubt, Traded, Same
  <1> QED
    BY <1>2 DEF Promise!Next

\* The doubt about one order ended, as OrderPromise!Resolve.
LEMMA ResolveMaps ==
    ASSUME NEW j \in Intents,
           row'[j].state # "UNKNOWN",
           \A i \in Intents :
               /\ Same(i)
               /\ i # j => (row'[i].state = "UNKNOWN" <=> row[i].state = "UNKNOWN")
    PROVE  Promise!Next
  <1>1. {i \in Intents : row'[i].state = "UNKNOWN"}
           = {i \in Intents : row[i].state = "UNKNOWN"} \ {j}
    OBVIOUS
  <1>2. Promise!Resolve(j)
    BY <1>1 DEF Promise!Resolve, Traded, Same
  <1> QED
    BY <1>2 DEF Promise!Next

\* One order was booked further, as OrderPromise!Book.
LEMMA BookMaps ==
    ASSUME NEW j \in Intents,
           row[j].filled \in Nat, row'[j].filled \in Nat,
           row[j].filled < row'[j].filled,
           venue[j].traded \in Nat,
           row'[j].filled <= venue[j].traded,
           row'[j].state # "UNKNOWN",
           venue' = venue,
           \A i \in Intents \ {j} : row'[i] = row[i]
    PROVE  Promise!Next
  <1> DEFINE booked == [i \in Intents |-> row[i].filled]
             n == row'[j].filled
  <1>1. n \in (booked[j] + 1)..Traded[j]
    BY DEF Traded
  <1>2. [i \in Intents |-> row'[i].filled] = [booked EXCEPT ![j] = n]
    OBVIOUS
  <1>3. {i \in Intents : row'[i].state = "UNKNOWN"}
           = {i \in Intents : row[i].state = "UNKNOWN"} \ {j}
    OBVIOUS
  <1>4. Promise!Book(j)
    BY <1>1, <1>2, <1>3 DEF Promise!Book, Traded
  <1> QED
    BY <1>4 DEF Promise!Next

\* One order traded one share more, as OrderPromise!Trade.
LEMMA TradeMaps ==
    ASSUME IInv, NEW j \in Intents,
           venue[j].status \in {"OPEN", "CANCELED"},
           venue' = OneMoreTraded(j),
           row' = row
    PROVE  Promise!Next
  <1>1. venue[j].posts = 1 /\ venue[j].traded < Quantity[j]
    <2>1. venue[j] \in VenueType
      BY Types DEF IInv
    <2>2. venue[j].posts <= 1 /\ venue[j].posts # 0 /\ venue[j].traded < Quantity[j]
      BY DEF IInv, Safe, Bounds, Once
    <2> QED
      BY <2>1, <2>2 DEF VenueType
  <1>2. \A i \in Intents :
          /\ venue'[i].posts = venue[i].posts
          /\ venue'[i].traded = IF i = j THEN venue[j].traded + 1 ELSE venue[i].traded
    BY Types DEF IInv, OneMoreTraded, VenueType
  <1>3. Promise!Trade(j)
    BY <1>1, <1>2 DEF Promise!Trade, Traded
  <1> QED
    BY <1>3 DEF Promise!Next

\* An order that leaves was never posted, and nothing is in doubt.
LEMMA SendMaps ==
    ASSUME IInv, NEW t \in Threads, local[t].pc = "checked",
           NEW i \in Intents, local[t].intent = i,
           NEW status \in {"ABSENT", "INFLIGHT", "OPEN"},
           venue' = Posted(i, status),
           \/ row' = row
           \/ row' = [row EXCEPT ![i].state = "UNKNOWN"]
    PROVE  Promise!Next
  <1>1. /\ row[i].state # "NONE"
        /\ venue[i].posts = 0
        /\ reconciled
    BY DEF IInv, Safe, ThreadSafe, Threaded, Checked, Sending
  <1>2. \A j \in Intents : row[j].state # "UNKNOWN"
    BY <1>1 DEF IInv, Safe, UncertaintyBlocksTrading
  <1>3. row[i] \in RowType
    BY <1>1, Types DEF IInv
  <1>4. \A j \in Intents :
          /\ venue'[j].traded = venue[j].traded
          /\ venue'[j].posts = IF j = i THEN 1 ELSE venue[j].posts
    BY <1>1, PostKeeps
  <1>5. \A j \in Intents :
          /\ row'[j].filled = row[j].filled
          /\ j # i => row'[j].state # "UNKNOWN"
    <2>1. CASE row' = row
      BY <1>2, <2>1
    <2>2. CASE row' = [row EXCEPT ![i].state = "UNKNOWN"]
      BY <1>2, <1>3, <2>2, Types DEF RowType
    <2> QED
      BY <2>1, <2>2
  <1>6. Promise!Send(i)
    <2>1. {j \in Intents : row[j].state = "UNKNOWN"} = {}
      BY <1>2
    <2>2. {j \in Intents : row'[j].state = "UNKNOWN"} \in {{}, {i}}
      BY <1>1, <1>5
    <2>3. /\ [j \in Intents |-> venue'[j].posts] =
                [[j \in Intents |-> venue[j].posts] EXCEPT ![i] = 1]
          /\ Traded' = Traded
      BY <1>4 DEF Traded
    <2>4. [j \in Intents |-> row'[j].filled] = [j \in Intents |-> row[j].filled]
      BY <1>5
    <2> QED
      BY <1>1, <2>1, <2>2, <2>3, <2>4 DEF Promise!Send
  <1> QED
    BY <1>1, <1>6 DEF Promise!Next

\* A step that leaves rows and broker alone is a stutter.
LEMMA QuietMaps == ASSUME UNCHANGED <<row, venue>> PROVE UNCHANGED Promise!vars
  BY StutterMaps DEF Same

\* Reconciliation books what traded, and ends doubts.
LEMMA ReconcileMaps ==
    ASSUME IInv, NEW t \in Threads, Reconcile(t) PROVE [Promise!Next]_Promise!vars
  <1> USE DEF IInv, At
  <1>1. ASSUME NEW i \in Intents, ApplyFill(t, i) PROVE [Promise!Next]_Promise!vars
    <2> DEFINE traded == local[t].snapshot[i].traded
    <2>1. /\ row[i] \in RowType /\ venue[i].traded \in Nat
          /\ traded \in Nat /\ traded <= venue[i].traded
          /\ venue' = venue
      BY <1>1, Types DEF Safe, Bounds, VenueType, LocalType, SnapshotType, ApplyFill, environment
    <2>2. CASE Older(i, traded) \/ Refused(i, traded - row[i].filled)
      <3>1. row' = [row EXCEPT ![i].known = TRUE]
        BY <1>1, <2>2 DEF ApplyFill
      <3> QED
        BY <2>1, <3>1, StutterMaps, Types DEF Same, RowType
    <2>3. CASE ~Older(i, traded) /\ ~Refused(i, traded - row[i].filled)
      <3> DEFINE state == FillState(i, traded)
                 reserve == IF state \in WORKING
                            THEN UnitReserve[i] * (Quantity[i] - traded) ELSE 0
      <3>1. row' = [row EXCEPT ![i] = [@ EXCEPT !.state = state, !.filled = traded,
                                               !.known = TRUE, !.reserve = reserve]]
        BY <1>1, <2>3 DEF ApplyFill
      <3>2. state # "UNKNOWN"
        BY DEF FillState
      <3> HIDE DEF state, reserve
      <3>3. /\ row'[i].filled = traded /\ row'[i].state # "UNKNOWN"
            /\ \A j \in Intents \ {i} : row'[j] = row[j]
        BY <2>1, <3>1, <3>2, Types DEF RowType
      <3>4. row[i].filled \in Nat /\ row[i].filled < traded
        BY <2>1, <2>3 DEF RowType, Older
      <3> HIDE DEF traded
      <3> QED
        BY <2>1, <3>3, <3>4, BookMaps
    <2> QED
      BY <2>2, <2>3
  <1>2. CASE SettleState(t)
    <2> DEFINE i == local[t].order
    <2>1. i \in Intents /\ row[i] \in RowType /\ venue' = venue
      BY <1>2, Types DEF Safe, ThreadSafe, Threaded, SettleState, environment
    <2>2. /\ \A j \in Intents \ {i} : row'[j] = row[j]
          /\ row'[i].filled = row[i].filled
          /\ row'[i].state # "UNKNOWN"
      <3>1. CASE local[t].snapshot[i].status \in TERMINAL
        <4>1. PICK state \in TERMINAL : row' = Closed(i, state)
          BY <1>2, <3>1 DEF SettleState, TERMINAL
        <4> QED
          BY <2>1, <4>1, Types DEF Closed, RowType, TERMINAL
      <3>2. CASE local[t].snapshot[i].status \notin TERMINAL
        BY <1>2, <2>1, <3>2, Types DEF SettleState, BrokerState, RowType
      <3> QED
        BY <3>1, <3>2
    <2> HIDE DEF i
    <2> QED
      BY <2>1, <2>2, ResolveMaps DEF Same
  <1>3. CASE \/ Observe(t) \/ ReadBalance(t) \/ ObserveIncomplete(t) \/ PreflightStale(t)
             \/ ReconcileBegin(t) \/ ReconcileEnd(t)
    <2>1. UNCHANGED <<row, venue>>
      BY <1>3 DEF Observe, ReadBalance, ObserveIncomplete, PreflightStale, ReconcileBegin,
         ReconcileEnd, ledger, environment
    <2> QED
      BY <2>1, QuietMaps
  <1> QED
    BY <1>1, <1>2, <1>3 DEF Reconcile

\* Submission sends, and raises a doubt when the answer is lost.
LEMMA SubmitMaps ==
    ASSUME IInv, NEW t \in Threads, Submit(t) PROVE [Promise!Next]_Promise!vars
  <1> USE DEF IInv, At
  <1>1. CASE (\E i \in Intents : BeginBuy(t, i) \/ BeginSell(t, i)) \/ Abandon(t)
             \/ AlreadySubmitted(t) \/ FinalCheck(t)
    <2>1. UNCHANGED <<row, venue>>
      BY <1>1 DEF BeginBuy, BeginSell, Abandon, AlreadySubmitted, FinalCheck, ledger,
         environment
    <2> QED
      BY <2>1, QuietMaps
  <1>2. CASE Reserve(t)
    <2> DEFINE i == local[t].intent
    <2>1. /\ i \in Intents /\ row[i].state = "NONE" /\ venue' = venue
          /\ row[i].filled <= venue[i].traded
          /\ venue[i].traded = 0
          /\ row[i] \in RowType
      BY <1>2, Types DEF Reserve, Safe, ThreadSafe, Threaded, Submitted, Once, Bounds, environment
    <2>2. /\ row'[i].state = "VALIDATED" /\ row'[i].filled = 0
          /\ \A j \in Intents \ {i} : row'[j] = row[j]
      BY <1>2, <2>1, Types DEF Reserve
    <2>3. row[i].filled = 0
      BY <2>1 DEF RowType
    <2> HIDE DEF i
    <2> QED
      BY <2>1, <2>2, <2>3, StutterMaps DEF Same
  <1>3. CASE MarkSubmitting(t) \/ FinalCheckFails(t)
    <2> DEFINE i == local[t].intent
    <2>1. /\ i \in Intents /\ row[i] \in RowType /\ venue' = venue
          /\ \/ row' = [row EXCEPT ![i].state = "SUBMITTING"]
             \/ row' = Closed(i, "INVALIDATED")
      BY <1>3, Types DEF MarkSubmitting, FinalCheckFails, Safe, ThreadSafe, Threaded, Sending,
         environment
    <2> HIDE DEF i
    <2>2. /\ row'[i].state # "UNKNOWN" /\ row'[i].filled = row[i].filled
          /\ \A j \in Intents \ {i} : row'[j] = row[j]
      <3>1. row \in [Intents -> RowType]
        BY Types
      <3>2. CASE row' = [row EXCEPT ![i].state = "SUBMITTING"]
        BY <2>1, <3>1, <3>2 DEF RowType
      <3>3. CASE row' = Closed(i, "INVALIDATED")
        BY <2>1, <3>1, <3>3 DEF Closed, RowType
      <3> QED
        BY <2>1, <3>2, <3>3
    <2> QED
      BY <2>1, <2>2, ResolveMaps DEF Same
  <1>4. CASE Transmit(t)
    <2>1. /\ local[t].pc = "checked" /\ row' = row
          /\ local[t].intent \in Intents
          /\ venue[local[t].intent].status = "ABSENT"
      BY <1>4 DEF Transmit, Safe, ThreadSafe, Threaded, Once, Sending, ledger
    <2>2. \/ venue' = venue
          \/ \E status \in {"ABSENT", "INFLIGHT", "OPEN"} :
                venue' = Posted(local[t].intent, status)
      BY <1>4, <2>1 DEF Transmit, Answers
    <2> QED
      BY <2>1, <2>2, QuietMaps, SendMaps
  <1>5. CASE TransmitRaises(t)
    <2>1. /\ local[t].pc = "checked"
          /\ local[t].intent \in Intents
          /\ venue' = Posted(local[t].intent, "INFLIGHT")
          /\ row' = [row EXCEPT ![local[t].intent].state = "UNKNOWN"]
      BY <1>5 DEF TransmitRaises, Safe, ThreadSafe, Threaded, Sending
    <2> QED
      BY <2>1, SendMaps
  <1>6. CASE RecordResponse(t)
    <2> DEFINE i == local[t].intent
    <2>1. i \in Intents /\ row[i] \in RowType /\ venue' = venue /\ local[t].answer \in Answers
      BY <1>6, Types DEF RecordResponse, Safe, ThreadSafe, Threaded, environment
    <2>2. /\ \A j \in Intents \ {i} : row'[j] = row[j]
          /\ row'[i].filled = row[i].filled
      BY <1>6, <2>1, Types DEF RecordResponse, Closed, RowType, Answers
    <2> HIDE DEF i
    <2>3. CASE row'[i].state # "UNKNOWN"
      BY <2>1, <2>2, <2>3, ResolveMaps DEF Same
    <2>4. CASE row'[i].state = "UNKNOWN"
      <3>1. \A j \in Intents : row'[j].state = "UNKNOWN"
                                  <=> (row[j].state = "UNKNOWN" \/ j \in {i})
        BY <2>2, <2>4
      <3> QED
        BY <2>1, <2>2, <3>1, DoubtMaps DEF Same
    <2> QED
      BY <2>3, <2>4
  <1> QED
    BY <1>1, <1>2, <1>3, <1>4, <1>5, <1>6 DEF Submit

\* Protection only raises doubts, by cancels whose answer is lost.
LEMMA RetireMaps ==
    ASSUME IInv, NEW t \in Threads, Retire(t) PROVE [Promise!Next]_Promise!vars
  <1> USE DEF IInv, At
  <1>1. CASE \/ ProtectHolding(t) \/ ProtectEnds(t) \/ ListExpired(t) \/ ListEntries(t)
             \/ CancelsDone(t)
             \/ \E i \in Intents : CancelSkips(t, i) \/ CancelRefused(t, i)
    <2>1. UNCHANGED <<row, venue>>
      BY <1>1 DEF ProtectHolding, ProtectEnds, ListExpired, ListEntries, CancelsDone,
         CancelSkips, CancelRefused, ledger, environment
    <2> QED
      BY <2>1, QuietMaps
  <1>2. CASE InvalidateUnsubmitted(t)
    <2>1. \A j \in Intents : row[j] \in RowType
      BY Types
    <2>2. \A j \in Intents : /\ row'[j].filled = row[j].filled
                             /\ row'[j].state = "UNKNOWN" <=> row[j].state = "UNKNOWN"
      BY <1>2, <2>1 DEF InvalidateUnsubmitted, RowType
    <2> QED
      BY <1>2, <2>2, StutterMaps DEF InvalidateUnsubmitted, environment, Same
  <1>3. ASSUME NEW i \in Intents, RetireThesis(t, i) \/ RequestCancel(t, i)
        PROVE  [Promise!Next]_Promise!vars
    <2>1. /\ row[i] \in RowType /\ venue' = venue /\ row[i].state # "UNKNOWN"
          /\ \/ row' = row
             \/ row' = Closed(i, "INVALIDATED")
             \/ row' = [row EXCEPT ![i].state = "CANCEL_REQUESTED"]
      BY <1>3, Types DEF RetireThesis, RequestCancel, environment
    <2>2. \A j \in Intents : /\ row'[j].filled = row[j].filled
                             /\ row'[j].state = "UNKNOWN" <=> row[j].state = "UNKNOWN"
      <3>1. CASE row' = row
        BY <3>1
      <3>2. CASE row' = Closed(i, "INVALIDATED")
        BY <2>1, <3>2, Types DEF Closed, RowType
      <3>3. CASE row' = [row EXCEPT ![i].state = "CANCEL_REQUESTED"]
        BY <2>1, <3>3, Types DEF RowType
      <3> QED
        BY <2>1, <3>1, <3>2, <3>3
    <2> QED
      BY <2>1, <2>2, StutterMaps DEF Same
  <1>4. CASE CancelNotSent(t)
    <2> DEFINE i == local[t].order
    <2>1. /\ i \in Intents /\ row[i] \in RowType /\ venue' = venue
          /\ local[t].prior # "UNKNOWN"
          /\ row' = [row EXCEPT ![i].state = local[t].prior]
      BY <1>4, Types DEF CancelNotSent, Restored, Safe, ThreadSafe, Threaded, environment
    <2>2. /\ row'[i].state # "UNKNOWN" /\ row'[i].filled = row[i].filled
          /\ \A j \in Intents \ {i} : row'[j] = row[j]
      BY <2>1, Types DEF RowType
    <2> HIDE DEF i
    <2> QED
      BY <2>1, <2>2, ResolveMaps DEF Same
  <1>5. CASE CancelAcknowledged(t) \/ CancelUncertain(t)
    <2> DEFINE i == local[t].order
    <2>1. /\ i \in Intents /\ row[i] \in RowType /\ venue[i] \in VenueType
          /\ row' = row \/ row' = [row EXCEPT ![i].state = "UNKNOWN"]
          /\ \E asked : venue' = [venue EXCEPT ![i].cancelAsked = asked]
      BY <1>5, Types DEF CancelAcknowledged, CancelUncertain, Safe, ThreadSafe, Threaded, ledger
    <2> HIDE DEF i
    <2>2. \A j \in Intents : Same(j)
      BY <2>1, Types DEF Same, RowType, VenueType
    <2>3. CASE row' = row
      BY <2>2, <2>3, StutterMaps
    <2>4. CASE row' = [row EXCEPT ![i].state = "UNKNOWN"]
      <3>1. \A j \in Intents : row'[j].state = "UNKNOWN"
                                  <=> (row[j].state = "UNKNOWN" \/ j \in {i})
        BY <2>1, <2>4, Types DEF RowType
      <3> QED
        BY <2>1, <2>2, <3>1, DoubtMaps
    <2> QED
      BY <2>1, <2>3, <2>4
  <1> QED
    BY <1>1, <1>2, <1>3, <1>4, <1>5 DEF Retire

\* The broker only trades.
LEMMA BrokerMaps ==
    ASSUME IInv, NEW i \in Intents, Broker(i) PROVE [Promise!Next]_Promise!vars
  <1>1. venue[i] \in VenueType
    BY Types DEF IInv
  <1>2. CASE Arrive(i) \/ CancelTakesEffect(i) \/ SessionClose(i)
    <2>1. /\ row' = row
          /\ \E status : venue' = [venue EXCEPT ![i].status = status]
      BY <1>2 DEF Arrive, CancelTakesEffect, SessionClose, ledger
    <2>2. \A j \in Intents : Same(j)
      BY <1>1, <2>1, Types DEF IInv, Same, VenueType
    <2> QED
      BY <2>1, <2>2, StutterMaps
  <1>3. CASE Fill(i) \/ LateFill(i)
    BY <1>3, TradeMaps DEF Fill, LateFill, ledger
  <1> QED
    BY <1>2, <1>3 DEF Broker

\* A restart doubts every order that was being sent.
LEMMA CrashMaps == ASSUME IInv, Crash PROVE [Promise!Next]_Promise!vars
  <1> DEFINE S == {i \in Intents : row[i].state = "SUBMITTING"}
  <1>1. /\ venue' = venue
        /\ \A i \in Intents : row[i] \in RowType /\ row'[i] = RestartRow(i)
    BY Types DEF IInv, Crash
  <1>2. \A i \in Intents :
          /\ row'[i].filled = row[i].filled
          /\ row'[i].state = "UNKNOWN" <=> (row[i].state = "UNKNOWN" \/ i \in S)
    BY <1>1 DEF RestartRow, RowType
  <1> QED
    BY <1>1, <1>2, DoubtMaps DEF Same

\* Every step is a step of the promise, or a stutter.
LEMMA StepMaps == IInv /\ [Next]_vars => [Promise!Next]_Promise!vars
  <1> SUFFICES ASSUME IInv, [Next]_vars PROVE [Promise!Next]_Promise!vars
    OBVIOUS
  <1>1. ASSUME NEW t \in Threads, Begin(t) \/ ResumeCommit(t)
        PROVE  [Promise!Next]_Promise!vars
    <2>1. UNCHANGED <<row, venue>>
      BY <1>1 DEF Begin, BeginTick, BeginProtect, BeginResume, ResumeCommit, ledger, environment
    <2> QED
      BY <2>1, QuietMaps
  <1>2. CASE Pause \/ UNCHANGED vars \/ \E i \in Intents : Expire(i)
    <2>1. UNCHANGED <<row, venue>>
      BY <1>2 DEF Pause, Expire, vars, ledger, environment
    <2> QED
      BY <2>1, QuietMaps
  <1> QED
    BY <1>1, <1>2, ReconcileMaps, SubmitMaps, RetireMaps, BrokerMaps, CrashMaps DEF Next

\* Initial states map to initial states.
LEMMA InitMaps == Init => Promise!Init
  <1> SUFFICES ASSUME Init PROVE Promise!Init
    OBVIOUS
  <1>1. \A i \in Intents : /\ row[i].state = "NONE" /\ row[i].filled = 0
                           /\ venue[i].posts = 0 /\ venue[i].traded = 0
    BY DEF Init
  <1> QED
    BY <1>1 DEF Promise!Init, Traded

\* The executor implements the promise: an order is sent once and only while
\* nothing is in doubt, and bookings follow what traded and are never undone.
THEOREM Implements == Spec => PromiseKept
  BY InitMaps, StepMaps, Invariance, PTL DEF Spec, PromiseKept, Promise!Spec
=============================================================================

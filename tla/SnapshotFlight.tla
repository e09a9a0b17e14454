---------------------------- MODULE SnapshotFlight ----------------------------
(***************************************************************************)
(* KisBrokerPort.snapshot: threads that ask for the account at once share  *)
(* one reading (a flight), and an idle account may be answered from the    *)
(* last one. Submitting or canceling an order invalidates both; so does    *)
(* any change of the ledger's account version.                             *)
(***************************************************************************)
EXTENDS Integers, Sequences

CONSTANTS Readers, Orders,
          MaxFlights     \* bound: flights of a behaviour

ASSUME FlightAssumption == MaxFlights \in Nat

VARIABLES
    reader,       \* the call of each thread
    flights,      \* every reading of the account, the last one perhaps in flight
    current,      \* snapshot_inflight, as its place in flights
    kept,        \* snapshot_cache
    aged,         \* the cache is older than the poll of an idle account
    generation,   \* snapshot_generation
    trade,        \* each order: "none", "begun" (invalidated), "placed", "booked"
    accountVersion

flightVars == <<reader, flights, current, kept, aged, generation, trade, accountVersion>>

None == 0
In(state) == {t \in Orders : trade[t] \in state}
Begun == In({"begun", "placed", "booked"})
Placed == In({"placed", "booked"})

\* What a call that starts now may rely on.
Fact == [begun |-> Begun, booked |-> In({"booked"})]
NoValue == [shows |-> {}, begun |-> {}, version |-> 0, complete |-> FALSE]

FlightInit ==
    /\ reader = [r \in Readers |-> [at |-> "idle", version |-> 0, working |-> FALSE, joined |-> None,
                                    fact |-> [begun |-> {}, booked |-> {}], value |-> NoValue]]
    /\ flights = <<>> /\ current = None /\ kept = NoValue /\ aged = FALSE /\ generation = 0
    /\ trade = [t \in Orders |-> "none"] /\ accountVersion = 0

----------------------------------------------------------------------------
(* A reader *)

Call(r) ==
    /\ reader[r].at \in {"idle", "returned"} /\ Len(flights) < MaxFlights
    /\ reader' = [reader EXCEPT ![r] = [at |-> "version", version |-> 0, working |-> FALSE,
                                        joined |-> None, fact |-> Fact, value |-> NoValue]]
    /\ UNCHANGED <<flights, current, kept, aged, generation, trade, accountVersion>>

ReadVersion(r) ==
    /\ reader[r].at = "version"
    /\ reader' = [reader EXCEPT ![r].at = "working", ![r].version = accountVersion]
    /\ UNCHANGED <<flights, current, kept, aged, generation, trade, accountVersion>>

ReadWorking(r) ==
    /\ reader[r].at = "working"
    /\ reader' = [reader EXCEPT ![r].at = "enter", ![r].working = In({"begun", "placed"}) /= {}]
    /\ UNCHANGED <<flights, current, kept, aged, generation, trade, accountVersion>>

\* The last snapshot answers while nothing works and the ledger stands.
FromCache(r) == kept.complete /\ ~aged /\ ~reader[r].working /\ kept.version = reader[r].version

\* Under the condition's lock: the cache, a flight of one's own, or the one that is out.
Enter(r) ==
    /\ reader[r].at = "enter"
    /\ \/ /\ FromCache(r)
          /\ reader' = [reader EXCEPT ![r].at = "returned", ![r].value = kept]
          /\ UNCHANGED <<flights, current>>
       \/ /\ current = None
          /\ flights' = Append(flights, [generation |-> generation, version |-> reader[r].version,
                                         begun |-> Begun, value |-> NoValue, done |-> FALSE,
                                         failed |-> FALSE])
          /\ current' = Len(flights')
          /\ reader' = [reader EXCEPT ![r].at = "leads", ![r].joined = current']
       \/ /\ current /= None
          /\ reader' = [reader EXCEPT ![r].at = "waits", ![r].joined = current]
          /\ UNCHANGED <<flights, current>>
    /\ UNCHANGED <<kept, aged, generation, trade, accountVersion>>

\* _snapshot, as of one moment of the flight; complete or not.
ReadAccount(r) ==
    /\ reader[r].at = "leads"
    /\ \E complete \in BOOLEAN :
        reader' = [reader EXCEPT ![r].at = "publishes",
                                 ![r].value = [shows |-> Placed, begun |-> flights[reader[r].joined].begun,
                                               version |-> reader[r].version, complete |-> complete]]
    /\ UNCHANGED <<flights, current, kept, aged, generation, trade, accountVersion>>

Keeps(r) ==
    LET f == flights[reader[r].joined]
    IN reader[r].value.complete /\ f.generation = generation /\ f.version = accountVersion

Publish(r) ==
    /\ reader[r].at = "publishes"
    /\ flights' = [flights EXCEPT ![reader[r].joined].done = TRUE,
                                  ![reader[r].joined].value = reader[r].value]
    /\ kept' = IF Keeps(r) THEN reader[r].value ELSE NoValue
    /\ aged' = FALSE /\ current' = None
    /\ reader' = [reader EXCEPT ![r].at = "returned"]
    /\ UNCHANGED <<generation, trade, accountVersion>>

\* The reading raised: those that wait must hear of it too.
FailFlight(r) ==
    /\ reader[r].at = "leads"
    /\ flights' = [flights EXCEPT ![reader[r].joined].done = TRUE, ![reader[r].joined].failed = TRUE]
    /\ current' = None
    /\ reader' = [reader EXCEPT ![r].at = "idle"]
    /\ UNCHANGED <<kept, aged, generation, trade, accountVersion>>

\* Mutant: whoever waited takes what the flight brought.
AnyFlight(r) == TRUE

Shared(r) ==
    LET f == flights[reader[r].joined]
    IN f.generation = generation /\ f.version = reader[r].version

\* A flight overtaken by an order is not shared: the reader starts over.
Wake(r) ==
    /\ reader[r].at = "waits" /\ flights[reader[r].joined].done
    /\ reader' = [reader EXCEPT ![r].at = IF Shared(r) THEN "shares" ELSE "version"]
    /\ UNCHANGED <<flights, current, kept, aged, generation, trade, accountVersion>>

Share(r) ==
    /\ reader[r].at = "shares"
    /\ LET f == flights[reader[r].joined]
       IN reader' = [reader EXCEPT ![r].at = IF accountVersion /= reader[r].version THEN "version"
                                             ELSE IF f.failed THEN "idle" ELSE "returned",
                                   ![r].value = IF f.failed THEN @ ELSE f.value]
    /\ UNCHANGED <<flights, current, kept, aged, generation, trade, accountVersion>>

----------------------------------------------------------------------------
(* Orders, and the ledger *)

\* submit: the invalidation comes before anything is sent.
BeginOrder(t) ==
    /\ trade[t] = "none" /\ trade' = [trade EXCEPT ![t] = "begun"]
    /\ generation' = generation + 1 /\ kept' = NoValue
    /\ UNCHANGED <<reader, flights, current, aged, accountVersion>>

PlaceOrder(t) ==
    /\ trade[t] = "begun" /\ trade' = [trade EXCEPT ![t] = "placed"]
    /\ UNCHANGED <<reader, flights, current, kept, aged, generation, accountVersion>>

\* A reader's snapshot that shows the order executed is booked.
Book(r, t) ==
    /\ reader[r].at = "returned" /\ t \in reader[r].value.shows /\ trade[t] = "placed"
    /\ trade' = [trade EXCEPT ![t] = "booked"] /\ accountVersion' = accountVersion + 1
    /\ UNCHANGED <<reader, flights, current, kept, aged, generation>>

Age ==
    /\ kept.complete /\ ~aged /\ aged' = TRUE
    /\ UNCHANGED <<reader, flights, current, kept, generation, trade, accountVersion>>

FlightNext ==
    \/ \E r \in Readers :
        \/ Call(r) \/ ReadVersion(r) \/ ReadWorking(r) \/ Enter(r)
        \/ ReadAccount(r) \/ Publish(r) \/ FailFlight(r) \/ Wake(r) \/ Share(r)
        \/ \E t \in Orders : Book(r, t)
    \/ \E t \in Orders : BeginOrder(t) \/ PlaceOrder(t)
    \/ Age

FlightSpec == FlightInit /\ [][FlightNext]_flightVars

----------------------------------------------------------------------------
(* Properties *)

\* Whoever asks for the account is given one read after every order submitted before the
\* question, and that shows every execution the ledger had booked by then; neither the cache
\* nor another thread's flight makes it older.  (snapshot, _invalidate_snapshot)
SnapshotCurrent ==
    \A r \in Readers :
        reader[r].at = "returned" => /\ reader[r].fact.begun \subseteq reader[r].value.begun
                                     /\ reader[r].fact.booked \subseteq reader[r].value.shows
=============================================================================

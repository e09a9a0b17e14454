------------------------------ MODULE MCRuntime ------------------------------
(***************************************************************************)
(* The parts of the runtime that share no state with each other in these   *)
(* models, checked side by side: a behaviour is one of one part, chosen at *)
(* the start, and the properties of all parts are checked of it.           *)
(***************************************************************************)
EXTENDS BrokerTransport, SnapshotFlight, QuoteStream, DisclosureCollection, AccountOwnership,
        ReviewWorkflow, PaperLedger

VARIABLES part,
          chosen   \* the calls that take place

mcVars == <<part, chosen, transportVars, flightVars, streamVars, disclosureVars, ownershipVars,
            reviewVars, paperVars>>

\* An entry, a cancel, a bulk read and an exit, two of them at once.
FourKinds == <<"buy", "cancel", "bulk", "sell">>
Pairs == {{1, 3}, {2, 4}, {3, 4}}

TwoDays == <<1, 2>>
TwoIssuers == <<"a", "b">>

\* Two runtimes of one account, one of them with another state directory.
TwoDirs == [p \in Owners |-> IF p = "r2" THEN "other" ELSE "state"]

\* As much for sale as is asked for.
OneSize == {[side \in {"BUY", "SELL"} |-> n] : n \in 1..MaxQuantity}

\* The replay with partial fills, with one thesis after another, with corporate actions, and
\* with two instruments.
Replays == {"fills", "theses", "actions", "portfolio"}

Parts == {"transport", "flight", "quotes", "registrations", "disclosures", "upgrade", "ownership",
          "review"} \cup Replays

MCInit ==
    /\ TransportInit /\ FlightInit /\ StreamInit /\ DisclosureInit /\ OwnershipInit /\ ReviewInit
    /\ PaperInit
    /\ part \in Parts
    /\ chosen \in IF part = "transport" THEN Pairs ELSE {{}}
    /\ part /= "transport" => token = "valid"
    /\ part /= "review" => ~held /\ ~working

TransportPart ==
    /\ part = "transport"
    /\ TransportNext /\ lapsed' \subseteq chosen
    /\ \A c \in Calls \ chosen : call'[c].at = "idle"
    /\ UNCHANGED <<flightVars, streamVars, disclosureVars, ownershipVars, reviewVars, paperVars>>

FlightPart ==
    /\ part = "flight" /\ FlightNext
    /\ UNCHANGED <<transportVars, streamVars, disclosureVars, ownershipVars, reviewVars, paperVars>>

\* The quotes of one ticker in time, and the registrations of several.
StreamPart ==
    /\ part \in {"quotes", "registrations"} /\ StreamNext
    /\ part = "quotes" => targets' \subseteq {1}
    /\ part = "registrations" => UNCHANGED <<feeds, now>>
    /\ UNCHANGED <<transportVars, flightVars, disclosureVars, ownershipVars, reviewVars, paperVars>>

\* Two disclosures; or one, whose issuer may have no instrument, and a restart with another
\* parser.  A decision is about the issuer of the first.
DisclosurePart ==
    /\ part \in {"disclosures", "upgrade"} /\ DisclosureNext
    /\ IF part = "upgrade" THEN published' \subseteq {1} ELSE upgrades' = 0
    /\ job'.at /= "idle" =>
        job'.scope \in {IF job'.scoped THEN {"a"} ELSE Issuers}
                        \cup (IF part = "upgrade" THEN {{"b"}} ELSE {})
    /\ UNCHANGED <<transportVars, flightVars, streamVars, ownershipVars, reviewVars, paperVars>>

OwnershipPart ==
    /\ part = "ownership" /\ OwnershipNext
    /\ UNCHANGED <<transportVars, flightVars, streamVars, disclosureVars, reviewVars, paperVars>>

\* Two reviews, or one and three changes of the account.
ReviewPart ==
    /\ part = "review" /\ ReviewNext
    /\ reviews' = 2 => version' <= 1
    /\ UNCHANGED <<transportVars, flightVars, streamVars, disclosureVars, ownershipVars, paperVars>>

PaperPart ==
    /\ part \in Replays /\ PaperNext
    /\ Len(book'.orders) <= (IF part = "theses" THEN 3 ELSE 2)
    /\ clock' <= (CASE part \in {"fills", "theses"} -> MaxTime [] part = "portfolio" -> 1 [] OTHER -> 2)
    /\ part /= "portfolio" => ~book'.tripped
    /\ part /= "actions" => book'.halted = {} /\ splits' = 0
    /\ part /= "portfolio" => event'.at = "review" \/ event'.left \subseteq {1}
    /\ \A i \in DOMAIN book'.orders :
        LET o == book'.orders[i]
        IN /\ part /= "portfolio" => o.symbol = 1
           /\ part \in {"theses", "actions"} => (o.asked => o.ack /= NoTime)
           /\ o.side = "BUY" => (o.qty = IF part = "theses" \/ o.symbol = 2 THEN 1 ELSE 2)
    /\ UNCHANGED <<transportVars, flightVars, streamVars, disclosureVars, ownershipVars, reviewVars>>

MCNext ==
    /\ UNCHANGED <<part, chosen>>
    /\ TransportPart \/ FlightPart \/ StreamPart \/ DisclosurePart \/ OwnershipPart \/ ReviewPart
       \/ PaperPart

MCSpec == MCInit /\ [][MCNext]_mcVars
=============================================================================

------------------------- MODULE DisclosureCollection -------------------------
(***************************************************************************)
(* Collection of official disclosures (ExternalRuntime._events over the    *)
(* DART adapter and RuntimeState): list the receipts from the cursor on,   *)
(* read the document of each, and save. A document is durable as soon as   *)
(* it is read; the cursor, the receipts to try again and the coverage are  *)
(* saved together at the end, before the caller goes on to publish, which  *)
(* may fail. collect_lock allows one collection at once.                   *)
(***************************************************************************)
EXTENDS Integers, FiniteSets

CONSTANTS Receipts,      \* as naturals, in the order of their numbers; titles that count
          Day, Issuer,   \* of each receipt
          Corrections,   \* receipts whose original may not be found yet
          Held,          \* issuers the strategy holds
          RecentDays,        \* sessions for which an event is recent
          MaxDay, MaxUpgrades   \* bounds

ASSUME DisclosureAssumption ==
    /\ Receipts \subseteq Nat /\ MaxDay \in Nat /\ RecentDays \in Nat /\ MaxUpgrades \in Nat
    /\ Day \in [Receipts -> 1..MaxDay] /\ Corrections \subseteq Receipts

VARIABLES
    today,
    published,
    record,      \* disclosure_records, in memory and durable: at most one for each receipt
    disk, mem,   \* the namespaces saved together, and their copies in memory
    job,         \* the collection that is running
    served,      \* the coverage of the last bundle published
    covered,     \* receipts that a complete listing promised to read
    vouched,     \* those the last bundle published should know
    outside,     \* receipts the cursor passed while their issuer had no instrument
    upgrades

ghosts == <<covered, vouched, outside>>
disclosureVars == <<today, published, record, disk, mem, job, served, ghosts, upgrades>>

Issuers == {Issuer[r] : r \in Receipts}
Saved0 == [cursor |-> 1, polled |-> FALSE, pending |-> {}, coverage |-> {}]
NoJob == [at |-> "idle", scope |-> {}, scoped |-> FALSE, poll |-> FALSE, start |-> 1, upper |-> 1,
          listed |-> {}, total |-> {}, complete |-> TRUE, flawed |-> FALSE, began |-> {}, rows |-> {},
          coverage |-> {}]

DisclosureInit ==
    /\ today = 1 /\ published = {} /\ record = [r \in Receipts |-> {}]
    /\ disk = Saved0 /\ mem = Saved0 /\ job = NoJob
    /\ served = {} /\ covered = {} /\ vouched = {} /\ outside = {} /\ upgrades = 0

NextDay ==
    /\ today < MaxDay /\ today' = today + 1
    /\ UNCHANGED <<published, record, disk, mem, job, served, ghosts, upgrades>>

\* The exchange publishes; receipts of a day appear in any order.
PublishReceipt(r) ==
    /\ Day[r] = today /\ published' = published \cup {r}
    /\ UNCHANGED <<today, record, disk, mem, job, served, ghosts, upgrades>>

Recent(r) == today - Day[r] < RecentDays
Followed(r) == Recent(r) \/ Issuer[r] \in Held

Cached == {r \in Receipts : record[r] /= {}}
Outdated == {r \in Cached : \A c \in record[r] : ~c.current}

\* Rows to read: listed and new, cached by an older parser, or to try again.
Due(listed, scope) ==
    {r \in (listed \ Cached) \cup Outdated \cup mem.pending : Issuer[r] \in scope}

\* Records a bundle is made of.
Selected(scope) == {r \in Cached : Issuer[r] \in scope /\ Followed(r)}

----------------------------------------------------------------------------
(* _events: what is due, and the listing *)

\* A decision's refresh is scoped: its issuers, from the day its input was frozen.  Any other is
\* of the issuers that have an instrument in the universe, which may change.
Collect(scope, scoped, poll, since) ==
    LET start == IF scoped THEN since ELSE mem.cursor
        begun == [NoJob EXCEPT !.scope = scope, !.scoped = scoped, !.poll = poll, !.upper = today,
                               !.start = start, !.coverage = mem.coverage,
                               !.began = {r \in published : Day[r] >= start /\ Issuer[r] \in scope}]
    IN /\ job.at = "idle" /\ since <= today
       /\ scoped \/ ~mem.polled => poll
       /\ scoped \/ since = 1
       /\ job' = IF poll THEN [begun EXCEPT !.at = "listing"]
                 ELSE IF \E r \in Outdated : Issuer[r] \in scope
                   THEN [begun EXCEPT !.at = "rows", !.rows = Due({}, scope)]
                   ELSE [begun EXCEPT !.at = "selecting", !.rows = Selected(scope)]
       /\ UNCHANGED <<today, published, record, disk, mem, served, ghosts, upgrades>>

\* The list as it is now; a scoped one names the corporation.
Listable ==
    {r \in published : /\ Day[r] \in job.start..job.upper
                       /\ job.scoped => Issuer[r] \in job.scope}

Listed(rows, complete) ==
    LET issuers == IF ~complete THEN {}
                   ELSE IF job.scoped THEN job.scope \cap mem.coverage ELSE job.scope
    IN job' = [job EXCEPT !.at = "rows", !.complete = complete, !.flawed = job.scoped /\ ~complete,
                          !.start = 1, !.listed = {}, !.total = {},
                          !.coverage = (@ \ job.scope) \cup issuers,
                          !.rows = Due(rows, job.scope)]

\* One page, in the order of the numbers.  A total that changed since the first page means
\* that pages have moved; that, or a failure, leaves the listing incomplete.
ReadPage ==
    /\ job.at = "listing"
    /\ LET total == Cardinality(Listable)
           page == {r \in Listable : Cardinality({q \in Listable : q <= r}) = Cardinality(job.listed) + 1}
           listed == job.listed \cup page
       IN \/ /\ job.total \in {{}, {total}} /\ page \cap job.listed = {}
             /\ IF Cardinality(listed) >= total THEN Listed(listed, TRUE)
                ELSE job' = [job EXCEPT !.listed = listed, !.total = {total}]
          \/ Listed(job.listed, FALSE)
    /\ UNCHANGED <<today, published, record, disk, mem, served, ghosts, upgrades>>

\* Refused credentials end the collection; nothing of it is saved, what changed in memory stays.
Refuse ==
    /\ job.at \in {"listing", "rows"} /\ job' = NoJob
    /\ UNCHANGED <<today, published, record, disk, mem, served, ghosts, upgrades>>

----------------------------------------------------------------------------
(* _events: a row *)

\* The first reading counts, that of an earlier record included; one that failed after it was
\* noted may count too, if no crash forgot it.
FirstSeen(r) == IF r \in Cached THEN {c.available : c \in record[r]} ELSE Day[r]..today

\* What failed and matters to a decision (affects_current_evidence).
Flaws(r) == job.scoped /\ Recent(r)

\* save_disclosure is durable at once; a correction whose original is missing is tried again.
\* The list its original should be on may have failed, which matters to a decision.
ReadDocument(r, resolved) ==
    /\ \E a \in FirstSeen(r) :
        record' = [record EXCEPT ![r] = {[available |-> a, current |-> TRUE, resolved |-> resolved]}]
    /\ mem' = [mem EXCEPT !.pending = IF ~resolved /\ Followed(r) THEN @ \cup {r} ELSE @ \ {r}]
    /\ \E unlisted \in BOOLEAN :
        job' = [job EXCEPT !.rows = @ \ {r}, !.flawed = @ \/ (unlisted /\ ~resolved /\ Flaws(r))]

Retries(r) == mem.pending \cup {r}

FailDocument(r) ==
    /\ mem' = [mem EXCEPT !.pending = Retries(r)]
    /\ job' = [job EXCEPT !.rows = @ \ {r}, !.flawed = @ \/ Flaws(r),
                          !.coverage = IF Recent(r) THEN @ \ {Issuer[r]} ELSE @]
    /\ UNCHANGED record

Row(r) ==
    /\ job.at = "rows" /\ r \in job.rows
    /\ \/ ReadDocument(r, TRUE)
       \/ r \in Corrections /\ ReadDocument(r, FALSE)
       \/ FailDocument(r)
    /\ UNCHANGED <<today, published, disk, served, ghosts, upgrades>>

\* Mutant: a listing that failed moves the cursor too.
MovesAnyway == job.poll /\ ~job.scoped
MovesCursor == job.poll /\ job.complete /\ ~job.scoped

\* Receipts of other issuers are listed and left; the cursor passes those of earlier days.
PassedBy ==
    {r \in published : mem.cursor <= Day[r] /\ Day[r] < job.upper /\ Issuer[r] \notin job.scope}

\* RuntimeState.save: one transaction.
Save ==
    /\ job.at = "rows" /\ job.rows = {}
    /\ LET saved == [mem EXCEPT !.cursor = IF MovesCursor THEN job.upper ELSE @,
                                !.polled = @ \/ (job.poll /\ ~job.scoped),
                                !.coverage = job.coverage]
       IN mem' = saved /\ disk' = saved
    /\ covered' = IF job.poll /\ job.complete THEN covered \cup job.began ELSE covered
    /\ outside' = IF MovesCursor THEN outside \cup PassedBy ELSE outside
    /\ job' = [job EXCEPT !.at = "selecting", !.rows = Selected(job.scope), !.began = {}]
    /\ UNCHANGED <<today, published, record, served, vouched, upgrades>>

----------------------------------------------------------------------------
(* _events: what the bundle is given *)

\* _official_ir_documents: the pages a document links to are read again until they are complete.
\* An event that is not understood, or whose pages are not, leaves the coverage partial.
Select(r) ==
    /\ job.at = "selecting" /\ r \in job.rows
    /\ \E understood \in {c.resolved : c \in record[r]}, linked \in BOOLEAN :
        job' = [job EXCEPT !.rows = @ \ {r}, !.flawed = @ \/ (job.scoped /\ ~linked),
                           !.coverage = IF Recent(r) /\ ~(understood /\ linked) THEN @ \ {Issuer[r]} ELSE @]
    /\ UNCHANGED <<today, published, record, disk, mem, served, ghosts, upgrades>>

\* The bundle is published with the coverage of the issuers of the collection: instead of the
\* last one, or for a decision within it, unless something failed that matters to it.
PublishBundle ==
    LET others == IF job.scoped THEN Issuers \ job.scope ELSE {}
    IN /\ job.at = "selecting" /\ job.rows = {}
       /\ ~job.flawed
       /\ served' = (served \cap others) \cup (job.coverage \cap job.scope)
       /\ vouched' = {r \in vouched : Issuer[r] \in others} \cup {r \in covered : Issuer[r] \in job.scope}
       /\ job' = NoJob
       /\ UNCHANGED <<today, published, record, disk, mem, covered, outside, upgrades>>

\* What the caller does with the evidence raises (a cached document, bars, quotes; a decision
\* whose refresh is flawed): the collection is saved, and the bundle stays the last one.
FailPublish ==
    /\ job.at = "selecting" /\ job' = NoJob
    /\ UNCHANGED <<today, published, record, disk, mem, served, ghosts, upgrades>>

\* A restart, perhaps with another parser; the first bundle claims no coverage.
Restart(upgrade) ==
    /\ upgrade => upgrades < MaxUpgrades
    /\ upgrades' = upgrades + IF upgrade THEN 1 ELSE 0
    /\ record' = [r \in Receipts |->
                    {[c EXCEPT !.current = @ /\ ~upgrade] : c \in record[r]}]
    /\ mem' = disk /\ job' = NoJob /\ served' = {} /\ vouched' = {}
    /\ UNCHANGED <<today, published, disk, covered, outside>>

DisclosureNext ==
    \/ NextDay \/ ReadPage \/ Refuse \/ Save \/ PublishBundle \/ FailPublish
    \/ \E r \in Receipts : PublishReceipt(r) \/ Row(r) \/ Select(r)
    \/ \E scope \in SUBSET Issuers \ {{}}, scoped, poll \in BOOLEAN, since \in 1..MaxDay :
            Collect(scope, scoped, poll, since)
    \/ \E upgrade \in BOOLEAN : Restart(upgrade)

DisclosureSpec == DisclosureInit /\ [][DisclosureNext]_disclosureVars

----------------------------------------------------------------------------
(* Properties *)

\* No disclosure is lost.  A receipt of a day the durable cursor has passed is in the cache or
\* among those to try again, unless its issuer had no instrument then; so is one a complete
\* listing promised, and a recent one has been read wherever its issuer's coverage is called
\* complete: on disk, and, if it was promised before, in the bundle in use.  Failed pages and
\* documents, scoped refreshes, a publication that raises after the save, and crashes between
\* a document's save and the cursor's do not change that.  (_events, RuntimeState.save, refresh)
NoDisclosureLost ==
    /\ \A r \in published \ outside : Day[r] < disk.cursor => r \in Cached \cup disk.pending
    /\ \A r \in covered :
        /\ r \in Cached \cup disk.pending
        /\ Recent(r) /\ Issuer[r] \in disk.coverage => r \in Cached
    /\ \A r \in vouched : Recent(r) /\ Issuer[r] \in served => r \in Cached
=============================================================================

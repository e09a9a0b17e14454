--------------------------- MODULE EvidenceProofs ---------------------------
(***************************************************************************)
(* The evidence on which a position is taken: what the collection of       *)
(* official disclosures may not lose (DisclosureCollection), and what a    *)
(* review acts on (ReviewWorkflow), each by itself.                        *)
(***************************************************************************)
EXTENDS DisclosureCollection, ReviewWorkflow, FiniteSetTheorems, TLAPS

-----------------------------------------------------------------------------
(* DisclosureCollection: NoDisclosureLost for any receipts, days, issuers  *)
(* and upgrades.                                                           *)
(*                                                                         *)
(* A complete listing holds every receipt from its start to the day it     *)
(* began (Listing), so that a receipt is cached, to try again, or among    *)
(* the rows still to read, from then until it is saved (Running).  What    *)
(* is called covered is so first in the collection, then in memory and on  *)
(* disk (Known), last in a bundle, of what was promised when it was        *)
(* published (Served); only the first of these steps needs the listing,    *)
(* the others lose issuers and no more.  Nothing is said of a receipt      *)
(* outside: its issuer had no instrument when the cursor passed it.        *)

Card == [available: Nat, current: BOOLEAN, resolved: BOOLEAN]
Saved == [cursor: Nat, polled: BOOLEAN, pending: SUBSET Receipts, coverage: SUBSET Issuers]
Collection ==
    [at: {"idle", "listing", "rows", "selecting"}, scope: SUBSET Issuers, scoped: BOOLEAN,
     poll: BOOLEAN, start: Nat, upper: Nat, listed: SUBSET Receipts, total: SUBSET Nat,
     complete: BOOLEAN, flawed: BOOLEAN, began: SUBSET Receipts, rows: SUBSET Receipts, coverage: SUBSET Issuers]

DisclosureTypeOK ==
    /\ today \in Nat /\ published \subseteq Receipts /\ IsFiniteSet(published)
    /\ record \in [Receipts -> SUBSET Card]
    /\ disk \in Saved /\ mem \in Saved /\ job \in Collection
    /\ served \subseteq Issuers /\ covered \subseteq Receipts /\ vouched \subseteq Receipts

\* The recent receipts R has of the issuers of a coverage are cached.
KnownOf(R, coverage) == \A r \in R : Issuer[r] \in coverage /\ Recent(r) => r \in Cached
Known(coverage) == KnownOf(covered, coverage)

\* The cursor and the coverage change together, on disk and in memory; a receipt the cursor
\* has passed, or a listing promised, is in the cache or to try again, in both.
Durable ==
    /\ disk.cursor = mem.cursor /\ disk.coverage = mem.coverage /\ mem.cursor <= today
    /\ Known(mem.coverage)
    /\ \A r \in published : Day[r] <= today
    /\ \A r \in published \ outside : Day[r] < mem.cursor => r \in Cached \cup disk.pending /\ r \in Cached \cup mem.pending
    /\ \A r \in covered : r \in Cached \cup disk.pending /\ r \in Cached \cup mem.pending

\* A listing holds nothing but what is listed now, and all that was there when it began.
Listing ==
    job.at = "listing" =>
        /\ job.poll /\ job.upper <= today /\ job.coverage = mem.coverage /\ job.listed \subseteq Listable
        /\ ~job.scoped => job.start = mem.cursor
        /\ \A r \in job.began : r \in Listable /\ Issuer[r] \in job.scope

\* What the rows must still settle: what was promised before, and by a complete listing.
Owed == covered \cup (IF job.poll /\ job.complete THEN job.began ELSE {})

\* What a collection that read its listing still owes.
Running ==
    job.at = "rows" =>
        /\ job.upper <= today
        /\ MovesCursor =>
            \A r \in published \ outside :
                Day[r] < job.upper => r \in Cached \cup mem.pending \cup job.rows \cup PassedBy
        /\ \A r \in Owed :
            /\ r \in Cached \cup mem.pending \cup job.rows
            /\ Issuer[r] \in job.coverage /\ Recent(r) => r \in Cached \cup job.rows

Served ==
    /\ KnownOf(vouched, served)
    /\ job.at = "selecting" => Known(job.coverage)

DisclosureIInv == DisclosureTypeOK /\ Durable /\ Listing /\ Running /\ Served

-----------------------------------------------------------------------------
(* Helpers *)

LEMMA Constants ==
    /\ Receipts \subseteq Nat /\ MaxDay \in Nat /\ RecentDays \in Nat
    /\ \A r \in Receipts : Day[r] \in Nat /\ Day[r] >= 1 /\ Issuer[r] \in Issuers
  BY DisclosureAssumption DEF Issuers

\* A set that holds as many elements as the whole has them all.
LEMMA AllListed ==
    ASSUME NEW S, IsFiniteSet(S), NEW T \in SUBSET S, Cardinality(T) >= Cardinality(S)
    PROVE  T = S
  <1>1. Cardinality(T) <= Cardinality(S) /\ IsFiniteSet(T) /\ (Cardinality(S) = Cardinality(T) => S = T)
    BY FS_Subset
  <1>2. Cardinality(T) \in Nat /\ Cardinality(S) \in Nat
    BY <1>1, FS_CardinalityType
  <1> QED BY <1>1, <1>2

\* The fields of a collection.
LEMMA Fields ==
    ASSUME NEW j \in Collection
    PROVE  /\ j.at \in {"idle", "listing", "rows", "selecting"} /\ j.scope \subseteq Issuers
           /\ j.scoped \in BOOLEAN /\ j.poll \in BOOLEAN /\ j.complete \in BOOLEAN /\ j.flawed \in BOOLEAN
           /\ j.start \in Nat /\ j.upper \in Nat /\ j.total \subseteq Nat
           /\ j.listed \subseteq Receipts /\ j.began \subseteq Receipts /\ j.rows \subseteq Receipts
           /\ j.coverage \subseteq Issuers
  BY DEF Collection

LEMMA SavedFields ==
    ASSUME NEW s \in Saved
    PROVE  s.cursor \in Nat /\ s.polled \in BOOLEAN /\ s.pending \subseteq Receipts /\ s.coverage \subseteq Issuers
  BY DEF Saved

LEMMA NoJobOK == NoJob \in Collection /\ NoJob.at = "idle"
  BY DEF NoJob, Collection

\* What is known stays known, of less and when more is cached.
LEMMA StillKnown ==
    ASSUME Cached \subseteq Cached', \A r \in Receipts : Recent(r)' => Recent(r),
           NEW R \in SUBSET Receipts, NEW c, NEW d \in SUBSET c, KnownOf(R, c)
    PROVE  KnownOf(R, d)'
  BY DEF KnownOf

\* Of the variables: a step that takes nothing from the cache and leaves the promises and the
\* bundle alone keeps what is known of both.
LEMMA KnowledgeStays ==
    ASSUME DisclosureTypeOK, Cached \subseteq Cached', \A r \in Receipts : Recent(r)' => Recent(r),
           UNCHANGED <<served, ghosts>>
    PROVE  /\ \A c : Known(c) => Known(c)'
           /\ KnownOf(vouched, served) => KnownOf(vouched, served)'
  BY DEF Known, KnownOf, DisclosureTypeOK, ghosts

LEMMA InitDisclosure == DisclosureInit => DisclosureIInv
  <1> SUFFICES ASSUME DisclosureInit PROVE DisclosureIInv OBVIOUS
  <1> USE DEF DisclosureInit
  <1>1. Saved0 \in Saved /\ Saved0.cursor = 1 /\ Saved0.pending = {} /\ Saved0.coverage = {}
    BY DEF Saved0, Saved
  <1>2. DisclosureTypeOK
    BY <1>1, NoJobOK, FS_EmptySet DEF DisclosureTypeOK
  <1>3. Durable
    BY <1>1 DEF Durable, Known, KnownOf
  <1>4. Listing /\ Running /\ Served
    BY NoJobOK DEF Listing, Running, Served, KnownOf
  <1> QED BY <1>2, <1>3, <1>4 DEF DisclosureIInv

-----------------------------------------------------------------------------
(* Time, and what is published *)

LEMMA DayStep == ASSUME DisclosureIInv, NextDay PROVE DisclosureIInv'
  <1> USE DEF DisclosureIInv
  <1>1. /\ today' = today + 1 /\ today \in Nat /\ Cached' = Cached
        /\ UNCHANGED <<published, record, disk, mem, job, served, ghosts, upgrades>>
    BY DEF NextDay, DisclosureTypeOK, Cached
  <1>2. \A r \in Receipts : Recent(r)' => Recent(r)
    BY <1>1, Constants DEF Recent
  <1>3. /\ \A c : Known(c) => Known(c)'
        /\ KnownOf(vouched, served) => KnownOf(vouched, served)'
    BY <1>1, <1>2, KnowledgeStays
  <1>4. \A r \in published : Day[r] \in Nat /\ r \in Receipts
    BY Constants DEF DisclosureTypeOK
  <1>5. /\ mem.cursor \in Nat /\ job.upper \in Nat /\ job.began \subseteq Receipts
        /\ covered \subseteq Receipts
    BY Fields, SavedFields DEF DisclosureTypeOK
  <1>6. DisclosureTypeOK'
    BY <1>1 DEF DisclosureTypeOK, ghosts
  <1>7. Durable'
    BY <1>1, <1>3, <1>4, <1>5 DEF Durable, ghosts
  <1>8. Listing'
    BY <1>1, <1>5 DEF Listing, Listable
  <1>9. Running'
    <2>1. MovesCursor' = MovesCursor /\ PassedBy' = PassedBy /\ Owed' = Owed /\ Owed \subseteq Receipts
      BY <1>1, <1>5 DEF MovesCursor, PassedBy, Owed, ghosts
    <2> QED BY <1>1, <1>2, <1>5, <2>1 DEF Running, ghosts
  <1>10. Served'
    BY <1>1, <1>3 DEF Served
  <1> QED BY <1>6, <1>7, <1>8, <1>9, <1>10

\* A receipt published late is of the day, which no cursor and no listing has passed.
LEMMA PublishReceiptStep == ASSUME DisclosureIInv, NEW p \in Receipts, PublishReceipt(p) PROVE DisclosureIInv'
  <1> USE DEF DisclosureIInv
  <1>1. /\ published' = published \cup {p} /\ Day[p] = today /\ today \in Nat
        /\ UNCHANGED <<today, record, disk, mem, job, served, ghosts, upgrades>>
    BY DEF PublishReceipt, DisclosureTypeOK
  <1>2. Cached' = Cached /\ \A r \in Receipts : Recent(r)' = Recent(r)
    BY <1>1 DEF Cached, Recent
  <1>3. /\ \A c : Known(c) => Known(c)'
        /\ KnownOf(vouched, served) => KnownOf(vouched, served)'
    BY <1>1, <1>2, KnowledgeStays
  <1>4. mem.cursor \in Nat /\ job.upper \in Nat
    BY Fields, SavedFields DEF DisclosureTypeOK
  <1>5. DisclosureTypeOK'
    BY <1>1, FS_AddElement DEF DisclosureTypeOK, ghosts
  <1>6. Durable'
    BY <1>1, <1>2, <1>3, <1>4 DEF Durable, ghosts
  <1>7. Listing'
    BY <1>1 DEF Listing, Listable
  <1>8. Running'
    <2>1. MovesCursor' = MovesCursor /\ PassedBy \subseteq PassedBy' /\ Owed' = Owed
      BY <1>1 DEF MovesCursor, PassedBy, Owed, ghosts
    <2>2. job.at = "rows" => ~(Day[p] < job.upper)
      BY <1>1, <1>4 DEF Running
    <2>3. Owed \subseteq Receipts
      BY Fields DEF DisclosureTypeOK, Owed
    <2> QED BY <1>1, <1>2, <2>1, <2>2, <2>3 DEF Running, ghosts
  <1>9. Served'
    BY <1>1, <1>3 DEF Served
  <1> QED BY <1>5, <1>6, <1>7, <1>8, <1>9

-----------------------------------------------------------------------------
(* The collection *)

\* Steps of the collection alone.
LEMMA JobAlone ==
    ASSUME DisclosureIInv, job' \in Collection,
           UNCHANGED <<today, published, record, disk, mem, served, ghosts>>
    PROVE  /\ DisclosureTypeOK' /\ Durable' /\ Cached' = Cached
           /\ \A r \in Receipts : Recent(r)' = Recent(r)
           /\ \A c : Known(c)' <=> Known(c)
           /\ KnownOf(vouched, served)'
  <1> USE DEF DisclosureIInv
  <1>1. Cached' = Cached /\ \A r \in Receipts : Recent(r)' = Recent(r)
    BY DEF Cached, Recent
  <1>2. ASSUME NEW c PROVE Known(c)' <=> Known(c)
    BY <1>1 DEF Known, KnownOf, DisclosureTypeOK, ghosts
  <1>3. DisclosureTypeOK'
    BY DEF DisclosureTypeOK, ghosts
  <1>4. Durable'
    BY <1>1, <1>2 DEF Durable, ghosts
  <1>5. KnownOf(vouched, served)'
    BY <1>1, KnowledgeStays DEF Served
  <1> QED BY <1>1, <1>2, <1>3, <1>4, <1>5

\* A collection that ends unpublished leaves the bundle as it is.
LEMMA JobEnds ==
    ASSUME DisclosureIInv, job' = NoJob, UNCHANGED <<today, published, record, disk, mem, served, ghosts>>
    PROVE  DisclosureIInv'
  <1>1. DisclosureTypeOK' /\ Durable' /\ KnownOf(vouched, served)'
    BY NoJobOK, JobAlone
  <1> QED BY <1>1, NoJobOK DEF DisclosureIInv, Listing, Running, Served

LEMMA RefuseStep == ASSUME DisclosureIInv, Refuse PROVE DisclosureIInv'
  BY JobEnds DEF Refuse

LEMMA FailPublishStep == ASSUME DisclosureIInv, FailPublish PROVE DisclosureIInv'
  BY JobEnds DEF FailPublish

LEMMA DueOK == ASSUME DisclosureTypeOK, NEW rows \in SUBSET Receipts, NEW scope
               PROVE  Due(rows, scope) \subseteq Receipts
  BY SavedFields DEF Due, Cached, Outdated, DisclosureTypeOK

LEMMA CollectStep ==
    ASSUME DisclosureIInv, NEW scope \in SUBSET Issuers, NEW scoped \in BOOLEAN, NEW poll \in BOOLEAN,
           NEW since \in 1..MaxDay, Collect(scope, scoped, poll, since)
    PROVE  DisclosureIInv'
  <1> USE DEF DisclosureIInv
  <1> DEFINE start == IF scoped THEN since ELSE mem.cursor
             began == {r \in published : Day[r] >= start /\ Issuer[r] \in scope}
             begun == [NoJob EXCEPT !.scope = scope, !.scoped = scoped, !.poll = poll, !.upper = today,
                                    !.start = start, !.coverage = mem.coverage, !.began = began]
  <1>1. /\ job.at = "idle" /\ UNCHANGED <<today, published, record, disk, mem, served, ghosts>>
    BY DEF Collect
  <1>2. start \in Nat /\ today \in Nat /\ began \subseteq Receipts /\ mem.coverage \subseteq Issuers
    BY SavedFields DEF DisclosureTypeOK
  <1>3. \A r \in began : r \in published /\ Day[r] >= start /\ Issuer[r] \in scope
    OBVIOUS
  <1> HIDE DEF start, began
  <1>4. /\ begun \in Collection /\ begun.scope = scope /\ begun.scoped = scoped /\ begun.poll = poll
        /\ begun.upper = today /\ begun.start = start /\ begun.listed = {} /\ begun.began = began
        /\ begun.coverage = mem.coverage
    BY <1>2, NoJobOK, Zenon DEF NoJob, Collection
  <1>5. job' = IF poll THEN [begun EXCEPT !.at = "listing"]
               ELSE IF \E r \in Outdated : Issuer[r] \in scope
                 THEN [begun EXCEPT !.at = "rows", !.rows = Due({}, scope)]
                 ELSE [begun EXCEPT !.at = "selecting", !.rows = Selected(scope)]
    BY DEF Collect, start, began
  <1> HIDE DEF begun
  <1>6. /\ job' \in Collection /\ job'.scope = scope /\ job'.scoped = scoped /\ job'.poll = poll
        /\ job'.upper = today /\ job'.start = start /\ job'.listed = {} /\ job'.began = began
        /\ job'.coverage = mem.coverage /\ job'.at \in {"listing", "rows", "selecting"}
        /\ (job'.at = "listing" <=> poll)
    <2>1. ASSUME NEW at \in {"rows", "selecting"}, NEW rows \in SUBSET Receipts,
                 job' = [begun EXCEPT !.at = at, !.rows = rows]
          PROVE  /\ job' \in Collection /\ job'.scope = scope /\ job'.scoped = scoped /\ job'.poll = poll
                 /\ job'.upper = today /\ job'.start = start /\ job'.listed = {} /\ job'.began = began
                 /\ job'.coverage = mem.coverage /\ job'.at = at
      BY <1>4, <2>1, Zenon DEF Collection
    <2>2. Due({}, scope) \in SUBSET Receipts /\ Selected(scope) \in SUBSET Receipts
      BY DueOK DEF Selected, Cached
    <2>3. CASE poll
      <3>1. job' = [begun EXCEPT !.at = "listing"]
        BY <1>5, <2>3
      <3>2. /\ job' \in Collection /\ job'.scope = scope /\ job'.scoped = scoped /\ job'.poll = poll
            /\ job'.upper = today /\ job'.start = start /\ job'.listed = {} /\ job'.began = began
            /\ job'.coverage = mem.coverage /\ job'.at = "listing"
        BY <1>4, <3>1, Zenon DEF Collection
      <3> QED BY <2>3, <3>2
    <2>4. CASE ~poll
      BY <1>5, <2>1, <2>2, <2>4
    <2> QED BY <2>3, <2>4
  <1>7. /\ DisclosureTypeOK' /\ Durable' /\ (\A c : Known(c)' <=> Known(c)) /\ Cached' = Cached
        /\ (\A r \in Receipts : Recent(r)' = Recent(r)) /\ KnownOf(vouched, served)'
    BY <1>1, <1>6, JobAlone
  <1>8. Listing'
    <2>1. \A r \in published : Day[r] <= today
      BY DEF Durable
    <2>2. ~scoped => start = mem.cursor
      BY DEF start
    <2>3. \A r \in began : r \in Listable'
      BY <1>1, <1>2, <1>3, <1>6, <2>1, Constants DEF Listable
    <2> QED BY <1>1, <1>2, <1>3, <1>6, <2>2, <2>3 DEF Listing
  <1>9. Running'
    <2>1. job'.at = "rows" => ~poll /\ ~MovesCursor' /\ Owed' = covered
      BY <1>1, <1>6 DEF MovesCursor, Owed, ghosts
    <2>2. covered \subseteq Receipts
      BY DEF DisclosureTypeOK
    <2>3. ASSUME NEW r \in covered
          PROVE  /\ r \in (Cached \cup mem.pending \cup job.rows)'
                 /\ (Issuer[r] \in job.coverage /\ Recent(r) => r \in Cached \cup job.rows)'
      <3>1. /\ r \in Receipts /\ r \in Cached \cup mem.pending
            /\ Issuer[r] \in mem.coverage /\ Recent(r) => r \in Cached
        BY <2>2 DEF Durable, Known, KnownOf
      <3>2. Cached' = Cached /\ mem' = mem /\ Recent(r)' = Recent(r) /\ job'.coverage = mem.coverage
        BY <1>1, <1>6, <1>7, <3>1
      <3> QED BY <3>1, <3>2
    <2>4. today \in Nat /\ (job.upper <= today)'
      BY <1>1, <1>2, <1>6
    <2> QED BY <2>1, <2>3, <2>4 DEF Running
  <1>10. Served'
    <2>1. PICK c : c = mem.coverage OBVIOUS
    <2>2. Known(c)'
      BY <1>7, <2>1 DEF Durable
    <2>3. Known(job.coverage)'
      BY <1>6, <2>1, <2>2
    <2> QED BY <1>7, <2>3 DEF Served
  <1> QED BY <1>7, <1>8, <1>9, <1>10

\* A listing ends: what it holds, if complete, is every receipt from the cursor on.
LEMMA ListedStep ==
    ASSUME DisclosureIInv, job.at = "listing", NEW rows \in SUBSET Receipts, NEW complete \in BOOLEAN,
           complete => rows = Listable, Listed(rows, complete),
           UNCHANGED <<today, published, record, disk, mem, served, ghosts>>
    PROVE  DisclosureIInv'
  <1> USE DEF DisclosureIInv
  <1> DEFINE issuers == IF ~complete THEN {}
                        ELSE IF job.scoped THEN job.scope \cap mem.coverage ELSE job.scope
             coverage == (job.coverage \ job.scope) \cup issuers
             due == Due(rows, job.scope)
  <1>1. job \in Collection /\ mem.coverage \subseteq Issuers /\ due \subseteq Receipts
    BY SavedFields, DueOK DEF DisclosureTypeOK
  <1>2. coverage \subseteq Issuers
    BY <1>1, Fields
  <1>3. PICK flawed \in BOOLEAN :
          job' = [job EXCEPT !.at = "rows", !.complete = complete, !.flawed = flawed, !.start = 1, !.listed = {},
                             !.total = {}, !.coverage = coverage, !.rows = due]
    BY <1>1, Fields DEF Listed
  <1> HIDE DEF coverage, due
  <1>4. /\ job' \in Collection /\ job'.at = "rows" /\ job'.complete = complete /\ job'.coverage = coverage
        /\ job'.rows = due /\ job'.scope = job.scope /\ job'.scoped = job.scoped /\ job'.poll = job.poll
        /\ job'.upper = job.upper /\ job'.began = job.began
    BY <1>1, <1>2, <1>3, Zenon DEF Collection
  <1>5. /\ DisclosureTypeOK' /\ Durable' /\ Cached' = Cached /\ KnownOf(vouched, served)'
        /\ \A r \in Receipts : Recent(r)' = Recent(r)
    BY <1>4, JobAlone
  <1>6. \A r \in Receipts : complete /\ Issuer[r] \in job.scope /\ r \in Listable => r \in Cached \cup due
    BY DEF due, Due
  <1>7. \A r \in Receipts : Issuer[r] \in job.scope /\ r \in mem.pending => r \in due
    BY DEF due, Due
  <1>8. covered \subseteq Receipts /\ job.began \subseteq Receipts /\ published \subseteq Receipts
    BY <1>1, Fields DEF DisclosureTypeOK
  <1>9. ASSUME MovesCursor', NEW r \in published \ outside, Day[r] < job.upper
        PROVE  r \in Cached \cup mem.pending \cup due \cup PassedBy
    <2>1. /\ complete /\ ~job.scoped /\ r \in Receipts /\ Day[r] \in Nat /\ job.upper \in Nat
          /\ job.start = mem.cursor /\ mem.cursor \in Nat
      BY <1>1, <1>4, <1>8, <1>9, Constants, Fields, SavedFields DEF DisclosureTypeOK, Listing, MovesCursor
    <2>2. CASE Day[r] < mem.cursor
      BY <1>9, <2>2 DEF Durable
    <2>3. CASE ~(Day[r] < mem.cursor) /\ Issuer[r] \notin job.scope
      BY <1>9, <2>1, <2>3 DEF PassedBy
    <2>4. CASE ~(Day[r] < mem.cursor) /\ Issuer[r] \in job.scope
      <3>1. r \in Listable
        BY <1>9, <2>1, <2>4 DEF Listable
      <3> QED BY <1>6, <2>1, <2>4, <3>1
    <2> QED BY <2>2, <2>3, <2>4
  <1>10. Owed' = covered \cup (IF job.poll /\ complete THEN job.began ELSE {})
    BY <1>4 DEF Owed, ghosts
  \* What is promised by this listing is on it, and what was promised is to try again.
  <1>11. ASSUME NEW r \in Owed'
         PROVE  /\ r \in Cached \cup mem.pending \cup due
                /\ Issuer[r] \in coverage /\ Recent(r) => r \in Cached \cup due
    <2>1. CASE complete /\ r \in job.began
      BY <1>6, <1>8, <2>1 DEF Listing
    <2>2. CASE r \in covered
      <3>1. /\ r \in Receipts /\ r \in Cached \cup mem.pending
            /\ Issuer[r] \in mem.coverage /\ Recent(r) => r \in Cached
        BY <1>8, <2>2 DEF Durable, Known, KnownOf
      <3>2. CASE Issuer[r] \in job.scope
        BY <1>7, <3>1, <3>2
      <3>3. CASE Issuer[r] \notin job.scope
        <4>1. Issuer[r] \in coverage => Issuer[r] \in mem.coverage
          BY <3>3 DEF coverage, Listing
        <4> QED BY <3>1, <4>1
      <3> QED BY <3>2, <3>3
    <2> QED BY <1>10, <1>11, <2>1, <2>2
  <1>12. PassedBy' = PassedBy /\ Owed' \subseteq Receipts
    BY <1>4, <1>8, <1>10 DEF PassedBy
  <1>13. Running'
    BY <1>4, <1>5, <1>9, <1>11, <1>12 DEF Running, Listing, ghosts
  <1>14. Listing' /\ Served'
    BY <1>4, <1>5 DEF Listing, Served
  <1> QED BY <1>5, <1>13, <1>14

LEMMA ReadPageStep == ASSUME DisclosureIInv, ReadPage PROVE DisclosureIInv'
  <1> USE DEF DisclosureIInv
  <1> DEFINE total == Cardinality(Listable)
             page == {r \in Listable : Cardinality({q \in Listable : q <= r}) = Cardinality(job.listed) + 1}
             listed == job.listed \cup page
  <1>1. /\ job.at = "listing" /\ UNCHANGED <<today, published, record, disk, mem, served, ghosts>>
        /\ \/ Cardinality(listed) >= total /\ Listed(listed, TRUE)
           \/ job' = [job EXCEPT !.listed = listed, !.total = {total}]
           \/ Listed(job.listed, FALSE)
    BY DEF ReadPage
  <1>2. /\ IsFiniteSet(Listable) /\ Listable \subseteq Receipts /\ total \in Nat
        /\ job.listed \subseteq Listable /\ page \subseteq Listable
    <2>1. Listable \subseteq published /\ IsFiniteSet(published) /\ published \subseteq Receipts
      BY DEF Listable, DisclosureTypeOK
    <2>2. IsFiniteSet(Listable)
      BY <2>1, FS_Subset
    <2> QED BY <1>1, <2>1, <2>2, FS_CardinalityType DEF Listing
  <1> HIDE DEF total, page
  <1>3. CASE Cardinality(listed) >= total /\ Listed(listed, TRUE)
    <2>1. listed = Listable
      BY <1>2, <1>3, AllListed DEF total
    <2> QED BY <1>1, <1>2, <1>3, <2>1, ListedStep
  <1>4. CASE Listed(job.listed, FALSE)
    BY <1>1, <1>2, <1>4, ListedStep
  <1>5. CASE job' = [job EXCEPT !.listed = listed, !.total = {total}]
    <2>1. job \in Collection /\ listed \in SUBSET Receipts /\ {total} \in SUBSET Nat
      BY <1>2 DEF DisclosureTypeOK
    <2> HIDE DEF listed
    <2>2. /\ job' \in Collection /\ job'.at = job.at /\ job'.scope = job.scope /\ job'.scoped = job.scoped
          /\ job'.poll = job.poll /\ job'.start = job.start /\ job'.upper = job.upper
          /\ job'.listed = listed /\ job'.began = job.began /\ job'.coverage = job.coverage
      BY <1>5, <2>1, Zenon DEF Collection
    <2>3. DisclosureTypeOK' /\ Durable' /\ KnownOf(vouched, served)'
      BY <1>1, <2>2, JobAlone
    <2>4. Listable' = Listable /\ listed \subseteq Listable
      BY <1>1, <1>2, <2>2 DEF Listable, listed
    <2>5. Listing'
      BY <1>1, <2>2, <2>4 DEF Listing
    <2>6. Running' /\ Served'
      BY <1>1, <2>2, <2>3 DEF Running, Served
    <2> QED BY <2>3, <2>5, <2>6
  <1> QED BY <1>1, <1>3, <1>4, <1>5

\* A row that was read is in the cache, one that failed is to be tried again and takes its
\* issuer out of the coverage.
LEMMA RowRead ==
    ASSUME DisclosureIInv, NEW r \in Receipts, Row(r), NEW resolved \in BOOLEAN, ReadDocument(r, resolved)
    PROVE  /\ record' \in [Receipts -> SUBSET Card] /\ Cached \subseteq Cached' /\ r \in Cached'
           /\ mem.pending \ {r} \subseteq mem'.pending
           /\ mem' \in Saved /\ mem' = [mem EXCEPT !.pending = mem'.pending]
           /\ \E flawed \in BOOLEAN :
                job' = [job EXCEPT !.rows = @ \ {r}, !.flawed = flawed, !.coverage = job.coverage]
  <1> USE DEF DisclosureIInv
  <1>1. job \in Collection /\ mem \in Saved /\ record \in [Receipts -> SUBSET Card]
    BY DEF DisclosureTypeOK
  <1>2. PICK a \in FirstSeen(r) :
            record' = [record EXCEPT ![r] = {[available |-> a, current |-> TRUE, resolved |-> resolved]}]
    BY DEF ReadDocument
  <1>3. a \in Nat
    <2>1. \A c \in record[r] : c.available \in Nat
      BY <1>1 DEF Card
    <2>2. Day[r] \in Nat /\ today \in Nat
      BY Constants DEF DisclosureTypeOK
    <2> QED BY <1>2, <2>1, <2>2 DEF FirstSeen
  <1>4. [available |-> a, current |-> TRUE, resolved |-> resolved] \in Card
    BY <1>3 DEF Card
  <1>5. record' \in [Receipts -> SUBSET Card] /\ Cached \subseteq Cached' /\ r \in Cached'
    BY <1>1, <1>2, <1>4 DEF Cached
  <1>6. mem' = [mem EXCEPT !.pending = IF ~resolved /\ Followed(r) THEN @ \cup {r} ELSE @ \ {r}]
    BY DEF ReadDocument
  <1>7. PICK pending \in SUBSET Receipts :
            mem' = [mem EXCEPT !.pending = pending] /\ mem.pending \ {r} \subseteq pending
    <2>1. CASE ~resolved /\ Followed(r)
      BY <1>1, <1>6, <2>1, SavedFields
    <2>2. CASE ~(~resolved /\ Followed(r))
      BY <1>1, <1>6, <2>2, SavedFields
    <2> QED BY <2>1, <2>2
  <1>8. mem' \in Saved /\ mem'.pending = pending
    BY <1>1, <1>7, Zenon DEF Saved
  <1>9. PICK flawed \in BOOLEAN :
            job' = [job EXCEPT !.rows = @ \ {r}, !.flawed = flawed, !.coverage = job.coverage]
    <2>1. PICK unlisted \in BOOLEAN :
            job' = [job EXCEPT !.rows = @ \ {r}, !.flawed = @ \/ (unlisted /\ ~resolved /\ Flaws(r))]
      BY DEF ReadDocument
    <2>2. PICK flawed \in BOOLEAN : flawed = (job.flawed \/ (unlisted /\ ~resolved /\ Flaws(r)))
      OBVIOUS
    <2>3. job' = [job EXCEPT !.rows = @ \ {r}, !.flawed = flawed]
      BY <2>1, <2>2, Zenon
    <2> QED BY <1>1, <2>3 DEF Collection
  <1> QED BY <1>5, <1>7, <1>8, <1>9

LEMMA RowFailed ==
    ASSUME DisclosureIInv, NEW r \in Receipts, Row(r), FailDocument(r)
    PROVE  /\ record' = record /\ mem.pending \cup {r} \subseteq mem'.pending
           /\ mem' \in Saved /\ mem' = [mem EXCEPT !.pending = mem'.pending]
           /\ \E coverage \in SUBSET job.coverage, flawed \in BOOLEAN :
                /\ job' = [job EXCEPT !.rows = @ \ {r}, !.flawed = flawed, !.coverage = coverage]
                /\ Recent(r) => Issuer[r] \notin coverage
  <1> USE DEF DisclosureIInv
  <1>1. job \in Collection /\ mem \in Saved /\ record' = record
    BY DEF DisclosureTypeOK, FailDocument
  <1>2. PICK pending \in SUBSET Receipts :
            mem' = [mem EXCEPT !.pending = pending] /\ mem.pending \cup {r} \subseteq pending
    BY <1>1, SavedFields DEF FailDocument, Retries
  <1>3. mem' \in Saved /\ mem'.pending = pending
    BY <1>1, <1>2, Zenon DEF Saved
  <1>4. PICK flawed \in BOOLEAN : flawed = (job.flawed \/ Flaws(r))
    OBVIOUS
  <1>5. PICK coverage \in SUBSET job.coverage :
            coverage = IF Recent(r) THEN job.coverage \ {Issuer[r]} ELSE job.coverage
    OBVIOUS
  <1>6. job' = [job EXCEPT !.rows = @ \ {r}, !.flawed = flawed, !.coverage = coverage]
    BY <1>4, <1>5, Zenon DEF FailDocument
  <1>7. Recent(r) => Issuer[r] \notin coverage
    BY <1>5
  <1> QED BY <1>1, <1>2, <1>3, <1>6, <1>7

LEMMA RowStep == ASSUME DisclosureIInv, NEW r \in Receipts, Row(r) PROVE DisclosureIInv'
  <1> USE DEF DisclosureIInv
  <1>1. /\ job.at = "rows" /\ r \in job.rows
        /\ UNCHANGED <<today, published, disk, served, ghosts>>
        /\ job \in Collection /\ mem \in Saved /\ record \in [Receipts -> SUBSET Card]
        /\ covered \subseteq Receipts /\ published \subseteq Receipts
    BY DEF Row, DisclosureTypeOK
  <1>2. /\ record' \in [Receipts -> SUBSET Card] /\ Cached \subseteq Cached'
        /\ mem' \in Saved /\ mem' = [mem EXCEPT !.pending = mem'.pending]
        /\ mem.pending \ {r} \subseteq mem'.pending /\ r \in Cached' \cup mem'.pending
    <2>1. CASE \E resolved \in BOOLEAN : ReadDocument(r, resolved)
      BY <2>1, RowRead
    <2>2. CASE FailDocument(r)
      BY <1>1, <2>2, RowFailed DEF Cached
    <2> QED BY <2>1, <2>2 DEF Row
  <1>3. PICK coverage \in SUBSET job.coverage, flawed \in BOOLEAN :
            /\ job' = [job EXCEPT !.rows = @ \ {r}, !.flawed = flawed, !.coverage = coverage]
            /\ r \in Cached' \/ (Recent(r) => Issuer[r] \notin coverage)
    <2>1. CASE \E resolved \in BOOLEAN : ReadDocument(r, resolved)
      BY <2>1, RowRead
    <2>2. CASE FailDocument(r)
      BY <2>2, RowFailed
    <2> QED BY <2>1, <2>2 DEF Row
  <1>4. /\ job' \in Collection /\ job'.at = "rows" /\ job'.rows = job.rows \ {r}
        /\ job'.scope = job.scope /\ job'.scoped = job.scoped /\ job'.poll = job.poll
        /\ job'.upper = job.upper /\ job'.complete = job.complete /\ job'.began = job.began
        /\ job'.coverage = coverage
    <2>1. coverage \subseteq Issuers
      BY <1>1, Fields
    <2>2. PICK rows \in SUBSET Receipts : rows = job.rows \ {r}
      BY <1>1, Fields
    <2>3. job' = [job EXCEPT !.rows = rows, !.flawed = flawed, !.coverage = coverage]
      BY <1>3, <2>2
    <2> QED BY <1>1, <1>3, <2>1, <2>2, <2>3, Zenon DEF Collection
  <1>5. mem'.cursor = mem.cursor /\ mem'.coverage = mem.coverage
    BY <1>1, <1>2 DEF Saved
  <1>6. \A q \in Receipts : Recent(q)' = Recent(q)
    BY <1>1 DEF Recent
  <1>7. /\ \A c : Known(c) => Known(c)'
        /\ KnownOf(vouched, served)'
    BY <1>1, <1>2, <1>6, KnowledgeStays DEF Served
  <1>8. DisclosureTypeOK'
    BY <1>1, <1>2, <1>4 DEF DisclosureTypeOK, ghosts
  <1>9. \A q : q \in Cached \cup mem.pending => q \in (Cached \cup mem.pending)'
    BY <1>2
  <1>10. Durable'
    <2>1. PICK c : c = mem.coverage OBVIOUS
    <2>2. Known(c)'
      BY <1>7, <2>1 DEF Durable
    <2>3. Known(mem.coverage)'
      BY <1>5, <2>1, <2>2
    <2> QED BY <1>1, <1>2, <1>5, <1>9, <2>3 DEF Durable, ghosts
  <1>11. Listing' /\ Served'
    BY <1>4, <1>7 DEF Listing, Served
  <1>12. MovesCursor' = MovesCursor /\ PassedBy' = PassedBy /\ Owed' = Owed /\ Owed \subseteq Receipts
    BY <1>1, <1>4, <1>5, Fields DEF MovesCursor, PassedBy, Owed, ghosts
  <1>13. Running'
    <2>1. ASSUME MovesCursor', NEW q \in published' \ outside', Day[q] < job'.upper
          PROVE  q \in (Cached \cup mem.pending \cup job.rows \cup PassedBy)'
      <3>1. q \in Cached \cup mem.pending \cup job.rows \cup PassedBy
        BY <1>1, <1>4, <1>12, <2>1 DEF Running, ghosts
      <3> QED BY <1>2, <1>4, <1>9, <1>12, <3>1
    <2>2. ASSUME NEW q \in Owed'
          PROVE  /\ q \in (Cached \cup mem.pending \cup job.rows)'
                 /\ (Issuer[q] \in job.coverage /\ Recent(q) => q \in Cached \cup job.rows)'
      <3>1. /\ q \in Receipts /\ q \in Cached \cup mem.pending \cup job.rows
            /\ Issuer[q] \in job.coverage /\ Recent(q) => q \in Cached \cup job.rows
        BY <1>1, <1>12 DEF Running
      <3>2. q \in (Cached \cup mem.pending \cup job.rows)'
        BY <1>2, <1>4, <1>9, <3>1
      <3>3. ASSUME Issuer[q] \in job'.coverage, Recent(q)' PROVE q \in Cached' \cup job'.rows
        BY <1>2, <1>3, <1>4, <1>6, <3>1, <3>3
      <3> QED BY <3>2, <3>3
    <2> QED BY <1>1, <1>4, <2>1, <2>2 DEF Running
  <1> QED BY <1>8, <1>10, <1>11, <1>13

LEMMA SaveStep == ASSUME DisclosureIInv, Save PROVE DisclosureIInv'
  <1> USE DEF DisclosureIInv
  <1> DEFINE cursor == IF MovesCursor THEN job.upper ELSE mem.cursor
             polled == mem.polled \/ (job.poll /\ ~job.scoped)
             saved == [mem EXCEPT !.cursor = cursor, !.polled = polled, !.coverage = job.coverage]
             rows == Selected(job.scope)
  <1>1. /\ job.at = "rows" /\ job.rows = {} /\ UNCHANGED <<today, published, record, served, vouched>>
        /\ mem' = saved /\ disk' = saved /\ covered' = Owed
        /\ outside' = IF MovesCursor THEN outside \cup PassedBy ELSE outside
        /\ job' = [job EXCEPT !.at = "selecting", !.rows = rows, !.began = {}]
    BY DEF Save, Owed
  <1>2. /\ job \in Collection /\ mem \in Saved /\ rows \subseteq Receipts
        /\ cursor \in Nat /\ polled \in BOOLEAN /\ job.coverage \subseteq Issuers
        /\ Owed \subseteq Receipts /\ vouched \subseteq Receipts
    BY Fields, SavedFields DEF DisclosureTypeOK, Selected, Cached, Owed
  <1> HIDE DEF cursor, polled, rows
  <1>3. saved \in Saved /\ saved.cursor = cursor /\ saved.coverage = job.coverage /\ saved.pending = mem.pending
    BY <1>2, Zenon DEF Saved
  <1>4. job' \in Collection /\ job'.at = "selecting" /\ job'.coverage = job.coverage
    BY <1>1, <1>2, Zenon DEF Collection
  <1> HIDE DEF saved
  <1>5. Cached' = Cached /\ \A r \in Receipts : Recent(r)' = Recent(r)
    BY <1>1 DEF Cached, Recent
  <1>6. DisclosureTypeOK'
    BY <1>1, <1>2, <1>3, <1>4 DEF DisclosureTypeOK
  \* No row is left, so that what was owed is settled.
  <1>7. \A r \in Owed : /\ r \in Cached \cup mem.pending
                        /\ Issuer[r] \in job.coverage /\ Recent(r) => r \in Cached
    BY <1>1 DEF Running
  <1>8. Known(job.coverage)'
    BY <1>1, <1>2, <1>4, <1>5, <1>7 DEF Known, KnownOf
  <1>9. cursor <= today /\ \A r \in published \ outside' : Day[r] < cursor => r \in Cached \cup mem.pending
    BY <1>1 DEF cursor, Durable, Running
  <1>10. Durable'
    <2>1. PICK c : c = job'.coverage OBVIOUS
    <2>2. mem'.coverage = c /\ Known(c)'
      BY <1>1, <1>3, <1>4, <1>8, <2>1
    <2>3. Known(mem.coverage)'
      BY <2>2
    <2> QED BY <1>1, <1>3, <1>5, <1>7, <1>9, <2>3 DEF Durable
  <1>11. KnownOf(vouched, served)'
    BY <1>1, <1>2, <1>5 DEF Served, KnownOf
  <1>12. Listing' /\ Running' /\ Served'
    BY <1>4, <1>8, <1>11 DEF Listing, Running, Served
  <1> QED BY <1>6, <1>10, <1>12

LEMMA SelectStep == ASSUME DisclosureIInv, NEW r \in Receipts, Select(r) PROVE DisclosureIInv'
  <1> USE DEF DisclosureIInv
  <1>1. /\ job.at = "selecting" /\ UNCHANGED <<today, published, record, disk, mem, served, ghosts>>
        /\ job \in Collection
    BY DEF Select, DisclosureTypeOK
  <1>2. PICK coverage \in SUBSET job.coverage, flawed \in BOOLEAN :
            job' = [job EXCEPT !.rows = @ \ {r}, !.flawed = flawed, !.coverage = coverage]
    <2>1. PICK understood \in {c.resolved : c \in record[r]}, linked \in BOOLEAN :
            job' = [job EXCEPT !.rows = @ \ {r}, !.flawed = @ \/ (job.scoped /\ ~linked),
                               !.coverage = IF Recent(r) /\ ~(understood /\ linked) THEN @ \ {Issuer[r]} ELSE @]
      BY DEF Select
    <2>2. PICK coverage \in SUBSET job.coverage :
            coverage = IF Recent(r) /\ ~(understood /\ linked) THEN job.coverage \ {Issuer[r]} ELSE job.coverage
      OBVIOUS
    <2>3. PICK flawed \in BOOLEAN : flawed = (job.flawed \/ (job.scoped /\ ~linked))
      OBVIOUS
    <2>4. job' = [job EXCEPT !.rows = @ \ {r}, !.flawed = flawed, !.coverage = coverage]
      BY <2>1, <2>2, <2>3, Zenon
    <2> QED BY <2>4
  <1>3. PICK rows \in SUBSET Receipts : rows = job.rows \ {r}
    BY <1>1, Fields
  <1>4. job' = [job EXCEPT !.rows = rows, !.flawed = flawed, !.coverage = coverage]
    BY <1>2, <1>3
  <1>5. coverage \subseteq Issuers
    BY <1>1, Fields
  <1>6. job' \in Collection /\ job'.at = job.at /\ job'.coverage = coverage
    BY <1>1, <1>2, <1>3, <1>4, <1>5, Zenon DEF Collection
  <1>7. DisclosureTypeOK' /\ Durable' /\ (\A c : Known(c)' <=> Known(c)) /\ KnownOf(vouched, served)'
    BY <1>1, <1>6, JobAlone
  <1>8. Known(job.coverage)'
    <2>1. Known(coverage)
      BY <1>1 DEF Served, Known, KnownOf
    <2>2. PICK c : c = coverage OBVIOUS
    <2>3. Known(c)'
      BY <1>7, <2>1, <2>2
    <2> QED BY <1>6, <2>2, <2>3
  <1>9. Listing' /\ Running' /\ Served'
    BY <1>1, <1>6, <1>7, <1>8 DEF Listing, Running, Served
  <1> QED BY <1>7, <1>9

\* A bundle vouches for what its collection knew; within it, a decision's, for what it replaced.
LEMMA PublishBundleStep == ASSUME DisclosureIInv, PublishBundle PROVE DisclosureIInv'
  <1> USE DEF DisclosureIInv
  <1>1. PICK others :
        /\ job.at = "selecting" /\ job' = NoJob
        /\ UNCHANGED <<today, published, record, disk, mem, covered, outside>>
        /\ others \subseteq Issuers \ job.scope
        /\ served' = (served \cap others) \cup (job.coverage \cap job.scope)
        /\ vouched' = {r \in vouched : Issuer[r] \in others} \cup {r \in covered : Issuer[r] \in job.scope}
    BY DEF PublishBundle
  <1>2. Cached' = Cached /\ \A r \in Receipts : Recent(r)' = Recent(r)
    BY <1>1 DEF Cached, Recent
  <1>3. job.coverage \subseteq Issuers /\ covered \subseteq Receipts /\ vouched \subseteq Receipts
    BY Fields DEF DisclosureTypeOK
  <1>4. DisclosureTypeOK'
    BY <1>1, <1>3, NoJobOK DEF DisclosureTypeOK
  <1>5. Known(mem.coverage)'
    BY <1>1, <1>2, <1>3 DEF Durable, Known, KnownOf
  <1>6. Durable'
    BY <1>1, <1>2, <1>5 DEF Durable
  <1>7. KnownOf(vouched, served)'
    BY <1>1, <1>2, <1>3 DEF Served, Known, KnownOf
  <1> QED BY <1>1, <1>4, <1>6, <1>7, NoJobOK DEF Listing, Running, Served

\* Documents are durable one by one; what was not saved with the cursor is forgotten with it.
LEMMA RestartStep == ASSUME DisclosureIInv, NEW upgrade \in BOOLEAN, Restart(upgrade) PROVE DisclosureIInv'
  <1> USE DEF DisclosureIInv
  <1>1. /\ mem' = disk /\ job' = NoJob /\ served' = {} /\ vouched' = {}
        /\ UNCHANGED <<today, published, disk, covered, outside>>
        /\ record' = [r \in Receipts |-> {[c EXCEPT !.current = @ /\ ~upgrade] : c \in record[r]}]
    BY DEF Restart
  <1>2. record' \in [Receipts -> SUBSET Card]
    <2>1. ASSUME NEW c \in Card PROVE [c EXCEPT !.current = @ /\ ~upgrade] \in Card
      <3>1. PICK b \in BOOLEAN : b = (c.current /\ ~upgrade)
        OBVIOUS
      <3>2. [c EXCEPT !.current = b] \in Card
        BY Zenon DEF Card
      <3> QED BY <3>1, <3>2
    <2> QED BY <1>1, <2>1 DEF DisclosureTypeOK
  <1>3. Cached' = Cached
    BY <1>1 DEF Cached
  <1>4. \A r \in Receipts : Recent(r)' = Recent(r)
    BY <1>1 DEF Recent
  <1>5. DisclosureTypeOK'
    BY <1>1, <1>2, NoJobOK DEF DisclosureTypeOK
  <1>6. Known(mem.coverage)'
    BY <1>1, <1>3, <1>4 DEF Durable, Known, KnownOf, DisclosureTypeOK
  <1>7. Durable'
    BY <1>1, <1>3, <1>6 DEF Durable
  <1> QED BY <1>1, <1>5, <1>7, NoJobOK DEF Listing, Running, Served, KnownOf

-----------------------------------------------------------------------------
(* The theorem *)

LEMMA NextDisclosure == DisclosureIInv /\ [DisclosureNext]_disclosureVars => DisclosureIInv'
  <1> SUFFICES ASSUME DisclosureIInv, [DisclosureNext]_disclosureVars PROVE DisclosureIInv'
    OBVIOUS
  <1>1. CASE NextDay
    BY <1>1, DayStep
  <1>2. CASE ReadPage
    BY <1>2, ReadPageStep
  <1>3. CASE Refuse
    BY <1>3, RefuseStep
  <1>4. CASE Save
    BY <1>4, SaveStep
  <1>5. CASE PublishBundle
    BY <1>5, PublishBundleStep
  <1>6. CASE FailPublish
    BY <1>6, FailPublishStep
  <1>7. CASE \E r \in Receipts : PublishReceipt(r) \/ Row(r) \/ Select(r)
    BY <1>7, PublishReceiptStep, RowStep, SelectStep
  <1>8. CASE \E scope \in SUBSET Issuers \ {{}}, scoped, poll \in BOOLEAN, since \in 1..MaxDay :
                Collect(scope, scoped, poll, since)
    BY <1>8, CollectStep
  <1>9. CASE \E upgrade \in BOOLEAN : Restart(upgrade)
    BY <1>9, RestartStep
  <1>10. CASE UNCHANGED disclosureVars
    BY <1>10 DEF disclosureVars, ghosts, DisclosureIInv, DisclosureTypeOK, Durable, Listing, Listable, Running,
                 Owed, PassedBy, Served, Known, KnownOf, Cached, Recent, MovesCursor
  <1> QED BY <1>1, <1>2, <1>3, <1>4, <1>5, <1>6, <1>7, <1>8, <1>9, <1>10 DEF DisclosureNext

\* No disclosure is lost: one of a day the durable cursor has passed, of an issuer that had an
\* instrument then, is in the cache or among those to try again; so is one that a complete
\* listing promised, and a recent one of these has been read where the coverage on disk calls
\* its issuer complete, or, if it was promised before, the coverage of the bundle in use: across
\* failed pages and documents, scoped refreshes, publications that raise after the save,
\* upgrades and crashes.  (_events, RuntimeState.save, refresh)
THEOREM NothingLost == DisclosureSpec => []NoDisclosureLost
  <1>1. DisclosureIInv => NoDisclosureLost
    BY DEF DisclosureIInv, Durable, Served, Known, KnownOf, NoDisclosureLost
  <1> QED BY <1>1, InitDisclosure, NextDisclosure, PTL DEF DisclosureSpec

-----------------------------------------------------------------------------
(* ReviewWorkflow: JudgementCurrent for any amount of evidence, any number *)
(* of account changes and reviews.                                         *)
(*                                                                         *)
(* What the model had seen is fixed by Freeze, what it should have seen by *)
(* Attempt.  Between them stands the collection that the reviewer starts   *)
(* after the answer: it is at least as new as the answer (Collecting), and *)
(* only if it equals what was frozen does the review go on (Judging).      *)

Places == {"idle", "refresh", "assign", "holdings", "working", "quotes", "freeze", "ask", "attempt",
           "answered", "recheck", "validate", "judge", "protect", "plan", "pending", "intent",
           "preflight", "arrive", "check", "reserve", "send", "sent", "complete"}

\* Where the answer has been compared with the evidence collected after it.
Validated == {"judge", "protect", "plan", "pending", "intent", "preflight", "arrive", "check",
              "reserve", "send"}

ReviewRecord == [at : Places, owned : BOOLEAN, frozen : Nat, version : Nat, answered : Nat,
                 late : BOOLEAN, retries : Nat, repairs : Nat, current : Nat, intent : Nat]

ReviewTypeOK ==
    /\ evidence \in Nat /\ newest \in Nat /\ bundle \in Nat /\ protecting \in SUBSET Nat
    /\ collection \in [by : {"nobody", "service", "review"}, evidence : Nat]
    /\ held \in BOOLEAN /\ working \in BOOLEAN /\ version \in Nat
    /\ review \in ReviewRecord

\* The reviewer collects only where _review calls refresh, and after its answer no less than
\* was public then.
Collecting ==
    /\ review.answered <= evidence
    /\ collection.by = "review" => review.at \in {"refresh", "recheck", "preflight"}
    /\ collection.by = "review" /\ review.at = "recheck" => collection.evidence >= review.answered

\* What is acted on is what the answer was given for, and that was all there was.
Judging ==
    /\ review.at = "validate" => review.current >= review.answered
    /\ review.at \in Validated => review.frozen >= review.answered

ReviewIInv == ReviewTypeOK /\ Collecting /\ Judging

LEMMA InitReview == ReviewInit => ReviewIInv
  BY ReviewAssumption
     DEF ReviewInit, ReviewIInv, ReviewTypeOK, ReviewRecord, Places, Validated, Collecting, Judging,
         NoCollection, NoReview

LEMMA NoReviewIsOne == NoReview \in ReviewRecord
  BY DEF NoReview, ReviewRecord, Places

\* A review sent elsewhere keeps all it carries.
LEMMA GoingElsewhere ==
    ASSUME review \in ReviewRecord, NEW place \in Places, To(place)
    PROVE  /\ review' \in ReviewRecord /\ review'.at = place
           /\ review'.frozen = review.frozen /\ review'.answered = review.answered
           /\ review'.current = review.current
  <1>1. review' = [review EXCEPT !.at = place] BY DEF To
  <1>2. review' \in ReviewRecord BY <1>1, ZenonT(30) DEF ReviewRecord
  <1>3. review'.at = place BY <1>1 DEF ReviewRecord
  <1>4. /\ review'.frozen = review.frozen /\ review'.answered = review.answered
        /\ review'.current = review.current
    BY <1>1 DEF ReviewRecord
  <1> QED BY <1>2, <1>3, <1>4

\* A review that ends carries nothing.
LEMMA Ending ==
    ASSUME ReviewIInv, End, held' \in BOOLEAN, working' \in BOOLEAN, version' \in Nat,
           collection' = NoCollection \/ (UNCHANGED collection /\ collection.by # "review"),
           newest' \in Nat, bundle' \in Nat, protecting' \in SUBSET Nat, evidence' \in Nat
    PROVE  ReviewIInv'
  <1>1. review' = NoReview /\ review' \in ReviewRecord BY NoReviewIsOne DEF End
  <1>2. ReviewTypeOK'
    BY <1>1 DEF ReviewIInv, ReviewTypeOK, NoCollection
  <1>3. Collecting' /\ Judging'
    BY <1>1, <1>2 DEF Collecting, Judging, NoReview, NoCollection, Validated, ReviewTypeOK
  <1> QED BY <1>2, <1>3 DEF ReviewIInv

LEMMA DiscloseKeeps == ASSUME ReviewIInv, Disclose PROVE ReviewIInv'
  <1> USE DEF ReviewIInv, Disclose, account, model
  <1>1. ReviewTypeOK'
    BY DEF ReviewTypeOK
  <1>2. Collecting' /\ Judging'
    BY DEF ReviewTypeOK, ReviewRecord, Collecting, Judging, Validated
  <1> QED BY <1>1, <1>2

LEMMA PauseKeeps == ASSUME ReviewIInv, Pause PROVE ReviewIInv'
  <1> USE DEF ReviewIInv, Pause, Changed, market, model
  <1>1. ReviewTypeOK'
    BY DEF ReviewTypeOK
  <1>2. Collecting' /\ Judging'
    BY DEF ReviewTypeOK, ReviewRecord, Collecting, Judging, Validated
  <1> QED BY <1>1, <1>2

LEMMA MonitorRefreshKeeps == ASSUME ReviewIInv, MonitorRefresh PROVE ReviewIInv'
  <1> USE DEF ReviewIInv, MonitorRefresh, account, model
  <1>1. ReviewTypeOK'
    BY DEF ReviewTypeOK
  <1>2. Collecting' /\ Judging'
    BY DEF ReviewTypeOK, ReviewRecord, Collecting, Judging, Validated
  <1> QED BY <1>1, <1>2

LEMMA MonitorAssignKeeps == ASSUME ReviewIInv, MonitorAssign PROVE ReviewIInv'
  <1> USE DEF ReviewIInv, MonitorAssign, account, model
  <1>1. ReviewTypeOK'
    BY DEF ReviewTypeOK
  <1>2. Collecting' /\ Judging'
    BY DEF ReviewTypeOK, ReviewRecord, Collecting, Judging, Validated
  <1> QED BY <1>1, <1>2

LEMMA QuotaResetsKeeps == ASSUME ReviewIInv, QuotaResets PROVE ReviewIInv'
  <1> USE DEF ReviewIInv, QuotaResets, market, account
  <1>1. ReviewTypeOK'
    BY DEF ReviewTypeOK
  <1>2. Collecting' /\ Judging'
    BY DEF ReviewTypeOK, ReviewRecord, Collecting, Judging, Validated
  <1> QED BY <1>1, <1>2

LEMMA AccountMovesKeeps == ASSUME ReviewIInv, AccountMoves PROVE ReviewIInv'
  <1>1. version' \in Nat /\ UNCHANGED <<evidence, newest, bundle, protecting, collection, review>>
    BY DEF AccountMoves, Changed, market, ReviewIInv, ReviewTypeOK
  <1>2. held' \in BOOLEAN /\ working' \in BOOLEAN
    BY DEF AccountMoves, ReviewIInv, ReviewTypeOK
  <1>3. ReviewTypeOK' BY <1>1, <1>2 DEF ReviewIInv, ReviewTypeOK
  <1>4. Collecting' /\ Judging' BY <1>1 DEF ReviewIInv, Collecting, Judging
  <1> QED BY <1>3, <1>4 DEF ReviewIInv

LEMMA ServiceCollectsKeeps == ASSUME ReviewIInv, ServiceCollects PROVE ReviewIInv'
  <1>1. CASE CollectBy("service")
    <2>1. ReviewTypeOK'
      BY <1>1 DEF ServiceCollects, CollectBy, account, ReviewIInv, ReviewTypeOK
    <2>2. Collecting' /\ Judging'
      BY <1>1 DEF ServiceCollects, CollectBy, ReviewIInv, ReviewTypeOK, Collecting, Judging
    <2> QED BY <2>1, <2>2 DEF ReviewIInv
  <1>2. CASE PublishBy("service") /\ UNCHANGED bundle
    <2>1. collection.evidence \in Nat BY DEF ReviewIInv, ReviewTypeOK
    <2>2. ReviewTypeOK'
      BY <1>2, <2>1 DEF ServiceCollects, PublishBy, NoCollection, account, ReviewIInv, ReviewTypeOK
    <2>3. Collecting' /\ Judging'
      BY <1>2 DEF ServiceCollects, PublishBy, NoCollection, ReviewIInv, Collecting, Judging
    <2> QED BY <2>2, <2>3 DEF ReviewIInv
  <1> QED BY <1>1, <1>2 DEF ServiceCollects

\* A review goes on without a collection of its own: nothing but its place and what is outside changes.
LEMMA GoingOn ==
    ASSUME ReviewIInv, NEW place \in Places, To(place), UNCHANGED <<evidence, collection>>,
           collection.by # "review",
           place = "validate" => review.current >= review.answered,
           place \in Validated => review.frozen >= review.answered,
           newest' \in Nat, bundle' \in Nat, protecting' \in SUBSET Nat, held' \in BOOLEAN,
           working' \in BOOLEAN, version' \in Nat
    PROVE  ReviewIInv'
  <1>1. /\ review' \in ReviewRecord /\ review'.at = place
        /\ review'.frozen = review.frozen /\ review'.answered = review.answered
        /\ review'.current = review.current
    BY GoingElsewhere DEF ReviewIInv, ReviewTypeOK
  <1>2. ReviewTypeOK'
    BY <1>1 DEF ReviewIInv, ReviewTypeOK
  <1>3. Collecting' /\ Judging'
    BY <1>1 DEF ReviewIInv, ReviewTypeOK, Collecting, Judging
  <1> QED BY <1>2, <1>3 DEF ReviewIInv

LEMMA BeginKeeps == ASSUME ReviewIInv, Begin PROVE ReviewIInv'
  <1>1. collection.by # "review" /\ review \in ReviewRecord
    BY DEF Begin, market, account, model, ReviewIInv, ReviewTypeOK, Collecting
  <1>2. /\ UNCHANGED <<evidence, collection>> /\ newest' \in Nat /\ bundle' \in Nat
        /\ protecting' \in SUBSET Nat /\ held' \in BOOLEAN /\ working' \in BOOLEAN /\ version' \in Nat
    BY <1>1 DEF Begin, market, account, model, ReviewIInv, ReviewTypeOK, ReviewRecord
  <1>3. CASE To("refresh")
    BY <1>1, <1>2, <1>3, GoingOn DEF Places, Validated
  <1> QED BY <1>1, <1>3 DEF Begin

LEMMA ReadHoldingsKeeps == ASSUME ReviewIInv, ReadHoldings PROVE ReviewIInv'
  <1>1. collection.by # "review" /\ review \in ReviewRecord
    BY DEF ReadHoldings, market, account, model, ReviewIInv, ReviewTypeOK, Collecting
  <1>2. CASE review' = [review EXCEPT !.at = "working", !.owned = held]
    <2> DEFINE v == [review EXCEPT !.at = "working", !.owned = held]
    <2>1. v \in ReviewRecord
      BY <1>1, ZenonT(30) DEF ReadHoldings, market, account, model, ReviewIInv, ReviewTypeOK, ReviewRecord, Places
    <2>2. v.at = "working" /\ v.answered = review.answered
      BY <1>1 DEF ReadHoldings, market, account, model, ReviewRecord
    <2> HIDE DEF v
    <2>3. review' = v BY <1>2 DEF v
    <2>4. ReviewTypeOK' BY <2>1, <2>3 DEF ReadHoldings, market, account, model, ReviewIInv, ReviewTypeOK
    <2>5. Collecting' /\ Judging'
      BY <1>1, <2>2, <2>3 DEF ReadHoldings, market, account, model, ReviewIInv, ReviewTypeOK, Collecting, Judging, Validated
    <2> QED BY <2>4, <2>5 DEF ReviewIInv
  <1> QED BY <1>1, <1>2 DEF ReadHoldings, market, account, model

LEMMA ReadOrdersKeeps == ASSUME ReviewIInv, ReadOrders PROVE ReviewIInv'
  <1>1. collection.by # "review" /\ review \in ReviewRecord
    BY DEF ReadOrders, market, account, model, ReviewIInv, ReviewTypeOK, Collecting
  <1>2. CASE review' = [review EXCEPT !.at = "quotes", !.owned = @ \/ working]
    <2> DEFINE v == [review EXCEPT !.at = "quotes", !.owned = @ \/ working]
    <2>1. v \in ReviewRecord
      BY <1>1, ZenonT(30) DEF ReadOrders, market, account, model, ReviewIInv, ReviewTypeOK, ReviewRecord, Places
    <2>2. v.at = "quotes" /\ v.answered = review.answered
      BY <1>1 DEF ReadOrders, market, account, model, ReviewRecord
    <2> HIDE DEF v
    <2>3. review' = v BY <1>2 DEF v
    <2>4. ReviewTypeOK' BY <2>1, <2>3 DEF ReadOrders, market, account, model, ReviewIInv, ReviewTypeOK
    <2>5. Collecting' /\ Judging'
      BY <1>1, <2>2, <2>3 DEF ReadOrders, market, account, model, ReviewIInv, ReviewTypeOK, Collecting, Judging, Validated
    <2> QED BY <2>4, <2>5 DEF ReviewIInv
  <1> QED BY <1>1, <1>2 DEF ReadOrders, market, account, model

LEMMA FreezeKeeps == ASSUME ReviewIInv, Freeze PROVE ReviewIInv'
  <1>1. collection.by # "review" /\ review \in ReviewRecord
    BY DEF Freeze, market, account, model, ReviewIInv, ReviewTypeOK, Collecting
  <1>2. CASE review' = [review EXCEPT !.at = "ask", !.frozen = bundle, !.version = version]
    <2> DEFINE v == [review EXCEPT !.at = "ask", !.frozen = bundle, !.version = version]
    <2>1. v \in ReviewRecord
      BY <1>1, ZenonT(30) DEF Freeze, market, account, model, ReviewIInv, ReviewTypeOK, ReviewRecord, Places
    <2>2. v.at = "ask" /\ v.answered = review.answered
      BY <1>1 DEF Freeze, market, account, model, ReviewRecord
    <2> HIDE DEF v
    <2>3. review' = v BY <1>2 DEF v
    <2>4. ReviewTypeOK' BY <2>1, <2>3 DEF Freeze, market, account, model, ReviewIInv, ReviewTypeOK
    <2>5. Collecting' /\ Judging'
      BY <1>1, <2>2, <2>3 DEF Freeze, market, account, model, ReviewIInv, ReviewTypeOK, Collecting, Judging, Validated
    <2> QED BY <2>4, <2>5 DEF ReviewIInv
  <1>3. CASE End
    BY <1>1, <1>3, Ending DEF Freeze, market, account, model, ReviewIInv, ReviewTypeOK
  <1> QED BY <1>1, <1>2, <1>3 DEF Freeze, market, account, model

LEMMA AskModelKeeps == ASSUME ReviewIInv, AskModel PROVE ReviewIInv'
  <1>1. collection.by # "review" /\ review \in ReviewRecord
    BY DEF AskModel, market, account, model, ReviewIInv, ReviewTypeOK, Collecting
  <1>2. /\ UNCHANGED <<evidence, collection>> /\ newest' \in Nat /\ bundle' \in Nat
        /\ protecting' \in SUBSET Nat /\ held' \in BOOLEAN /\ working' \in BOOLEAN /\ version' \in Nat
    BY <1>1 DEF AskModel, market, account, model, ReviewIInv, ReviewTypeOK, ReviewRecord
  <1>3. CASE To("attempt")
    BY <1>1, <1>2, <1>3, GoingOn DEF Places, Validated
  <1>4. CASE End
    BY <1>1, <1>2, <1>4, Ending DEF ReviewIInv, ReviewTypeOK
  <1> QED BY <1>1, <1>3, <1>4 DEF AskModel

LEMMA AttemptKeeps == ASSUME ReviewIInv, Attempt PROVE ReviewIInv'
  <1>1. collection.by # "review" /\ review \in ReviewRecord
    BY DEF Attempt, market, account, ReviewIInv, ReviewTypeOK, Collecting
  <1>2. CASE review' = [review EXCEPT !.at = "answered", !.answered = evidence, !.retries = 0, !.repairs = 0]
    <2> DEFINE v == [review EXCEPT !.at = "answered", !.answered = evidence, !.retries = 0, !.repairs = 0]
    <2>1. v \in ReviewRecord
      BY <1>1, ZenonT(30) DEF Attempt, market, account, ReviewIInv, ReviewTypeOK, ReviewRecord, Places
    <2>2. v.at = "answered" /\ v.answered = evidence
      BY <1>1 DEF Attempt, market, account, ReviewRecord
    <2> HIDE DEF v
    <2>3. review' = v BY <1>2 DEF v
    <2>4. ReviewTypeOK' BY <2>1, <2>3 DEF Attempt, market, account, ReviewIInv, ReviewTypeOK
    <2>5. Collecting' /\ Judging'
      BY <1>1, <2>2, <2>3 DEF Attempt, market, account, ReviewIInv, ReviewTypeOK, Collecting, Judging, Validated
    <2> QED BY <2>4, <2>5 DEF ReviewIInv
  <1>3. CASE review' = [review EXCEPT !.repairs = @ + 1]
    <2> DEFINE v == [review EXCEPT !.repairs = @ + 1]
    <2>1. v \in ReviewRecord
      <3>1. review.repairs + 1 \in Nat BY <1>1 DEF ReviewRecord
      <3> QED BY <1>1, <3>1, ZenonT(30) DEF Attempt, market, account, ReviewIInv, ReviewTypeOK, ReviewRecord, Places
    <2>2. v.at = "attempt" /\ v.answered = review.answered
      BY <1>1 DEF Attempt, market, account, ReviewRecord
    <2> HIDE DEF v
    <2>3. review' = v BY <1>3 DEF v
    <2>4. ReviewTypeOK' BY <2>1, <2>3 DEF Attempt, market, account, ReviewIInv, ReviewTypeOK
    <2>5. Collecting' /\ Judging'
      BY <1>1, <2>2, <2>3 DEF Attempt, market, account, ReviewIInv, ReviewTypeOK, Collecting, Judging, Validated
    <2> QED BY <2>4, <2>5 DEF ReviewIInv
  <1>4. CASE review' = [review EXCEPT !.retries = @ + 1]
    <2> DEFINE v == [review EXCEPT !.retries = @ + 1]
    <2>1. v \in ReviewRecord
      <3>1. review.retries + 1 \in Nat BY <1>1 DEF ReviewRecord
      <3> QED BY <1>1, <3>1, ZenonT(30) DEF Attempt, market, account, ReviewIInv, ReviewTypeOK, ReviewRecord, Places
    <2>2. v.at = "attempt" /\ v.answered = review.answered
      BY <1>1 DEF Attempt, market, account, ReviewRecord
    <2> HIDE DEF v
    <2>3. review' = v BY <1>4 DEF v
    <2>4. ReviewTypeOK' BY <2>1, <2>3 DEF Attempt, market, account, ReviewIInv, ReviewTypeOK
    <2>5. Collecting' /\ Judging'
      BY <1>1, <2>2, <2>3 DEF Attempt, market, account, ReviewIInv, ReviewTypeOK, Collecting, Judging, Validated
    <2> QED BY <2>4, <2>5 DEF ReviewIInv
  <1>5. CASE End
    BY <1>1, <1>5, Ending DEF Attempt, market, account, ReviewIInv, ReviewTypeOK
  <1> QED BY <1>1, <1>2, <1>3, <1>4, <1>5 DEF Attempt, market, account

LEMMA AnsweredKeeps == ASSUME ReviewIInv, Answered PROVE ReviewIInv'
  <1>1. collection.by # "review" /\ review \in ReviewRecord
    BY DEF Answered, market, account, model, ReviewIInv, ReviewTypeOK, Collecting
  <1>2. /\ UNCHANGED <<evidence, collection>> /\ newest' \in Nat /\ bundle' \in Nat
        /\ protecting' \in SUBSET Nat /\ held' \in BOOLEAN /\ working' \in BOOLEAN /\ version' \in Nat
    BY <1>1 DEF Answered, market, account, model, ReviewIInv, ReviewTypeOK, ReviewRecord
  <1>3. CASE To("recheck")
    BY <1>1, <1>2, <1>3, GoingOn DEF Places, Validated
  <1>4. CASE End
    BY <1>1, <1>2, <1>4, Ending DEF ReviewIInv, ReviewTypeOK
  <1> QED BY <1>1, <1>3, <1>4 DEF Answered

LEMMA ValidateKeeps == ASSUME ReviewIInv, Validate PROVE ReviewIInv'
  <1>1. collection.by # "review" /\ review \in ReviewRecord
    BY DEF Validate, account, model, SameEvidence, ReviewIInv, ReviewTypeOK, Collecting
  <1>2. /\ UNCHANGED <<evidence, collection>> /\ newest' \in Nat /\ bundle' \in Nat
        /\ protecting' \in SUBSET Nat /\ held' \in BOOLEAN /\ working' \in BOOLEAN /\ version' \in Nat
    BY <1>1 DEF Validate, account, model, SameEvidence, ReviewIInv, ReviewTypeOK, ReviewRecord
  <1>3. CASE To("judge") /\ SameEvidence
    <2>1. review.frozen >= review.answered BY <1>3 DEF Validate, SameEvidence, ReviewIInv, Judging
    <2> QED BY <1>1, <1>2, <1>3, <2>1, GoingOn DEF Places
  <1>4. CASE End
    BY <1>1, <1>2, <1>4, Ending DEF ReviewIInv, ReviewTypeOK
  <1> QED BY <1>1, <1>3, <1>4 DEF Validate

LEMMA JudgeKeeps == ASSUME ReviewIInv, Judge PROVE ReviewIInv'
  <1>1. collection.by # "review" /\ review \in ReviewRecord
    BY DEF Judge, market, account, model, ReviewIInv, ReviewTypeOK, Collecting
  <1>2. /\ UNCHANGED <<evidence, collection>> /\ newest' \in Nat /\ bundle' \in Nat
        /\ protecting' \in SUBSET Nat /\ held' \in BOOLEAN /\ working' \in BOOLEAN /\ version' \in Nat
    BY <1>1 DEF Judge, market, account, model, ReviewIInv, ReviewTypeOK, ReviewRecord
  <1>3. CASE To("protect")
    <2>1. review.frozen >= review.answered BY DEF Judge, ReviewIInv, Judging, Validated
    <2> QED BY <1>1, <1>2, <1>3, <2>1, GoingOn DEF Places
  <1> QED BY <1>1, <1>3 DEF Judge

LEMMA PlanHoldingsKeeps == ASSUME ReviewIInv, PlanHoldings PROVE ReviewIInv'
  <1>1. collection.by # "review" /\ review \in ReviewRecord
    BY DEF PlanHoldings, market, account, model, ReviewIInv, ReviewTypeOK, Collecting
  <1>2. /\ UNCHANGED <<evidence, collection>> /\ newest' \in Nat /\ bundle' \in Nat
        /\ protecting' \in SUBSET Nat /\ held' \in BOOLEAN /\ working' \in BOOLEAN /\ version' \in Nat
    BY <1>1 DEF PlanHoldings, market, account, model, ReviewIInv, ReviewTypeOK, ReviewRecord
  <1>3. CASE To("complete")
    BY <1>1, <1>2, <1>3, GoingOn DEF Places, Validated
  <1>4. CASE To("pending")
    <2>1. review.frozen >= review.answered BY DEF PlanHoldings, ReviewIInv, Judging, Validated
    <2> QED BY <1>1, <1>2, <1>4, <2>1, GoingOn DEF Places
  <1> QED BY <1>1, <1>3, <1>4 DEF PlanHoldings

LEMMA PlanPendingKeeps == ASSUME ReviewIInv, PlanPending PROVE ReviewIInv'
  <1>1. collection.by # "review" /\ review \in ReviewRecord
    BY DEF PlanPending, market, account, model, ReviewIInv, ReviewTypeOK, Collecting
  <1>2. /\ UNCHANGED <<evidence, collection>> /\ newest' \in Nat /\ bundle' \in Nat
        /\ protecting' \in SUBSET Nat /\ held' \in BOOLEAN /\ working' \in BOOLEAN /\ version' \in Nat
    BY <1>1 DEF PlanPending, market, account, model, ReviewIInv, ReviewTypeOK, ReviewRecord
  <1>3. CASE To("complete")
    BY <1>1, <1>2, <1>3, GoingOn DEF Places, Validated
  <1>4. CASE To("intent")
    <2>1. review.frozen >= review.answered BY DEF PlanPending, ReviewIInv, Judging, Validated
    <2> QED BY <1>1, <1>2, <1>4, <2>1, GoingOn DEF Places
  <1> QED BY <1>1, <1>3, <1>4 DEF PlanPending

LEMMA MakeIntentKeeps == ASSUME ReviewIInv, MakeIntent PROVE ReviewIInv'
  <1>1. collection.by # "review" /\ review \in ReviewRecord
    BY DEF MakeIntent, market, account, model, ReviewIInv, ReviewTypeOK, Collecting
  <1>2. CASE review' = [review EXCEPT !.at = "preflight", !.intent = version]
    <2> DEFINE v == [review EXCEPT !.at = "preflight", !.intent = version]
    <2>1. v \in ReviewRecord
      BY <1>1, ZenonT(30) DEF MakeIntent, market, account, model, ReviewIInv, ReviewTypeOK, ReviewRecord, Places
    <2>2. v.at = "preflight" /\ v.answered = review.answered /\ v.frozen = review.frozen
      BY <1>1 DEF MakeIntent, market, account, model, ReviewRecord
    <2> HIDE DEF v
    <2>3. review' = v BY <1>2 DEF v
    <2>4. ReviewTypeOK' BY <2>1, <2>3 DEF MakeIntent, market, account, model, ReviewIInv, ReviewTypeOK
    <2>5. Collecting' /\ Judging'
      BY <1>1, <2>2, <2>3 DEF MakeIntent, market, account, model, ReviewIInv, ReviewTypeOK, Collecting, Judging, Validated
    <2> QED BY <2>4, <2>5 DEF ReviewIInv
  <1> QED BY <1>1, <1>2 DEF MakeIntent, market, account, model

LEMMA PreflightKeeps == ASSUME ReviewIInv, Preflight PROVE ReviewIInv'
  <1>1. collection.by # "review" /\ review \in ReviewRecord
    BY DEF Preflight, market, account, model, ReviewIInv, ReviewTypeOK, Collecting
  <1>2. /\ UNCHANGED <<evidence, collection>> /\ newest' \in Nat /\ bundle' \in Nat
        /\ protecting' \in SUBSET Nat /\ held' \in BOOLEAN /\ working' \in BOOLEAN /\ version' \in Nat
    BY <1>1 DEF Preflight, market, account, model, ReviewIInv, ReviewTypeOK, ReviewRecord
  <1>3. CASE To("reserve")
    <2>1. review.frozen >= review.answered BY DEF Preflight, ReviewIInv, Judging, Validated
    <2> QED BY <1>1, <1>2, <1>3, <2>1, GoingOn DEF Places
  <1>4. CASE End
    BY <1>1, <1>2, <1>4, Ending DEF ReviewIInv, ReviewTypeOK
  <1> QED BY <1>1, <1>3, <1>4 DEF Preflight

LEMMA ReserveKeeps == ASSUME ReviewIInv, Reserve PROVE ReviewIInv'
  <1>1. collection.by # "review" /\ review \in ReviewRecord
    BY DEF Reserve, market, account, model, ReviewIInv, ReviewTypeOK, Collecting
  <1>2. /\ UNCHANGED <<evidence, collection>> /\ newest' \in Nat /\ bundle' \in Nat
        /\ protecting' \in SUBSET Nat /\ held' \in BOOLEAN /\ working' \in BOOLEAN /\ version' \in Nat
    BY <1>1 DEF Reserve, market, account, model, ReviewIInv, ReviewTypeOK, ReviewRecord
  <1>3. CASE To("send")
    <2>1. review.frozen >= review.answered BY DEF Reserve, ReviewIInv, Judging, Validated
    <2> QED BY <1>1, <1>2, <1>3, <2>1, GoingOn DEF Places
  <1>4. CASE End
    BY <1>1, <1>2, <1>4, Ending DEF ReviewIInv, ReviewTypeOK
  <1> QED BY <1>1, <1>3, <1>4 DEF Reserve

LEMMA SendKeeps == ASSUME ReviewIInv, Send PROVE ReviewIInv'
  <1>1. collection.by # "review" /\ review \in ReviewRecord
    BY DEF Send, market, account, model, Changed, ReviewIInv, ReviewTypeOK, Collecting
  <1>2. /\ UNCHANGED <<evidence, collection>> /\ newest' \in Nat /\ bundle' \in Nat
        /\ protecting' \in SUBSET Nat /\ held' \in BOOLEAN /\ working' \in BOOLEAN /\ version' \in Nat
    <2>1. UNCHANGED <<evidence, newest, bundle, protecting, collection, held>> BY DEF Send, market
    <2>2. version' \in Nat BY DEF Send, Changed, ReviewIInv, ReviewTypeOK
    <2>3. working' \in {TRUE, working} BY DEF Send
    <2> QED BY <2>1, <2>2, <2>3 DEF ReviewIInv, ReviewTypeOK
  <1>3. CASE To("sent")
    BY <1>1, <1>2, <1>3, GoingOn DEF Places, Validated
  <1>4. CASE End
    BY <1>1, <1>2, <1>4, Ending DEF ReviewIInv, ReviewTypeOK
  <1> QED BY <1>1, <1>3, <1>4 DEF Send

LEMMA CompleteKeeps == ASSUME ReviewIInv, Complete PROVE ReviewIInv'
  <1>1. collection.by # "review" /\ review \in ReviewRecord
    BY DEF Complete, market, account, model, ReviewIInv, ReviewTypeOK, Collecting
  <1>2. /\ UNCHANGED <<evidence, collection>> /\ newest' \in Nat /\ bundle' \in Nat
        /\ protecting' \in SUBSET Nat /\ held' \in BOOLEAN /\ working' \in BOOLEAN /\ version' \in Nat
    BY <1>1 DEF Complete, market, account, model, ReviewIInv, ReviewTypeOK, ReviewRecord
  <1>3. CASE End
    BY <1>1, <1>2, <1>3, Ending DEF ReviewIInv, ReviewTypeOK
  <1> QED BY <1>1, <1>3 DEF Complete

LEMMA FailReviewKeeps == ASSUME ReviewIInv, FailReview PROVE ReviewIInv'
  <1>1. collection.by # "review" /\ review \in ReviewRecord
    BY DEF FailReview, market, account, model, ReviewIInv, ReviewTypeOK, Collecting
  <1>2. /\ UNCHANGED <<evidence, collection>> /\ newest' \in Nat /\ bundle' \in Nat
        /\ protecting' \in SUBSET Nat /\ held' \in BOOLEAN /\ working' \in BOOLEAN /\ version' \in Nat
    BY <1>1 DEF FailReview, market, account, model, ReviewIInv, ReviewTypeOK, ReviewRecord
  <1>3. CASE End
    BY <1>1, <1>2, <1>3, Ending DEF ReviewIInv, ReviewTypeOK
  <1> QED BY <1>1, <1>3 DEF FailReview

LEMMA AnswerAgesKeeps == ASSUME ReviewIInv, AnswerAges PROVE ReviewIInv'
  <1>1. review \in ReviewRecord /\ review' = [review EXCEPT !.late = TRUE]
    BY DEF AnswerAges, ReviewIInv, ReviewTypeOK
  <1>2. review' \in ReviewRecord
    BY <1>1, ZenonT(30) DEF ReviewRecord
  <1>3. /\ review'.at = review.at /\ review'.frozen = review.frozen
        /\ review'.answered = review.answered /\ review'.current = review.current
    BY <1>1 DEF ReviewRecord
  <1>4. ReviewTypeOK' BY <1>2 DEF AnswerAges, market, account, ReviewIInv, ReviewTypeOK
  <1>5. Collecting' /\ Judging'
    BY <1>3 DEF AnswerAges, market, ReviewIInv, Collecting, Judging
  <1> QED BY <1>4, <1>5 DEF ReviewIInv

LEMMA AssignKeeps ==
    ASSUME ReviewIInv, NEW place, NEW next \in Places, Assign(place, next),
           place \in {"assign", "arrive"}, next \notin Validated \cup {"validate"} \/ place \in Validated,
           next # "validate"
    PROVE  ReviewIInv'
  <1>1. collection.by # "review" BY DEF Assign, ReviewIInv, Collecting
  <1>2. bundle' \in Nat BY DEF Assign, ReviewIInv, ReviewTypeOK, ReviewRecord
  <1> QED BY <1>1, <1>2, GoingOn DEF Assign, account, ReviewIInv, ReviewTypeOK, Judging

LEMMA RefreshQuotesKeeps ==
    ASSUME ReviewIInv, NEW place, NEW next \in Places, RefreshQuotes(place, next),
           place \in {"quotes", "protect"}, next \notin Validated \/ place \in Validated,
           next # "validate"
    PROVE  ReviewIInv'
  <1>1. collection.by # "review" BY DEF RefreshQuotes, ReviewIInv, Collecting
  <1> QED BY <1>1, GoingOn DEF RefreshQuotes, account, ReviewIInv, ReviewTypeOK, Judging

\* The collection that is compared with the answer began after it.
LEMMA GatherKeeps ==
    ASSUME ReviewIInv, NEW place, NEW next \in Places, Gather(place, next),
           <<place, next>> \in {<<"refresh", "assign">>, <<"recheck", "validate">>, <<"preflight", "arrive">>}
    PROVE  ReviewIInv'
  <1> USE DEF Gather, account, model
  <1>1. review.at = place /\ review \in ReviewRecord /\ place \in {"refresh", "recheck", "preflight"}
    BY DEF ReviewIInv, ReviewTypeOK
  <1>2. CASE CollectBy("review") /\ UNCHANGED review
    <2>1. ReviewTypeOK' BY <1>2 DEF CollectBy, ReviewIInv, ReviewTypeOK
    <2>2. Collecting' /\ Judging'
      BY <1>1, <1>2 DEF CollectBy, ReviewIInv, ReviewTypeOK, ReviewRecord, Collecting, Judging
    <2> QED BY <2>1, <2>2 DEF ReviewIInv
  <1>3. CASE /\ PublishBy("review") /\ UNCHANGED bundle
             /\ review' = [review EXCEPT !.at = next, !.current = collection.evidence]
    <2> DEFINE v == [review EXCEPT !.at = next, !.current = collection.evidence]
    <2>1. collection.evidence \in Nat BY DEF ReviewIInv, ReviewTypeOK
    <2>2. v \in ReviewRecord BY <1>1, <2>1, ZenonT(30) DEF ReviewRecord
    <2>3. /\ v.at = next /\ v.current = collection.evidence
          /\ v.frozen = review.frozen /\ v.answered = review.answered
      BY <1>1 DEF ReviewRecord
    <2> HIDE DEF v
    <2>4. review' = v BY <1>3 DEF v
    <2>5. ReviewTypeOK'
      BY <1>3, <2>2, <2>4 DEF PublishBy, NoCollection, ReviewIInv, ReviewTypeOK
    <2>6. Collecting'
      BY <1>3, <2>3, <2>4 DEF PublishBy, NoCollection, ReviewIInv, Collecting
    <2>7. Judging'
      BY <1>1, <1>3, <2>3, <2>4 DEF PublishBy, ReviewIInv, Collecting, Judging, Validated
    <2> QED BY <2>5, <2>6, <2>7 DEF ReviewIInv
  <1>4. CASE /\ collection.by = "review" /\ collection' = NoCollection /\ End
             /\ UNCHANGED <<evidence, newest, bundle, protecting>>
    BY <1>4, Ending DEF ReviewIInv, ReviewTypeOK
  <1> QED BY <1>2, <1>3, <1>4

-----------------------------------------------------------------------------
\* ReviewIInv holds throughout.
THEOREM ReviewInvariance == ReviewSpec => []ReviewIInv
  <1>1. ReviewIInv /\ [ReviewNext]_reviewVars => ReviewIInv'
    <2> SUFFICES ASSUME ReviewIInv, [ReviewNext]_reviewVars PROVE ReviewIInv' OBVIOUS
    <2>1. CASE Disclose BY <2>1, DiscloseKeeps
    <2>2. CASE Pause BY <2>2, PauseKeeps
    <2>3. CASE MonitorRefresh BY <2>3, MonitorRefreshKeeps
    <2>4. CASE MonitorAssign BY <2>4, MonitorAssignKeeps
    <2>5. CASE QuotaResets BY <2>5, QuotaResetsKeeps
    <2>6. CASE AccountMoves BY <2>6, AccountMovesKeeps
    <2>7. CASE ServiceCollects BY <2>7, ServiceCollectsKeeps
    <2>8. CASE Begin BY <2>8, BeginKeeps
    <2>9. CASE ReadHoldings BY <2>9, ReadHoldingsKeeps
    <2>10. CASE ReadOrders BY <2>10, ReadOrdersKeeps
    <2>11. CASE Freeze BY <2>11, FreezeKeeps
    <2>12. CASE AskModel BY <2>12, AskModelKeeps
    <2>13. CASE Attempt BY <2>13, AttemptKeeps
    <2>14. CASE Answered BY <2>14, AnsweredKeeps
    <2>15. CASE Validate BY <2>15, ValidateKeeps
    <2>16. CASE Judge BY <2>16, JudgeKeeps
    <2>17. CASE PlanHoldings BY <2>17, PlanHoldingsKeeps
    <2>18. CASE PlanPending BY <2>18, PlanPendingKeeps
    <2>19. CASE MakeIntent BY <2>19, MakeIntentKeeps
    <2>20. CASE Preflight BY <2>20, PreflightKeeps
    <2>21. CASE Reserve BY <2>21, ReserveKeeps
    <2>22. CASE Send BY <2>22, SendKeeps
    <2>23. CASE Complete BY <2>23, CompleteKeeps
    <2>24. CASE FailReview BY <2>24, FailReviewKeeps
    <2>25. CASE AnswerAges BY <2>25, AnswerAgesKeeps
    <2>26. CASE Assign("assign", "holdings") BY <2>26, AssignKeeps DEF Places, Validated
    <2>27. CASE Assign("arrive", "check") BY <2>27, AssignKeeps DEF Places, Validated
    <2>28. CASE RefreshQuotes("quotes", "freeze") BY <2>28, RefreshQuotesKeeps DEF Places, Validated
    <2>29. CASE RefreshQuotes("protect", "plan") BY <2>29, RefreshQuotesKeeps DEF Places, Validated
    <2>30. CASE Gather("refresh", "assign") BY <2>30, GatherKeeps DEF Places, Validated
    <2>31. CASE Gather("recheck", "validate") BY <2>31, GatherKeeps DEF Places, Validated
    <2>32. CASE Gather("preflight", "arrive") BY <2>32, GatherKeeps DEF Places, Validated
    <2>33. CASE UNCHANGED reviewVars
      BY <2>33 DEF reviewVars, market, account, ReviewIInv, ReviewTypeOK, Collecting, Judging
    <2> QED BY <2>1, <2>2, <2>3, <2>4, <2>5, <2>6, <2>7, <2>8, <2>9, <2>10, <2>11, <2>12, <2>13, <2>14,
               <2>15, <2>16, <2>17, <2>18, <2>19, <2>20, <2>21, <2>22, <2>23, <2>24, <2>25, <2>26, <2>27, <2>28, <2>29, <2>30, <2>31, <2>32, <2>33 DEF ReviewNext
  <1> QED BY <1>1, InitReview, PTL DEF ReviewSpec

\* Only Send brings a review to "sent".
LEMMA OnlySendSends ==
    ASSUME ReviewIInv, ReviewNext, review.at = "send", review'.at = "sent" PROVE Send
  <1>1. review \in ReviewRecord BY DEF ReviewIInv, ReviewTypeOK
  <1>2. ~End BY DEF End, NoReview
  <1>3. CASE Disclose \/ AccountMoves \/ Pause \/ MonitorRefresh \/ MonitorAssign \/ QuotaResets \/ ServiceCollects
    BY <1>3 DEF Disclose, AccountMoves, Pause, MonitorRefresh, MonitorAssign, QuotaResets, ServiceCollects
  <1>4. CASE AnswerAges BY <1>1, <1>4 DEF AnswerAges, ReviewRecord
  <1>5. CASE FailReview BY <1>2, <1>5 DEF FailReview
  <1> QED BY <1>3, <1>4, <1>5
    DEF ReviewNext, Begin, Gather, Assign, ReadHoldings, ReadOrders, RefreshQuotes, Freeze, AskModel, Attempt,
        Answered, Validate, Judge, PlanHoldings, PlanPending, MakeIntent, Preflight, Reserve, Complete

\* Only Judge marks a thesis.
LEMMA OnlyJudgeMarks ==
    ASSUME ReviewNext, invalid', ~invalid PROVE Judge
  BY DEF ReviewNext, Disclose, AccountMoves, Pause, MonitorRefresh, MonitorAssign, QuotaResets, ServiceCollects,
         AnswerAges, FailReview, Begin, Gather, Assign, ReadHoldings, ReadOrders, RefreshQuotes, Freeze, AskModel,
         Attempt, Answered, Validate, PlanHoldings, PlanPending, MakeIntent, Preflight, Reserve, Send,
         Complete, account

\* No judgement older than the evidence at its answer is acted on, and no entry is sent beside a
\* holding, another order, a pause or an aged answer, whatever the other threads do between the
\* review's steps.  (_review, validate_proposal, submit)
THEOREM CurrentJudgement == ReviewSpec => JudgementCurrent
  <1> DEFINE Step ==
        /\ review.at = "send" /\ review'.at = "sent" =>
            /\ review.frozen >= review.answered
            /\ ~held /\ ~working /\ ~paused /\ ~review.late
        /\ invalid' /\ ~invalid => review.frozen >= review.answered
  <1>1. ReviewIInv /\ [ReviewNext]_reviewVars => [Step]_reviewVars
    <2> SUFFICES ASSUME ReviewIInv, ReviewNext PROVE Step BY DEF Step
    <2>1. ASSUME review.at = "send", review'.at = "sent"
          PROVE  review.frozen >= review.answered /\ ~held /\ ~working /\ ~paused /\ ~review.late
      <3>1. Send BY <2>1, OnlySendSends
      <3>2. OrderValid /\ StateValid BY <2>1, <3>1 DEF Send, End, NoReview
      <3> QED BY <2>1, <3>2 DEF ReviewIInv, Judging, Validated, OrderValid, StateValid
    <2>2. ASSUME invalid', ~invalid PROVE review.frozen >= review.answered
      <3>1. Judge BY <2>2, OnlyJudgeMarks
      <3> QED BY <3>1 DEF Judge, ReviewIInv, Judging, Validated
    <2> QED BY <2>1, <2>2 DEF Step
  <1> QED BY <1>1, ReviewInvariance, PTL DEF ReviewSpec, JudgementCurrent
=============================================================================

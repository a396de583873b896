------------------------------ MODULE SourceSync ------------------------------
(***************************************************************************)
(* One product source: the administrator's requests and the runs of        *)
(* runProductSourceSync.  A run pages through the source by offset, up to  *)
(* some page, upserts each product without a transaction and then marks    *)
(* what it did not see; the outbox may have two runs going, and the source *)
(* changes while it is read.                                               *)
(***************************************************************************)
EXTENDS Naturals, SequencesExt, FiniteSets

CONSTANTS
  Runs,      \* deliveries of product-source.sync messages, and runs of the development script
  Items,     \* source product ids
  Faulty,    \* those that assessQuarantine rejects
  SoldOut,   \* those that the source lists as UNAVAILABLE
  GroupOf,   \* their dedupe keys
  PageSize,
  Paginated, \* the adapter has searchPage; another one has one search of PageSize items
  MaxFetches, \* pages that a run reads at most: maxPages, 500
  MaxChanges \* of the source

VARIABLES
  source,    \* product_sources: [enabled, status]
  feed,      \* what the source lists, in its order
  records,   \* source_product_records: [known, product, offer, available, seen]
  catalogue, \* the products made from items, by the item whose slug they carry
  offers,    \* the offers made, in order: [product, active]
  clock,
  run,       \* each run: where it is, what it fetched and which item it is at
  queued,    \* messages of triggered runs
  trigger,   \* where an administrator's trigger is: none, ensured or done
  changes,
  settled    \* a run read the source as it is now and went well, and none reads an older one

syncVars == <<source, feed, records, catalogue, offers, clock, run, queued, trigger, changes, settled>>

Absent == 0
Disabled == [enabled |-> FALSE, status |-> "DISABLED"]
NoRecord == [known |-> FALSE, product |-> Absent, offer |-> 0, available |-> FALSE, seen |-> 0]
NotStarted == [pc |-> "waiting", started |-> 0, fetched |-> <<>>, more |-> TRUE, at |-> 1,
               prior |-> NoRecord,         \* what it read and will record of the item it is at
               stale |-> FALSE,            \* (ghost) the source changed since it began
               exposed |-> FALSE,          \* (ghost) it ran while a stale one did
               skipped |-> FALSE]          \* it counts an item as rejected that failed
ASSUME SyncAssumption ==
  /\ Faulty \subseteq Items /\ SoldOut \subseteq Items /\ Absent \notin Items
  /\ IsFiniteSet(Items) /\ PageSize \in Nat \ {0} /\ MaxFetches \in Nat \ {0} /\ Paginated \in BOOLEAN

Recorded(product, offer, available, seen) ==
  [known |-> TRUE, product |-> product, offer |-> offer, available |-> available, seen |-> seen]
\* What an earlier run left of the items it saw.
Synced(old) == LET order == SetToSeq(old) IN
  /\ catalogue = old
  /\ offers = [k \in DOMAIN order |-> [product |-> order[k], active |-> TRUE]]
  /\ records = [i \in Items |->
       IF i \in old THEN Recorded(i, CHOOSE k \in DOMAIN order : order[k] = i, TRUE, 0) ELSE NoRecord]
SyncInit ==
  /\ source = [enabled |-> TRUE, status |-> "ACTIVE"]   \* as the script creates it
  /\ feed \in {s \in UNION {[1..n -> Items] : n \in 0..Cardinality(Items)} : IsInjective(s)}
  /\ \E old \in SUBSET Items : Synced(old)
  /\ clock = 0 /\ run = [d \in Runs |-> NotStarted]
  /\ queued = 1 /\ trigger \in {"none", "done"} /\ changes = 0 /\ settled = FALSE

InRun(d, pc) == run[d].pc = pc
GoOn(d, pc) == run' = [run EXCEPT ![d].pc = pc]
EndRun(d) == run' = [run EXCEPT ![d] = [NotStarted EXCEPT !.pc = "done"]]
Tables == <<records, catalogue, offers>>
SourceRows == <<source, Tables, clock>>
Others == <<feed, queued, trigger, changes>>
-----------------------------------------------------------------------------
(* Administrators.  Every one of their requests first puts the default sources back; bound:  *)
(* one such request besides patches, which may go on as the trigger of a run.                *)

EnsureDefaults ==
  /\ trigger = "none" /\ trigger' = "ensured"
  /\ source' = Disabled
  /\ UNCHANGED <<feed, Tables, clock, run, queued, changes, settled>>
\* patchSource, after its own ensureDefaultSources.
Patch ==
  /\ source' = [enabled |-> TRUE, status |-> "ACTIVE"]
  /\ UNCHANGED <<feed, Tables, clock, run, queued, trigger, changes, settled>>
\* triggerSync: the run and its message are created in one transaction.
Trigger ==
  /\ trigger = "ensured"
  /\ trigger' = "done"
  /\ queued' = IF source.enabled /\ source.status = "ACTIVE" THEN queued + 1 ELSE queued
  /\ UNCHANGED <<source, feed, Tables, clock, run, changes, settled>>
-----------------------------------------------------------------------------
(* A run. *)

Busy(d) == run[d].pc \notin {"waiting", "done"}
BeginRun(d) ==
  /\ InRun(d, "waiting") /\ queued > 0
  /\ IF ~source.enabled \/ source.status = "DISABLED"
     THEN EndRun(d) /\ UNCHANGED clock   \* the run is FAILED
     ELSE /\ clock' = clock + 1
          /\ run' = [run EXCEPT ![d] = [NotStarted EXCEPT !.pc = "fetch", !.started = clock + 1,
                       !.exposed = \E e \in Runs : Busy(e) /\ run[e].stale]]
  /\ UNCHANGED <<source, Tables, Others, settled>>

\* fetchAllSourceProducts: the cursor is the offset in the list as it is now, and the loop ends after
\* MaxFetches pages; without searchPage there is one.
Reach == IF Paginated THEN MaxFetches * PageSize ELSE PageSize
Least(a, b) == IF a < b THEN a ELSE b
FetchPage(d) ==
  LET offset == Len(run[d].fetched)
      last == Least(Least(offset + PageSize, Reach), Len(feed)) IN
  /\ InRun(d, "fetch")
  /\ IF run[d].more
     THEN run' = [run EXCEPT ![d].fetched = @ \o SubSeq(feed, offset + 1, last),
                             ![d].more = last < Len(feed) /\ last < Reach]
     ELSE GoOn(d, "item")
  /\ UNCHANGED <<SourceRows, Others, settled>>

AtItem(d) == run[d].fetched[run[d].at]
More(d) == run[d].at <= Len(run[d].fetched)
NextItem(d) == [run[d] EXCEPT !.pc = "item", !.at = @ + 1, !.prior = NoRecord]

\* A faulty item is quarantined; for another one its record, or else a peer with the same dedupe
\* key, names the product it belongs to.  The time it was seen is taken here.
Resolve(d) ==
  LET i == AtItem(d)
      peers == {j \in Items : j # i /\ GroupOf[j] = GroupOf[i] /\ records[j].product # Absent} IN
  /\ InRun(d, "item") /\ More(d)
  /\ IF i \in Faulty THEN run' = [run EXCEPT ![d] = NextItem(d)]
     ELSE \E product \in IF records[i].product # Absent THEN {records[i].product}
                         ELSE IF peers = {} THEN {Absent} ELSE {records[j].product : j \in peers} :
       run' = [run EXCEPT ![d].pc = "product",
                 ![d].prior = Recorded(product, records[i].offer, i \notin SoldOut, clock)]
  /\ UNCHANGED <<SourceRows, Others, settled>>

\* product.upsert by the slug of the item, or the update of the product found.
WriteProduct(d) ==
  LET fresh == run[d].prior.product = Absent
      product == IF fresh THEN AtItem(d) ELSE run[d].prior.product IN
  /\ InRun(d, "product")
  /\ catalogue' = catalogue \cup {product}
  /\ run' = [run EXCEPT ![d].pc = IF fresh THEN "create" ELSE "offer", ![d].prior.product = product]
  /\ UNCHANGED <<source, records, offers, clock, Others, settled>>

\* The offer that the record names is updated, and else one is created: for a product that was not
\* found by its record or a peer's it is active whatever the source says.
UpsertOffer(d) ==
  LET offer == run[d].prior.offer
      active == InRun(d, "create") \/ run[d].prior.available IN
  /\ run[d].pc \in {"create", "offer"}
  /\ IF offer # 0
     THEN offers' = [offers EXCEPT ![offer].active = active] /\ GoOn(d, "record")
     ELSE /\ offers' = Append(offers, [product |-> run[d].prior.product, active |-> active])
          /\ run' = [run EXCEPT ![d].pc = "record", ![d].prior.offer = Len(offers) + 1]
  /\ UNCHANGED <<source, records, catalogue, clock, Others, settled>>

\* The search document, the record, its group and the observed price.
WriteRecord(d) ==
  /\ InRun(d, "record")
  /\ records' = [records EXCEPT ![AtItem(d)] = run[d].prior]
  /\ run' = [run EXCEPT ![d] = NextItem(d)]
  /\ UNCHANGED <<source, catalogue, offers, clock, Others, settled>>

\* An item that fails is counted as rejected and left as it is.
SkipItem(d) ==
  /\ run[d].pc \in {"product", "create", "offer", "record"}
  /\ run' = [run EXCEPT ![d] = [NextItem(d) EXCEPT !.skipped = TRUE]]
  /\ UNCHANGED <<SourceRows, Others, settled>>

Unseen_Later(d) ==
  {i \in Items : i \notin Range(run[d].fetched) /\ records[i].seen > run[d].started}
Unseen(d) ==
  {i \in Items : i \notin Range(run[d].fetched) /\ records[i].seen < run[d].started}
MarkUnseen(d) ==
  /\ InRun(d, "item") /\ ~More(d)
  /\ records' = [i \in Items |-> IF i \in Unseen(d) THEN [records[i] EXCEPT !.available = FALSE]
                                 ELSE records[i]]
  /\ GoOn(d, "finish")
  /\ UNCHANGED <<source, catalogue, offers, clock, Others, settled>>

FinishRun(d) ==
  /\ InRun(d, "finish")
  /\ source' = [source EXCEPT !.status = "ACTIVE"]
  /\ settled' = (settled \/ ~(run[d].stale \/ run[d].exposed \/ run[d].skipped))
  /\ EndRun(d)
  /\ UNCHANGED <<Tables, clock, Others>>

\* The adapter or the database fails: the run is FAILED, and so is the source.
Fail(d) ==
  /\ run[d].pc \in {"fetch", "item", "finish"}
  /\ source' = [source EXCEPT !.status = "FAILED"]
  /\ EndRun(d)
  /\ UNCHANGED <<Tables, clock, Others, settled>>
\* The worker dies; the run stays RUNNING and the message may be delivered to another one.
LoseRun(d) ==
  /\ Busy(d) /\ EndRun(d)
  /\ UNCHANGED <<SourceRows, Others, settled>>

\* The source delists the item at a position, or lists one first.
ChangeFeed ==
  /\ changes < MaxChanges
  /\ \/ \E k \in DOMAIN feed : feed' = RemoveAt(feed, k)
     \/ \E i \in Items \ Range(feed) : feed' = <<i>> \o feed
  /\ changes' = changes + 1 /\ settled' = FALSE
  /\ run' = [d \in Runs |-> [run[d] EXCEPT !.stale = Busy(d)]]
  /\ UNCHANGED <<SourceRows, queued, trigger>>
-----------------------------------------------------------------------------
Step(d) ==
  \/ BeginRun(d) \/ FetchPage(d) \/ Resolve(d) \/ WriteProduct(d) \/ UpsertOffer(d) \/ WriteRecord(d)
  \/ SkipItem(d) \/ MarkUnseen(d) \/ FinishRun(d) \/ Fail(d) \/ LoseRun(d)
SyncNext == EnsureDefaults \/ Patch \/ Trigger \/ ChangeFeed \/ \E d \in Runs : Step(d)
SyncSpec == SyncInit /\ [][SyncNext]_syncVars
-----------------------------------------------------------------------------
SyncTypeOK ==
  /\ \A i \in Items : records[i].product \in {Absent} \cup catalogue
                      /\ records[i].offer \in 0..Len(offers)
  /\ Range(feed) \subseteq Items /\ source.enabled \in BOOLEAN

\* After a run that read the source as it is now, with others like it or alone, and that counted no
\* item as rejected for an error, the records say what the source does: what a run reaches is there,
\* and available if the source says so, and nothing else is available (run-sync.ts:95-141).  It is not
\* so while a run reads that began before the source changed, and what is listed beyond the reach
\* of a run counts as not listed.
Reached == {feed[k] : k \in {j \in DOMAIN feed : j <= Reach}}
RecordsFollowTheSource ==
  settled => \A i \in Items \ Faulty :
    /\ i \in Reached => records[i].known
    /\ records[i].available <=> i \in Reached \ SoldOut
(* Statements that the code does not keep.                                                    *)

\* What the source lists stays available: not beyond the last page that a run reads, or the first
\* one of a source without pages (paginated-port.ts:44, :60), in a run that is a SUCCESS.
ListedIsAvailable ==
  settled => \A i \in Range(feed) \ (Faulty \cup SoldOut) : records[i].known => records[i].available
\* Also when the source changed while it was read: what was there all along is not marked absent.
ListedStaysAvailable ==
  \A i \in Items : records[i].known /\ i \in Range(feed) /\ changes = 1 => records[i].available
\* Only what the source lists is for sale: marking a record leaves its offer active.
UnlistedIsNotForSale ==
  settled => \A i \in Items : records[i].offer # 0 /\ ~records[i].available
                              => ~offers[records[i].offer].active
\* Every offer belongs to a record: two runs may each create one.
OffersAreRecorded ==
  (\A d \in Runs : ~Busy(d)) => \A k \in DOMAIN offers : \E i \in Items : records[i].offer = k
===============================================================================

------------------------------ MODULE ImportJob -------------------------------
(***************************************************************************)
(* submitCatalogImport and the worker's runCatalogImportJob for one CSV    *)
(* file.  The worker writes one statement at a time, without a             *)
(* transaction, and the outbox may deliver the message again after a       *)
(* crash or while another delivery still runs.                             *)
(***************************************************************************)
EXTENDS Naturals, Sequences

CONSTANTS
  Deliveries, \* of the outbox message
  File,       \* the parsed rows, in order: [slug, sku, price, stock, good]
  ParseErrors, \* how many lines were rejected by the parser
  NoName      \* the row leaves the column empty

ASSUME ImportConstants ==
  /\ DOMAIN File = 1..Len(File) /\ Len(File) \in Nat /\ ParseErrors \in Nat
  /\ \A k \in DOMAIN File : File[k].price \in BOOLEAN /\ File[k].stock \in BOOLEAN

VARIABLES
  import,   \* catalog_imports: [status, queued, created, updated, rejected]
  items,    \* products with variant, SKU, offer, balance and document, in the order of creation
  rows,     \* catalog_import_rows: [row, ok, item]
  job,      \* each delivery: where it is and what it has counted
  cut       \* a delivery was cut off, or two ran at once

importVars == <<import, items, rows, job, cut>>

Waiting == [pc |-> "waiting", row |-> 1, item |-> 0, found |-> FALSE,
            created |-> 0, updated |-> 0, rejected |-> 0]
ImportInit ==
  /\ import = [status |-> "none", queued |-> FALSE, created |-> 0, updated |-> 0, rejected |-> 0]
  /\ items = <<>> /\ rows = <<>> /\ cut = FALSE
  /\ job = [d \in Deliveries |-> Waiting]

Row(d) == File[job[d].row]
InJob(d, pc) == job[d].pc = pc
Set(d, pc) == job' = [job EXCEPT ![d].pc = pc]
BareItem(row, slug) ==
  [row |-> row, slug |-> slug, sku |-> <<>>, offer |-> FALSE, stock |-> FALSE, document |-> FALSE]
-----------------------------------------------------------------------------
(* The API: the row is created and, in a second statement, the message. *)

Submit(dry) ==
  /\ import.status = "none"
  /\ import' = [import EXCEPT !.status = IF dry THEN "DRY_RUN" ELSE "PENDING",
                              !.rejected = ParseErrors]
  /\ UNCHANGED <<items, rows, job, cut>>
Queue ==
  /\ import.status = "PENDING" /\ ~import.queued
  /\ import' = [import EXCEPT !.queued = TRUE]
  /\ UNCHANGED <<items, rows, job, cut>>
-----------------------------------------------------------------------------
(* The worker. *)

Begin(d) ==
  /\ InJob(d, "waiting") /\ import.queued
  /\ import' = [import EXCEPT !.status = "RUNNING"]
  /\ cut' = (cut \/ \E e \in Deliveries : job[e].pc \notin {"waiting", "done", "dead"})
  /\ job' = [job EXCEPT ![d] = [Waiting EXCEPT !.pc = "row", !.rejected = ParseErrors]]
  /\ UNCHANGED <<items, rows>>

\* A row without a SKU gets one of random bytes.
SkuOf(d) == IF Row(d).sku = NoName THEN <<"random", job[d].item>> ELSE <<"sku", Row(d).sku>>
\* Brand and category are upserted, then the SKU is looked up.
FindSku(d) ==
  LET found == {i \in DOMAIN items : Row(d).sku # NoName /\ items[i].sku = SkuOf(d)} IN
  /\ InJob(d, "row") /\ job[d].row <= Len(File)
  /\ IF ~Row(d).good THEN Set(d, "reject")
     ELSE IF found = {} THEN Set(d, "product")
     ELSE \E i \in found : job' = [job EXCEPT ![d].pc = "offer", ![d].item = i, ![d].found = TRUE]
  /\ UNCHANGED <<import, items, rows, cut>>

\* A row without a slug gets one of its name and two random bytes.
SlugOf_Random(d) == <<"random", Len(items)>>   \* even when the row names a slug
SlugOf(d) == IF Row(d).slug = NoName THEN <<"random", Len(items)>> ELSE <<"slug", Row(d).slug>>
CreateProduct(d) ==
  /\ InJob(d, "product")
  /\ IF \E i \in DOMAIN items : items[i].slug = SlugOf(d)   \* products.slug is unique
     THEN Set(d, "reject") /\ UNCHANGED items
     ELSE /\ items' = Append(items, BareItem(job[d].row, SlugOf(d)))
          /\ job' = [job EXCEPT ![d].pc = "sku", ![d].item = Len(items) + 1]
  /\ UNCHANGED <<import, rows, cut>>

\* The variant, then the SKU, whose internal number is unique too.
CreateSku(d) ==
  /\ InJob(d, "sku")
  /\ IF \E i \in DOMAIN items : items[i].sku = SkuOf(d)
     THEN Set(d, "reject") /\ UNCHANGED items
     ELSE items' = [items EXCEPT ![job[d].item].sku = SkuOf(d)] /\ Set(d, "offer")
  /\ UNCHANGED <<import, rows, cut>>

\* A row that found its SKU sets the product and its offer, and has neither stock nor document
\* to write.
AfterOffer(d) == IF job[d].found THEN "report" ELSE "stock"
WriteOffer(d) ==
  /\ InJob(d, "offer")
  /\ items' = [items EXCEPT ![job[d].item].offer = @ \/ Row(d).price]
  /\ Set(d, AfterOffer(d))
  /\ UNCHANGED <<import, rows, cut>>
WriteStock(d) ==
  /\ InJob(d, "stock")
  /\ items' = [items EXCEPT ![job[d].item].stock = Row(d).stock]
  /\ Set(d, "document")
  /\ UNCHANGED <<import, rows, cut>>
WriteDocument(d) ==
  /\ InJob(d, "document")
  /\ items' = [items EXCEPT ![job[d].item].document = TRUE]
  /\ Set(d, "report")
  /\ UNCHANGED <<import, rows, cut>>

NextRow(d, ok, counter) ==
  /\ rows' = Append(rows, [row |-> job[d].row, ok |-> ok, item |-> IF ok THEN job[d].item ELSE 0])
  /\ LET j == job[d] IN
     job' = [job EXCEPT ![d] = [j EXCEPT !.pc = "row", !.row = j.row + 1, !.item = 0,
                                         !.found = FALSE, ![counter] = j[counter] + 1]]
  /\ UNCHANGED <<import, items, cut>>
Report(d) ==
  InJob(d, "report") /\ NextRow(d, TRUE, IF job[d].found THEN "updated" ELSE "created")
Reject(d) == InJob(d, "reject") /\ NextRow(d, FALSE, "rejected")

Outcome(j) ==
  IF j.rejected = 0 THEN "SUCCESS" ELSE IF j.created + j.updated > 0 THEN "PARTIAL" ELSE "FAILED"
Finish(d) ==
  /\ InJob(d, "row") /\ job[d].row > Len(File)
  /\ import' = [import EXCEPT !.status = Outcome(job[d]), !.created = job[d].created,
                  !.updated = job[d].updated, !.rejected = job[d].rejected]
  /\ job' = [job EXCEPT ![d] = [Waiting EXCEPT !.pc = "done"]]
  /\ UNCHANGED <<items, rows, cut>>

Crash(d) ==
  /\ job[d].pc \notin {"waiting", "done", "dead"}
  /\ job' = [job EXCEPT ![d] = [Waiting EXCEPT !.pc = "dead"]]
  /\ cut' = TRUE
  /\ UNCHANGED <<import, items, rows>>
-----------------------------------------------------------------------------
Work(d) ==
  \/ Begin(d) \/ FindSku(d) \/ CreateProduct(d) \/ CreateSku(d) \/ WriteOffer(d) \/ WriteStock(d)
  \/ WriteDocument(d) \/ Report(d) \/ Reject(d) \/ Finish(d) \/ Crash(d)
ImportNext == (\E dry \in BOOLEAN : Submit(dry)) \/ Queue \/ \E d \in Deliveries : Work(d)
ImportSpec == ImportInit /\ [][ImportNext]_importVars
-----------------------------------------------------------------------------
ImportTypeOK ==
  /\ import.status \in {"none", "DRY_RUN", "PENDING", "RUNNING", "SUCCESS", "PARTIAL", "FAILED"}
  /\ \A i \in DOMAIN rows : rows[i].row \in DOMAIN File /\ rows[i].item \in {0} \cup DOMAIN items

\* However often and however concurrently the message is delivered, a row that names its slug
\* makes one product, and of those a row with a SKU makes only one is for sale
\* (catalog-import.ts:113-196).
OneProductPerNamedRow ==
  \A i, j \in DOMAIN items : i # j /\ items[i].row = items[j].row =>
    /\ File[items[i].row].slug = NoName
    /\ File[items[i].row].sku # NoName => ~(items[i].offer /\ items[j].offer)

\* The same of every row, named or not: an import of n rows makes at most n products.
OneProductPerRow ==
  \A i, j \in DOMAIN items : items[i].row = items[j].row => i = j

Whole(i) == LET r == File[items[i].row] IN
  items[i].document /\ (r.price => items[i].offer) /\ (r.stock => items[i].stock)
\* A row reported ok has its product with offer, stock and document, unless a delivery was cut
\* off or overlapped another.
ReportedRowsAreWhole == \A k \in DOMAIN rows : rows[k].ok /\ ~cut => Whole(rows[k].item)
\* Without the exception: a redelivery updates what a dead delivery left half made.
ReportedRowsAreAlwaysWhole == \A k \in DOMAIN rows : rows[k].ok => Whole(rows[k].item)
===============================================================================

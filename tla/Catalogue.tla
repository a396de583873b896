------------------------------ MODULE Catalogue -------------------------------
(***************************************************************************)
(* CatalogService, its product cache and its media store.  Administrators  *)
(* create and change products, offers, categories and images; visitors     *)
(* read products through a cache that is filled after the read and         *)
(* emptied after the write, in Redis or, while Redis fails, in memory.     *)
(***************************************************************************)
EXTENDS Naturals, SequencesExt, FiniteSets

CONSTANTS
  Requests, \* HTTP requests, each handled once
  Calls,    \* what a request may ask: [op, id, slug, status]
  Slugs,
  Fresh,    \* the slugs with a random suffix ensureUniqueSlug may fall back on
  None

ASSUME CatalogueAssumption ==
  \A call \in Calls :
    /\ call.op \in {"get", "create", "update", "price", "withdraw", "rename", "upload", "delete"}
    /\ call.id \in Nat \ {0} /\ call.slug \in Slugs \cup {None}
    /\ call.op = "create" => call.slug \in Slugs

VARIABLES
  products,  \* catalog.products with the first offer of its SKU, in the order of creation
  documents, \* product_search_documents: the versions of product and names it was made from
  names,     \* version of the brand's and category's names
  up,        \* Redis answers
  cache,     \* [Layers -> [Keys -> entry]]
  assets,    \* media_assets of the uploads, by the request that uploaded
  objects,   \* the objects in the media store, likewise
  req,       \* where each request is and what it has read
  undone     \* a rename was undone by an update that did not ask for it

vars == <<products, documents, names, up, cache, assets, objects, req, undone>>

Layers == {"redis", "memory"}
Ids == 1..(1 + Cardinality(Requests))
Keys == ({"id"} \X Ids) \cup ({"slug"} \X (Slugs \cup Fresh))
NoEntry == [id |-> 0, ver |-> 0, price |-> 0, raced |-> FALSE]
NoCall == [op |-> "none", id |-> 0, slug |-> None, status |-> None]
Idle == [pc |-> "new", call |-> NoCall, old |-> None, new |-> None,
         keys |-> <<>>, entry |-> NoEntry]
Final == {"answered", "refused"}   \* refused: any error answer, or none

Product(slug, status, price) == [slug |-> slug, status |-> status, ver |-> 1, price |-> price]
\* One product on sale; price 0 is a product without an active offer.
Init ==
  /\ \E s \in Slugs : products = <<Product(s, "ACTIVE", 1)>>
  /\ documents = <<[ver |-> 1, names |-> 1]>> /\ names = 1
  /\ up = TRUE /\ cache = [l \in Layers |-> [k \in Keys |-> NoEntry]]
  /\ assets = [r \in Requests |-> "none"] /\ objects = {}
  /\ req = [r \in Requests |-> Idle] /\ undone = FALSE

Goto(r, pc) == req' = [req EXCEPT ![r] = IF pc \in Final THEN [Idle EXCEPT !.pc = pc]
                                         ELSE [@ EXCEPT !.pc = pc]]
At(r, pc) == req[r].pc = pc
Layer == IF up THEN "redis" ELSE "memory"
Rows == <<products, documents, names, undone>>
Media == <<assets, objects>>
SlugTaken(s, id) == \E i \in DOMAIN products : products[i].slug = s /\ i # id
-----------------------------------------------------------------------------
(* Visitors. *)

Send(r, call) ==
  /\ At(r, "new")
  /\ call.id <= Len(products)
  /\ req' = [req EXCEPT ![r].pc = call.op, ![r].call = call]
  /\ UNCHANGED <<Rows, up, cache, Media>>

Asked(r) == req[r].call
\* idOrSlug of getProduct.
KeyAsked(r) == IF Asked(r).slug = None THEN <<"id", Asked(r).id>> ELSE <<"slug", Asked(r).slug>>

GetCached(r) ==
  /\ At(r, "get")
  /\ Goto(r, IF cache[Layer][KeyAsked(r)].id # 0 THEN "answered" ELSE "load")
  /\ UNCHANGED <<Rows, up, cache, Media>>

FillKeys(r, id) ==
  <<KeyAsked(r)>> \o (IF KeyAsked(r)[1] = "id" THEN <<<<"slug", products[id].slug>>>> ELSE <<>>)
                  \o <<<<"id", id>>>>
Load(r) ==
  LET found == {i \in DOMAIN products : products[i].status = "ACTIVE"
                  /\ KeyAsked(r) \in {<<"id", i>>, <<"slug", products[i].slug>>}} IN
  /\ At(r, "load")
  /\ IF found = {} THEN Goto(r, "refused")
     ELSE \E i \in found :
       req' = [req EXCEPT ![r].pc = "fill", ![r].keys = FillKeys(r, i),
                 ![r].entry = [id |-> i, ver |-> products[i].ver,
                               price |-> products[i].price, raced |-> FALSE]]
  /\ UNCHANGED <<Rows, up, cache, Media>>

\* Each cache command of a request, in order.
Rest(r) == IF Len(req[r].keys) = 1 THEN Goto(r, "answered")
           ELSE req' = [req EXCEPT ![r].keys = Tail(@)]
Fill(r) ==
  /\ At(r, "fill")
  /\ cache' = [cache EXCEPT ![Layer][Head(req[r].keys)] = req[r].entry]
  /\ Rest(r) /\ UNCHANGED <<Rows, up, Media>>
-----------------------------------------------------------------------------
(* Administrators: products. *)

\* ensureUniqueSlug: the slug asked for, or one with a random suffix.
Allocated(slug, id) == IF SlugTaken(slug, id) THEN {s \in Fresh : ~SlugTaken(s, id)} ELSE {slug}

CheckSlug(r) ==
  /\ At(r, "create")
  /\ \E s \in Allocated(Asked(r).slug, 0) : req' = [req EXCEPT ![r].pc = "insert", ![r].new = s]
  /\ UNCHANGED <<Rows, up, cache, Media>>

\* One transaction; products.slug is unique.
Create(r) ==
  /\ At(r, "insert")
  /\ IF SlugTaken(req[r].new, 0) THEN Goto(r, "refused") /\ UNCHANGED <<products, documents>>
     ELSE /\ products' = Append(products, Product(req[r].new, Asked(r).status, 1))
          /\ documents' = Append(documents, [ver |-> 1, names |-> names])
          /\ Goto(r, "answered")
  /\ UNCHANGED <<names, undone, up, cache, Media>>

FindProduct(r) ==
  /\ At(r, "update")
  /\ req' = [req EXCEPT ![r].pc = "check", ![r].old = products[Asked(r).id].slug]
  /\ UNCHANGED <<Rows, up, cache, Media>>

\* assertProductPublishable, then ensureUniqueSlug.
Check(r) ==
  /\ At(r, "check")
  /\ IF Asked(r).status = "ACTIVE" /\ products[Asked(r).id].price = 0 THEN Goto(r, "refused")
     ELSE \E s \in IF Asked(r).slug \in {None, req[r].old} THEN {req[r].old}
                   ELSE Allocated(Asked(r).slug, Asked(r).id) :
            req' = [req EXCEPT ![r].pc = "write", ![r].new = s]
  /\ UNCHANGED <<Rows, up, cache, Media>>

Raced(l, k) == [cache[l][k] EXCEPT !.raced = cache[l][k].id # 0]
\* The keys invalidateProductCache is called for.
StaleKeys_NewOnly(r) == <<<<"id", Asked(r).id>>, <<"slug", req[r].new>>>>   \* the old slug is forgotten
StaleKeys(r) ==
  LET id == <<"id", Asked(r).id>>
      renamed == <<id, <<"slug", req[r].new>>>> IN
  <<id, <<"slug", req[r].old>>>> \o (IF req[r].new # req[r].old THEN renamed ELSE <<>>)

\* The transaction of updateProduct: it writes the slug whether it changes or not.
Write(r) ==
  LET i == Asked(r).id  now == products[i].slug IN
  /\ At(r, "write")
  /\ IF SlugTaken(req[r].new, i)
     THEN Goto(r, "refused") /\ UNCHANGED <<products, documents, undone, cache>>
     ELSE /\ products' = [products EXCEPT ![i].slug = req[r].new, ![i].ver = @ + 1,
               ![i].status = IF Asked(r).status = None THEN @ ELSE Asked(r).status]
          /\ documents' = [documents EXCEPT ![i] = [ver |-> products[i].ver + 1, names |-> names]]
          /\ undone' = (undone \/ (Asked(r).slug = None /\ req[r].new # now))
          /\ cache' = [l \in Layers |-> [k \in Keys |->   \* the slug in between goes unnoticed
               IF k = <<"slug", now>> /\ now # req[r].old THEN Raced(l, k) ELSE cache[l][k]]]
          /\ req' = [q \in Requests |->
               IF q = r THEN [req[r] EXCEPT !.pc = "drop", !.keys = StaleKeys(r)]
               ELSE IF At(q, "fill") /\ req[q].entry.id = i
                    THEN [req[q] EXCEPT !.entry.raced = TRUE] ELSE req[q]]
  /\ UNCHANGED <<names, up, Media>>

\* del in the layer that answers; the other one keeps its entry.
Drop(r) ==
  LET k == Head(req[r].keys) IN
  /\ At(r, "drop")
  /\ cache' = [l \in Layers |-> [cache[l] EXCEPT
                 ![k] = IF l = Layer THEN NoEntry ELSE Raced(l, k)]]
  /\ Rest(r) /\ UNCHANGED <<Rows, up, Media>>

\* createOffer and updateOffer; neither touches the cache.
SetOffer(r) ==
  /\ At(r, "price") \/ At(r, "withdraw")
  /\ products' = [products EXCEPT ![Asked(r).id].price = IF At(r, "price") THEN 2 ELSE 0]
  /\ Goto(r, "answered")
  /\ UNCHANGED <<documents, names, undone, up, cache, Media>>

\* updateCategory, or the upsert of an import: the documents keep the old name.
Rename(r) ==
  /\ At(r, "rename")
  /\ names' = names + 1
  /\ Goto(r, "answered")
  /\ UNCHANGED <<products, documents, undone, up, cache, Media>>
-----------------------------------------------------------------------------
(* Administrators: images. *)

\* As if an error of the store were swallowed here, too.
Put_Swallowed(r) ==
  /\ At(r, "upload")
  /\ objects' \in {objects, objects \cup {r}}
  /\ Goto(r, "record") /\ UNCHANGED <<Rows, up, cache, assets>>
Put(r) ==
  /\ At(r, "upload")
  /\ objects' = objects \cup {r}
  /\ Goto(r, "record") /\ UNCHANGED <<Rows, up, cache, assets>>
CreateMedia(r) ==
  /\ At(r, "record")
  /\ assets' = [assets EXCEPT ![r] = "READY"]
  /\ Goto(r, "answered") /\ UNCHANGED <<Rows, up, cache, objects>>

\* deleteMedia of the upload q: the row first, then the object.
DeleteMedia(r, q) ==
  /\ At(r, "delete") /\ assets[q] = "READY"
  /\ assets' = [assets EXCEPT ![q] = "DELETED"]
  /\ req' = [req EXCEPT ![r].pc = "unlink", ![r].keys = <<q>>]
  /\ UNCHANGED <<Rows, up, cache, objects>>
NoMedia(r) ==
  /\ At(r, "delete") /\ \A q \in Requests : assets[q] # "READY"
  /\ Goto(r, "refused") /\ UNCHANGED <<Rows, up, cache, Media>>
\* An error of the store is swallowed.
Unlink(r) ==
  /\ At(r, "unlink")
  /\ objects' \in {objects, objects \ {req[r].keys[1]}}
  /\ Goto(r, "answered") /\ UNCHANGED <<Rows, up, cache, assets>>
-----------------------------------------------------------------------------
(* Faults and time. *)

\* The process dies or a statement fails: the invalidations it still owed are not sent.
Die(r) ==
  /\ req[r].pc \notin Final \cup {"new"}
  /\ cache' = [l \in Layers |-> [k \in Keys |->
       IF At(r, "drop") /\ cache[l][k].id = Asked(r).id THEN Raced(l, k) ELSE cache[l][k]]]
  /\ Goto(r, "refused") /\ UNCHANGED <<Rows, up, Media>>
Toggle == up' = ~up /\ UNCHANGED <<Rows, cache, Media, req>>
Expire(l, k) ==
  /\ cache[l][k].id # 0
  /\ cache' = [cache EXCEPT ![l][k] = NoEntry]
  /\ UNCHANGED <<Rows, up, Media, req>>

Handle(r) ==
  \/ GetCached(r) \/ Load(r) \/ Fill(r) \/ CheckSlug(r) \/ Create(r)
  \/ FindProduct(r) \/ Check(r) \/ Write(r) \/ Drop(r) \/ SetOffer(r) \/ Rename(r)
  \/ Put(r) \/ CreateMedia(r) \/ (\E q \in Requests : DeleteMedia(r, q)) \/ NoMedia(r) \/ Unlink(r)
Next ==
  \/ \E r \in Requests : (\E call \in Calls : Send(r, call)) \/ Handle(r) \/ Die(r)
  \/ \E l \in Layers, k \in Keys : Expire(l, k)
  \/ Toggle
Spec == Init /\ [][Next]_vars
-----------------------------------------------------------------------------
TypeOK ==
  /\ \A i \in DOMAIN products : products[i].slug \in Slugs \cup Fresh /\ products[i].price \in 0..2
  /\ DOMAIN documents = DOMAIN products
  /\ \A l \in Layers, k \in Keys : cache[l][k].id \in {0} \cup DOMAIN products
  /\ assets \in [Requests -> {"none", "READY", "DELETED"}] /\ objects \subseteq Requests

Invalidating(id) == \E r \in Requests : At(r, "drop") /\ Asked(r).id = id
Current(e) == products[e.id].ver = e.ver
\* A cached product is the product of the database, unless an update of it is still emptying the
\* cache, or the entry could not be known to be stale: a reader stored it after an update it
\* overlapped, two renames overlapped, the other layer answered the invalidation, or the
\* process died before it (catalog.service.ts:314-331, 856-859; product-cache.ts:55-77).
CacheIsFresh ==
  \A l \in Layers, k \in Keys :
    LET e == cache[l][k] IN e.id # 0 /\ ~e.raced => Current(e) \/ Invalidating(e.id)

\* Without the excuses: what invalidateProductCache is called for.
CacheIsNeverStale ==
  \A k \in Keys : LET e == cache["redis"][k] IN
    up /\ e.id # 0 => Current(e) \/ Invalidating(e.id)
\* The price a visitor is shown is the offer's; an offer changes without an invalidation.
CachedPriceIsCurrent ==
  \A k \in Keys : LET e == cache["redis"][k] IN e.id # 0 => e.price = products[e.id].price
\* A product on sale has an offer; it is checked before the transaction that publishes it.
OnSaleHasOffer ==
  \A i \in DOMAIN products : products[i].status = "ACTIVE" => products[i].price # 0
\* An update that does not mention the slug leaves it alone.
RenamesAreKept == ~undone
\* The search document of a product names its brand and category as they are.
DocumentsNameTheCategory ==
  \A i \in DOMAIN products : documents[i].names = names

\* An image the shop shows is in the store: the object is there before its row is, and goes
\* after it, wherever an upload or a deletion is cut off (catalog.service.ts:1089-1161).
ReadyMediaIsStored == \A r \in Requests : assets[r] = "READY" => r \in objects
===============================================================================

------------------------------ MODULE AdminPages ------------------------------
(***************************************************************************)
(* The administrators' pages in one tab of a browser: a product's form,    *)
(* the form of a new product, the stock adjustment and the fulfilments of  *)
(* an order, under AdminShell.  A button starts a row of requests, each    *)
(* sent when the one before was answered; a failure ends the row where it  *)
(* is.  Another administrator works on the same product meanwhile.         *)
(***************************************************************************)
EXTENDS Integers, Sequences

CONSTANTS
  Names, Prices,          \* what is typed into the form; a price of 0 is no number
  MaxOffers, MaxImages, MaxCreated, MaxStock,
  MaxDeeds                \* bound on clicks, edits, lost calls and the other one's writes, together

Statuses == {"DRAFT", "ACTIVE", "INACTIVE", "ARCHIVED"}
Pages == {"product", "new", "stock", "order"}
Fulfilments == 1..2       \* the digital fulfilments of the order
Places == 1..2
NoForm == [name |-> "", status |-> "DRAFT", price |-> 0, link |-> FALSE]

VARIABLES
  product, offers, images, created, stock, rows,  \* the API: the form's product, and the rest
  page, me,               \* me: what AdminShell knows of the session
  seen,                   \* the product as last loaded: its first offer (0 is none), its images
  form,
  shown,                  \* the fulfilments as last loaded
  busyId,                 \* the fulfilment whose buttons are disabled, 0 is none
  busy,                   \* the other pages' buttons are disabled
  said,                   \* message or error of the page
  requests,               \* the requests to come, and how far the first of them is
  submitted,              \* (ghost) what the last save sent
  deeds,
  rough,                  \* (ghost) a call was lost, or the first load came after another
  foreign,                \* (ghost) the other administrator wrote
  crossed                 \* (ghost) a file was chosen while another row of requests ran

adminVars == <<product, offers, images, created, stock, rows, page, me, seen, form, shown,
               busyId, busy,
               said, requests, submitted, deeds, rough, foreign, crossed>>
stored == <<product, offers, images, created, stock, rows>>

Unloaded == [loaded |-> FALSE, offer |-> 0, images |-> 0]
NoAnswer == [name |-> "", status |-> "DRAFT", offer |-> 0, price |-> 0, images |-> 0,
             rows |-> [i \in Fulfilments |-> "PENDING"]]
NoRequest == [op |-> "none", at |-> "idle", todo |-> <<>>, form |-> NoForm, offer |-> 0, row |-> 0,
           got |-> NoAnswer]
FirstLoad == [NoRequest EXCEPT !.op = "open", !.at = "sent", !.todo = <<"load">>]

AdminTypeOK ==
  /\ product \in [name : Names, status : Statuses] /\ Len(offers) <= MaxOffers
  /\ images \in 0..MaxImages /\ created \in 0..MaxCreated /\ stock \in 0..MaxStock
  /\ rows \in [Fulfilments -> {"PENDING", "READY", "DELIVERED"}]
  /\ page \in Pages \cup {"login"} /\ me \in {"asking", "admin", "nobody"}
  /\ seen.loaded \in BOOLEAN /\ seen.offer \in 0..MaxOffers
  /\ form.name \in Names \cup {""} /\ form.status \in Statuses /\ form.price \in Prices \cup {0}
  /\ busyId \in {0} \cup Fulfilments /\ said \in {"nothing", "saved", "done", "error"}
  /\ \A s \in Places : requests[s].at \in {"idle", "sent", "done", "refused"}
  /\ deeds \in 0..MaxDeeds /\ {busy, rough, foreign, crossed} \subseteq BOOLEAN

FirstOffers == {<<>>} \cup {<<p>> : p \in Prices}
AdminInit ==
  /\ \E n \in Names : product = [name |-> n, status |-> "DRAFT"]
  /\ offers \in FirstOffers /\ images = 0
  /\ created = 0 /\ stock = 1 /\ rows = [i \in Fulfilments |-> "PENDING"]
  /\ page \in Pages /\ me = "asking"
  /\ seen = Unloaded /\ form = NoForm /\ shown = NoAnswer.rows /\ busyId = 0 /\ said = "nothing"
  /\ requests = [s \in Places |-> IF s = 1 /\ page # "new" THEN FirstLoad ELSE NoRequest]
  /\ busy = FALSE /\ submitted = NoForm /\ deeds = 0
  /\ rough = FALSE /\ foreign = FALSE /\ crossed = FALSE

Deed == deeds < MaxDeeds /\ deeds' = deeds + 1
FreePlace(s) == requests[s].at = "idle" /\ \A i \in Places : i < s => requests[i].at # "idle"
RowRuns == \E s \in Places : requests[s].at # "idle" /\ requests[s].op # "open"
-----------------------------------------------------------------------------
\* AdminShell.refresh: without an administrator's session the page is left for the login.
Shell ==
  /\ me = "asking" /\ me' \in {"admin", "nobody"}
  /\ page' = IF me' = "admin" THEN page ELSE "login"
  /\ UNCHANGED <<stored, seen, form, shown, busyId, busy, said, requests, submitted, deeds,
                 rough, foreign, crossed>>

\* The inputs are enabled at all times.
Type ==
  /\ page = "product" /\ Deed
  /\ \E f \in [name : Names, status : Statuses, price : Prices \cup {0}, link : BOOLEAN] :
       /\ \E field \in DOMAIN f : form' = [form EXCEPT ![field] = f[field]]
       /\ form' # form
  /\ UNCHANGED <<stored, page, me, seen, shown, busyId, busy, said, requests, submitted, rough,
                 foreign, crossed>>

Press(op, todo, row) ==
  /\ me = "admin" /\ Deed
  /\ \E s \in Places :
       /\ FreePlace(s)
       /\ requests' = [requests EXCEPT ![s] = [NoRequest EXCEPT
            !.op = op, !.at = "sent", !.todo = todo, !.form = form, !.offer = seen.offer,
            !.row = row]]

\* onSave: the product, then its first offer as the page knows it, then the link to an image.
\* A page that has not loaded the product knows no SKU, and leaves the price out.
Save ==
  LET priced == seen.loaded /\ form.price # 0
      offer == IF ~priced THEN <<>> ELSE IF seen.offer # 0 THEN <<"reprice">> ELSE <<"price">>
      media == IF form.link THEN <<"link">> ELSE <<>>
  IN  /\ page = "product" /\ ~busy /\ form.name # ""
      /\ Press("save", <<"update">> \o offer \o media \o <<"load">>, 0)
      /\ submitted' = [form EXCEPT !.price = IF priced THEN @ ELSE 0] /\ said' = "nothing"
      /\ busy' = TRUE
      /\ UNCHANGED <<stored, page, me, seen, form, shown, busyId, rough, foreign, crossed>>

\* onPublish, onUnpublish and onArchive.
Act ==
  /\ page = "product" /\ ~busy
  /\ \E op \in {"publish", "unpublish", "archive"} : Press(op, <<op, "load">>, 0)
  /\ said' = "nothing" /\ busy' = TRUE
  /\ UNCHANGED <<stored, page, me, seen, form, shown, busyId, submitted, rough, foreign, crossed>>

\* onRemoveImage of an image that was loaded.
RemoveImage ==
  /\ page = "product" /\ ~busy /\ seen.images > 0 /\ Press("unlink", <<"unlink", "load">>, 0)
  /\ said' = "nothing" /\ busy' = TRUE
  /\ UNCHANGED <<stored, page, me, seen, form, shown, busyId, submitted, rough, foreign, crossed>>

\* The file input is enabled at all times, and its row sets busy and clears it like the others.
Upload ==
  /\ page = "product" /\ Press("upload", <<"upload", "load">>, 0)
  /\ said' = "nothing" /\ busy' = TRUE /\ crossed' = (crossed \/ RowRuns)
  /\ UNCHANGED <<stored, page, me, seen, form, shown, busyId, submitted, rough, foreign>>

\* onSubmit of the form of a new product.
Create ==
  /\ page = "new" /\ ~busy /\ Press("create", <<"create">>, 0) /\ said' = "nothing" /\ busy' = TRUE
  /\ UNCHANGED <<stored, page, me, seen, form, shown, busyId, submitted, rough, foreign, crossed>>
\* onAdjust, which takes a new idempotency key each time.
Adjust ==
  /\ page = "stock" /\ ~busy /\ Press("adjust", <<"adjust", "load">>, 0) /\ said' = "nothing"
  /\ busy' = TRUE
  /\ UNCHANGED <<stored, page, me, seen, form, shown, busyId, submitted, rough, foreign, crossed>>

\* markReady and markDelivered: one busyId for all rows.
Mark ==
  /\ page = "order"
  /\ \E row \in Fulfilments :
       /\ busyId # row /\ busyId' = row
       /\ \/ shown[row] = "PENDING" /\ Press("ready", <<"ready", "load">>, row)
          \/ shown[row] = "READY" /\ Press("deliver", <<"deliver", "load">>, row)
  /\ UNCHANGED <<stored, page, me, seen, form, shown, busy, said, submitted, rough, foreign,
                 crossed>>
-----------------------------------------------------------------------------
\* What the API does with one request (Catalogue, Inventory and Orders have the handlers).
Publishable(status) == status = "ACTIVE" => offers # <<>>
NewStatus(op, f) ==
  CASE op = "publish" -> "ACTIVE" [] op = "unpublish" -> "INACTIVE" [] op = "archive" -> "ARCHIVED"
    [] OTHER -> f.status
Update(c) ==
  LET op == Head(c.todo)
      status == NewStatus(op, c.form)
  IN  /\ op \in {"update", "publish", "unpublish", "archive"} /\ Publishable(status)
      /\ product' = [name |-> IF op = "update" THEN c.form.name ELSE product.name,
                     status |-> status]
      /\ UNCHANGED <<offers, images, created, stock, rows>>
SetOffer(c) ==
  /\ \/ Head(c.todo) = "reprice" /\ offers' = [offers EXCEPT ![c.offer] = c.form.price]
     \/ Head(c.todo) = "price" /\ Len(offers) < MaxOffers /\ offers' = Append(offers, c.form.price)
  /\ UNCHANGED <<product, images, created, stock, rows>>
SetImages(c) ==
  /\ \/ Head(c.todo) \in {"link", "upload"} /\ images < MaxImages /\ images' = images + 1
     \/ Head(c.todo) = "unlink" /\ images > 0 /\ images' = images - 1
  /\ UNCHANGED <<product, offers, created, stock, rows>>
Post(c) ==
  /\ \/ Head(c.todo) = "create" /\ created < MaxCreated /\ created' = created + 1
        /\ product' \in [name : Names, status : {"DRAFT"}] /\ offers' \in FirstOffers
        /\ UNCHANGED <<stock, rows>>
     \/ Head(c.todo) = "adjust" /\ stock < MaxStock /\ stock' = stock + 1
        /\ UNCHANGED <<product, offers, created, rows>>
     \/ Head(c.todo) = "ready" /\ rows' = [rows EXCEPT ![c.row] = "READY"]
        /\ UNCHANGED <<product, offers, created, stock>>
     \/ Head(c.todo) = "deliver" /\ rows' = [rows EXCEPT ![c.row] = "DELIVERED"]
        /\ UNCHANGED <<product, offers, created, stock>>
  /\ UNCHANGED images

\* adminGetProduct: its offers come in no order.
Answers ==
  {[name |-> product.name, status |-> product.status, offer |-> i,
    price |-> IF i = 0 THEN 0 ELSE offers[i], images |-> images, rows |-> rows] :
     i \in IF offers = <<>> THEN {0} ELSE DOMAIN offers}
Serve(s) ==
  /\ requests[s].at = "sent"
  /\ \/ /\ Head(requests[s].todo) = "load" /\ UNCHANGED stored
        /\ \E a \in Answers : requests' = [requests EXCEPT ![s].at = "done", ![s].got = a]
     \/ /\ Update(requests[s]) \/ SetOffer(requests[s]) \/ SetImages(requests[s]) \/ Post(requests[s])
        /\ requests' = [requests EXCEPT ![s].at = "done"]
     \/ /\ Head(requests[s].todo) \in {"update", "publish"} /\ UNCHANGED stored
        /\ ~Publishable(NewStatus(Head(requests[s].todo), requests[s].form))
        /\ requests' = [requests EXCEPT ![s].at = "refused"]
  /\ UNCHANGED <<page, me, seen, form, shown, busyId, busy, said, submitted, deeds, rough,
                 foreign, crossed>>
-----------------------------------------------------------------------------
\* The next request of the row.
Proceed(s) ==
  /\ requests[s].at = "done" /\ Len(requests[s].todo) > 1
  /\ requests' = [requests EXCEPT ![s].at = "sent", ![s].todo = Tail(@)]
  /\ UNCHANGED <<stored, page, me, seen, form, shown, busyId, busy, said, submitted, deeds,
                 rough, foreign, crossed>>

\* The finally of a handler; the first load has none.
Finally(s) ==
  /\ busyId' = IF requests[s].row = 0 THEN busyId ELSE 0
  /\ busy' = (busy /\ (requests[s].op = "open" \/ requests[s].row # 0))

\* reload: the answer replaces what the page knows and what is in its form; without an offer the
\* price stays as typed.  The last request of a row is a load, except for a creation.
Loaded_FormOnly(s) ==                             \* mutant: reload without setProduct
  /\ requests[s].at = "done" /\ requests[s].todo = <<"load">>
  /\ LET a == requests[s].got
     IN  /\ seen' = [loaded |-> TRUE, offer |-> IF seen.loaded THEN seen.offer ELSE a.offer,
                     images |-> a.images]
         /\ form' = [name |-> a.name, status |-> a.status,
                     price |-> IF a.offer = 0 THEN form.price ELSE a.price,
                     link |-> form.link /\ requests[s].op # "save"]
         /\ shown' = a.rows
  /\ said' = CASE requests[s].op = "open" -> said [] requests[s].op = "save" -> "saved"
               [] OTHER -> "done"
  /\ Finally(s)
  /\ rough' = (rough \/ (requests[s].op = "open" /\ seen.loaded))
  /\ requests' = [requests EXCEPT ![s] = NoRequest]
  /\ UNCHANGED <<stored, page, me, submitted, deeds, foreign, crossed>>
Loaded(s) ==
  /\ requests[s].at = "done" /\ requests[s].todo = <<"load">>
  /\ LET a == requests[s].got
     IN  /\ seen' = [loaded |-> TRUE, offer |-> a.offer, images |-> a.images]
         /\ form' = [name |-> a.name, status |-> a.status,
                     price |-> IF a.offer = 0 THEN form.price ELSE a.price,
                     link |-> form.link /\ requests[s].op # "save"]
         /\ shown' = a.rows
  /\ said' = CASE requests[s].op = "open" -> said [] requests[s].op = "save" -> "saved"
               [] OTHER -> "done"
  /\ Finally(s)
  /\ rough' = (rough \/ (requests[s].op = "open" /\ seen.loaded))
  /\ requests' = [requests EXCEPT ![s] = NoRequest]
  /\ UNCHANGED <<stored, page, me, submitted, deeds, foreign, crossed>>

\* router.push to the form of the product that was created.
Created(s) ==
  /\ requests[s].at = "done" /\ requests[s].todo = <<"create">>
  /\ page' = "product" /\ seen' = Unloaded /\ form' = NoForm /\ said' = "nothing" /\ busy' = FALSE
  /\ requests' = [requests EXCEPT ![s] = FirstLoad]
  /\ UNCHANGED <<stored, me, shown, busyId, submitted, deeds, rough, foreign, crossed>>

\* The catch of every handler: an error, and the rest of the row is given up.
Fails(s) ==
  /\ \/ requests[s].at = "refused" /\ UNCHANGED <<deeds, rough>>
     \/ requests[s].at \in {"sent", "done"} /\ Deed /\ rough' = TRUE
  /\ said' = "error" /\ Finally(s)
  /\ requests' = [requests EXCEPT ![s] = NoRequest]
  /\ UNCHANGED <<stored, page, me, seen, form, shown, submitted, foreign, crossed>>

\* The other administrator publishes, withdraws, renames or sets a price.
Other ==
  /\ page = "product" /\ Deed /\ foreign' = TRUE
  /\ \/ /\ \E n \in Names, status \in Statuses :
             Publishable(status) /\ product' = [name |-> n, status |-> status]
        /\ product' # product /\ UNCHANGED offers
     \/ /\ \E p \in Prices : offers' = IF offers = <<>> THEN <<p>> ELSE [offers EXCEPT ![1] = p]
        /\ offers' # offers /\ UNCHANGED product
  /\ UNCHANGED <<images, created, stock, rows, page, me, seen, form, shown, busyId, busy, said,
                 requests,
                 submitted, rough, crossed>>

AdminNext ==
  \/ Shell \/ Type \/ Save \/ Act \/ RemoveImage \/ Upload \/ Create \/ Adjust \/ Mark \/ Other
  \/ \E s \in Places : Serve(s) \/ Proceed(s) \/ Loaded(s) \/ Created(s) \/ Fails(s)
AdminSpec == AdminInit /\ [][AdminNext]_adminVars
-----------------------------------------------------------------------------
\* A product has one offer however often it is saved, and "Saved" means that the product and its
\* price are what the form said (catalog/[id]/page.tsx:85): where no call was lost, nobody else
\* wrote, and no file was chosen while a row of requests ran.
SaveIsWhole ==
  ~rough /\ ~foreign /\ ~crossed =>
    /\ Len(offers) <= 1
    /\ said = "saved" =>
         /\ product = [name |-> submitted.name, status |-> submitted.status]
         /\ submitted.price # 0 => offers = <<submitted.price>>
-----------------------------------------------------------------------------
(* Statements that the code does not keep.                                                    *)

\* One product has one offer: a save that fails after it created the offer is tried again.
OneOffer == Len(offers) <= 1
\* The same where no call is lost and nobody else writes: the finally of an upload that was started
\* during a save enables the buttons while the save still runs (catalog/[id]/page.tsx:401, :443).
OneOfferUndisturbed == ~rough /\ ~foreign => Len(offers) <= 1
\* A status that another administrator gave is kept by a save of somebody who typed no status.
StatusSurvives ==
  [][\A s \in Places :
       product'.status # product.status /\ requests[s].at = "sent" /\ requests'[s].at = "done"
       /\ requests[s].op = "save" => ~foreign]_product
\* "Saved" with a price typed means that the price is stored: not before the page has loaded.
SavedMeansPriced == said = "saved" /\ ~foreign /\ ~rough /\ form.price # 0 => offers # <<>>
\* One form makes one product, one adjustment is posted once: a lost answer is sent again, under
\* a new key (inventory/page.tsx:9).
OneProductPerForm == created <= 1
\* What is delivered stays so: with two rows, busyId lets a row be pressed twice, and markReady asks
\* for no status (digital-fulfillment.service.ts:145).
DeliveredIsFinal ==
  [][\A row \in Fulfilments : rows[row] = "DELIVERED" => rows'[row] = "DELIVERED"]_rows
=============================================================================

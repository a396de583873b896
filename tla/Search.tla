------------------------------- MODULE Search --------------------------------
(***************************************************************************)
(* What visitors read of the catalogue: listings by category, the search   *)
(* over documents, and the several answers to what a product costs and     *)
(* whether it is there.  A visitor goes through the pages of one query,    *)
(* statement by statement, while administrators change products and        *)
(* categories.                                                             *)
(***************************************************************************)
EXTENDS Naturals, SequencesExt, FiniteSetsExt

CONSTANTS
  Products,   \* 1..n in the order of creation
  Categories,
  Queries,    \* what visitors ask: [words, category, how, min, max, sort, inStock, size]
  Shops,      \* what the shop may hold at first
  Trees,      \* the categories at first
  Rank,       \* [Products -> Nat]: ts_rank; equal ranks come in any order
  MaxPages,   \* bound on the pages of a visit
  MaxEdits,   \* bound on the changes administrators make
  Unset

ASSUME SearchConstants ==
  /\ IsFiniteSet(Products) /\ Products \subseteq Nat /\ Rank \in [Products -> Nat]
  /\ Unset \notin Categories
  /\ \A q \in Queries : q.size \in Nat \ {0} /\ q.category \in Categories \cup {Unset}
  /\ \A s \in Shops : s \in [Products -> [active : BOOLEAN, category : Categories \cup {Unset},
       words : {s[p].words : p \in Products}, variants : {s[p].variants : p \in Products}]]

VARIABLES
  shop,   \* [Products -> [active, category, words, variants]]
  tree,   \* [Categories -> [there, active, parent]]
  visit,  \* the query, its page, and what its statements have read
  seen,   \* the items of this page and the ones before
  steady, \* nothing changed since the first page was asked for
  onSale, \* the products that were active at some moment since this page was asked for
  edits

searchVars == <<shop, tree, visit, seen, steady, onSale, edits>>

NoQuery == [words |-> {}, category |-> Unset, how |-> "id", min |-> Unset, max |-> Unset,
            sort |-> "newest", inStock |-> FALSE, size |-> 1]
Unread == [pc |-> "idle", query |-> NoQuery, page |-> 1, among |-> {}, counted |-> FALSE,
           total |-> 0, ids |-> <<>>, fetched |-> FALSE, items |-> <<>>]
SearchInit ==
  /\ shop \in Shops /\ tree \in Trees
  /\ visit = Unread /\ seen = <<>> /\ steady = TRUE /\ onSale = {} /\ edits = 0
-----------------------------------------------------------------------------
(* What a product costs and whether it is there. *)

OffersOf(x) == UNION {Range(x.variants[v].offers) : v \in DOMAIN x.variants}
Free(b) == b.onHand - b.reserved
Units(balances) == FoldLeft(LAMBDA n, b : n + Free(b), 0, balances)
Plenty == 9   \* MAX_SAFE_INTEGER
AvailableUnits(x) ==
  IF \E o \in OffersOf(x) : o.unlimited THEN Plenty
  ELSE FoldLeft(LAMBDA n, v : n + FoldLeft(LAMBDA k, b : k + Max({0, Free(b)}), 0, v.balances),
                0, x.variants)
LowestOffer(x) == IF OffersOf(x) = {} THEN Unset ELSE Min({o.price : o \in OffersOf(x)})

FirstOffer(x) == IF x.variants[1].offers = <<>> THEN Unset ELSE x.variants[1].offers[1]
\* compareProducts, getAvailability and checkStock.
Compared(ids) == [i \in DOMAIN ids |->
  IF shop[ids[i]].active
  THEN [id |-> ids[i], offer |-> FirstOffer(shop[ids[i]]), units |-> AvailableUnits(shop[ids[i]])]
  ELSE [id |-> ids[i], offer |-> Unset, units |-> 0]]
Availability(x) == [offer |-> FirstOffer(x), units |-> Units(x.variants[1].balances)]
CheckStock(variant) == Units(variant.balances)
\* getPriceHistory: "observations" of the one price there is now.
Observed(x) == IF FirstOffer(x) = Unset THEN <<>> ELSE <<FirstOffer(x).price>>
\* getOfferPrice: an open price window comes before the list price.
OfferPrice(o) == IF o.window = Unset THEN o.price ELSE o.window
-----------------------------------------------------------------------------
(* What a query asks for. *)

Word(q, x) == q.words \subseteq x.words
Scope(c) == {c} \cup {d \in Categories : tree[d].there /\ tree[d].parent = c}
\* The two bounds are spread into one object under one key: the second takes the first's place.
PricedForList(q, x) ==
  \/ q.min = Unset /\ q.max = Unset
  \/ \E o \in OffersOf(x) : IF q.max # Unset THEN o.price <= q.max ELSE o.price >= q.min
PricedForSearch(q, x) ==
  \/ q.min = Unset /\ q.max = Unset
  \/ \E o \in OffersOf(x) : (q.min = Unset \/ o.price >= q.min) /\ (q.max = Unset \/ o.price <= q.max)
InStock(q, x) == q.inStock => AvailableUnits(x) > 0

\* _count of listCategories and getCategoryBySlug.
Numbered(c) == Cardinality({p \in Products : shop[p].active /\ shop[p].category = c})
Listed(q, among) == {p \in Products : shop[p].active /\ shop[p].category \in among
                       /\ PricedForList(q, shop[p])}
\* skip and take.
PageOf_FromOne(s, q, page) == SubSeq(s, page * q.size + 1, Min({(page + 1) * q.size, Len(s)}))
PageOf(s, q, page) == SubSeq(s, (page - 1) * q.size + 1, Min({page * q.size, Len(s)}))
\* The sequences of all of S in which everything comes before what it comes before.
InOrder(S, Before(_, _)) ==
  {s \in SetToSeqs(S) : \A i, j \in DOMAIN s : i < j => Before(s[i], s[j])}
\* The ORDER BY has only createdAt: no two creation times are taken to be equal, where the order of
\* the database could differ from one statement to the next.
NewestFirst(S) == InOrder(S, LAMBDA p, r : p > r)
\* The price sort of the rows at the positions S of a page, with no offer as infinity; Array.sort
\* is stable.
Sorted(S, ids, q) ==
  LET price(i) == LowestOffer(shop[ids[i]])
      cheaper(i, j) == price(i) # Unset /\ (price(j) = Unset \/ price(i) < price(j)) IN
  InOrder(S, LAMBDA i, j :
    \/ q.sort = "price_asc" /\ cheaper(i, j)
    \/ q.sort = "price_desc" /\ cheaper(j, i)
    \/ i < j /\ (q.sort = "newest" \/ (~cheaper(i, j) /\ ~cheaper(j, i))))
Item(p) == [id |-> p, price |-> LowestOffer(shop[p]), stocked |-> AvailableUnits(shop[p]) > 0]
-----------------------------------------------------------------------------
(* listProducts and searchProducts. *)

VisitAt(pc) == visit.pc = pc
VisitTo(pc) == visit' = [visit EXCEPT !.pc = pc]
Shop == <<shop, tree, edits>>
Trace == <<steady, onSale>>
Active == {p \in Products : shop[p].active}
FirstStatement(q) ==
  IF q.words # {} THEN "match"
  ELSE IF q.category = Unset THEN "read"
  ELSE IF q.how = "slug" THEN "category" ELSE "children"
Open(q) == visit' = [Unread EXCEPT !.pc = FirstStatement(q), !.query = q,
                                   !.among = IF q.category = Unset THEN Categories \cup {Unset} ELSE {}]

Ask(q) ==
  /\ VisitAt("idle") /\ Open(q)
  /\ steady' = TRUE /\ onSale' = Active /\ seen' = <<>> /\ UNCHANGED Shop

\* A slug that names no active category answers with an empty page.
FindCategory ==
  LET c == visit.query.category IN
  /\ VisitAt("category")
  /\ VisitTo(IF tree[c].there /\ tree[c].active THEN "children" ELSE "answered")
  /\ UNCHANGED <<Shop, seen, Trace>>
FindChildren ==
  /\ VisitAt("children")
  /\ visit' = [visit EXCEPT !.pc = "read", !.among = Scope(visit.query.category)]
  /\ UNCHANGED <<Shop, seen, Trace>>

\* Promise.all of count and findMany, each its own statement.
Count ==
  /\ VisitAt("read") /\ ~visit.counted
  /\ visit' = [visit EXCEPT !.counted = TRUE, !.pc = IF visit.fetched THEN "answered" ELSE @,
                            !.total = Cardinality(Listed(visit.query, visit.among))]
  /\ UNCHANGED <<Shop, seen, Trace>>
\* Of the page that was read, the positions in kept are answered.
Answer(ids, kept, fetched, pc) ==
  \E s \in Sorted(kept, ids, visit.query) :
    LET items == [k \in DOMAIN s |-> Item(ids[s[k]])] IN
    /\ visit' = [visit EXCEPT !.items = items, !.fetched = fetched, !.pc = pc]
    /\ seen' = seen \o items
Fetch ==
  LET q == visit.query IN
  /\ VisitAt("read") /\ ~visit.fetched
  /\ \E s \in NewestFirst(Listed(q, visit.among)) :
       LET ids == PageOf(s, q, visit.page) IN
       Answer(ids, {i \in DOMAIN ids : InStock(q, shop[ids[i]])},
              TRUE, IF visit.counted THEN "answered" ELSE "read")
  /\ UNCHANGED <<Shop, Trace>>

\* The orders ORDER BY ts_rank allows.
Ranked(S) == InOrder(S, LAMBDA p, r : Rank[p] >= Rank[r])
Matching_AnyStatus(q) == {p \in Products : Word(q, shop[p])}
Matching(q) == {p \in Products : shop[p].active /\ Word(q, shop[p])}
Match ==
  /\ VisitAt("match")
  /\ \E s \in Ranked(Matching(visit.query)) :
       LET ids == PageOf(s, visit.query, visit.page) IN
       visit' = [visit EXCEPT !.ids = ids, !.pc = IF ids = <<>> THEN "answered" ELSE "load"]
  /\ UNCHANGED <<Shop, seen, Trace>>
\* findMany by the ids alone: a product withdrawn since Match is loaded all the same.
Matches(q, x) ==
  /\ PricedForSearch(q, x) /\ InStock(q, x)
  /\ q.how = "id" => q.category \in {Unset, x.category}
LoadRows ==
  /\ VisitAt("load")
  /\ Answer(visit.ids, {i \in DOMAIN visit.ids : Matches(visit.query, shop[visit.ids[i]])},
            visit.fetched, "answered")
  /\ UNCHANGED <<Shop, Trace>>
NextPage ==
  /\ VisitAt("answered") /\ visit.page < MaxPages
  /\ visit' = [visit EXCEPT !.pc = FirstStatement(visit.query), !.page = @ + 1,
                            !.counted = FALSE, !.fetched = FALSE, !.ids = <<>>, !.items = <<>>]
  /\ onSale' = Active /\ UNCHANGED <<Shop, seen, steady>>
Leave == VisitAt("answered") /\ visit' = Unread /\ UNCHANGED <<Shop, seen, Trace>>
-----------------------------------------------------------------------------
(* Administrators. *)

Edited ==
  /\ edits < MaxEdits /\ edits' = edits + 1
  /\ steady' = FALSE /\ onSale' = onSale \cup {p \in Products : shop'[p].active}
  /\ UNCHANGED <<visit, seen>>
\* updateProduct, updateOffer and the movements of stock, as the readers see them.
SetStatus(p) == shop' = [shop EXCEPT ![p].active = ~@] /\ UNCHANGED tree
MoveTo(p, c) ==
  shop[p].category # c /\ shop' = [shop EXCEPT ![p].category = c] /\ UNCHANGED tree
Reprice(p, price) ==
  /\ FirstOffer(shop[p]) # Unset /\ FirstOffer(shop[p]).price # price
  /\ shop' = [shop EXCEPT ![p].variants[1].offers[1].price = price] /\ UNCHANGED tree
Reserve(p) ==
  /\ \E i \in DOMAIN shop[p].variants[1].balances :
       /\ Free(shop[p].variants[1].balances[i]) > 0
       /\ shop' = [shop EXCEPT ![p].variants[1].balances[i].reserved = @ + 1]
  /\ UNCHANGED tree
\* updateCategory: nothing looks at what the parent is.
SetParent(c, parent) ==
  /\ tree[c].there /\ tree[c].parent # parent
  /\ tree' = [tree EXCEPT ![c].parent = parent] /\ UNCHANGED shop
SetActive(c) == tree[c].there /\ tree' = [tree EXCEPT ![c].active = ~@] /\ UNCHANGED shop
Archive(c) ==
  /\ tree[c].there
  /\ tree' = [tree EXCEPT ![c].there = FALSE, ![c].active = FALSE] /\ UNCHANGED shop
Edit ==
  /\ \/ \E p \in Products : SetStatus(p) \/ Reserve(p) \/ \E c \in Categories : MoveTo(p, c)
     \/ \E p \in Products, price \in 1..3 : Reprice(p, price)
     \/ \E c \in Categories : SetActive(c) \/ Archive(c)
                              \/ \E parent \in Categories \cup {Unset} : SetParent(c, parent)
  /\ Edited
-----------------------------------------------------------------------------
Read == FindCategory \/ FindChildren \/ Count \/ Fetch \/ Match \/ LoadRows
SearchNext == Edit \/ Read \/ NextPage \/ Leave \/ \E q \in Queries : Ask(q)
SearchSpec == SearchInit /\ [][SearchNext]_searchVars
-----------------------------------------------------------------------------
SearchTypeOK ==
  /\ visit.pc \in {"idle", "category", "children", "read", "match", "load", "answered"}
  /\ visit.page \in 1..MaxPages /\ visit.total \in 0..Cardinality(Products)
  /\ edits \in 0..MaxEdits /\ \A i \in DOMAIN seen : seen[i].id \in Products

\* What the filters of a query mean: an active product with all the words, in the category or right
\* below it, with an offer within both bounds, and there if it has to be.
Wanted(q) == {p \in Products :
  /\ shop[p].active /\ q.words \subseteq shop[p].words
  /\ q.category # Unset =>
       \/ shop[p].category = q.category
       \/ /\ shop[p].category # Unset /\ tree[shop[p].category].there
          /\ tree[shop[p].category].parent = q.category
  /\ q.min # Unset \/ q.max # Unset => \E o \in OffersOf(shop[p]) :
       (q.min = Unset \/ o.price >= q.min) /\ (q.max = Unset \/ o.price <= q.max)
  /\ q.inStock => AvailableUnits(shop[p]) > 0}
\* The queries the code answers as they mean: a listing takes one bound, a search no subcategory,
\* no slug and no tie of ranks, and a slug is one of an active category.
Faithful(q) ==
  IF q.words = {} THEN /\ Unset \in {q.min, q.max}
                       /\ q.how = "slug" /\ q.category # Unset =>
                            tree[q.category].there /\ tree[q.category].active
  ELSE /\ q.category = Unset
       /\ \A p, r \in Products : Rank[p] = Rank[r] => p = r

\* While nothing changes, a visitor who goes through all the pages meets every product the query
\* asks for, and each once, though filters and sort work on a page after it was cut (listProducts,
\* searchProducts); the total of a listing counts them, unless it is one of what is in stock.
PagesCoverTheQuery ==
  LET q == visit.query IN
  VisitAt("answered") /\ steady /\ Faithful(q) /\ visit.page * q.size >= Cardinality(Products) =>
    /\ {seen[i].id : i \in DOMAIN seen} = Wanted(q)
    /\ \A i, j \in DOMAIN seen : seen[i].id = seen[j].id => i = j
    /\ q.words = {} /\ ~q.inStock => visit.total = Cardinality(Wanted(q))

\* Every product an answer shows was on sale at some moment of the request, though a search loads
\* by their ids the products it matched before (searchProducts).
ShownWasOnSale == \A i \in DOMAIN visit.items : visit.items[i].id \in onSale

\* compareProducts, getAvailability, getPriceHistory and checkStock agree on the price and on what
\* is there of a product with one variant that is counted, though each computes it by itself.
AnswersAgree ==
  \A p \in Products :
    LET x == shop[p]  row == Compared(<<p>>)[1] IN
    x.active /\ Len(x.variants) = 1 /\ (\A o \in OffersOf(x) : ~o.unlimited) =>
      /\ row.offer = Availability(x).offer
      /\ row.units = Availability(x).units /\ row.units = CheckStock(x.variants[1])
      /\ Observed(x) = IF row.offer = Unset THEN <<>> ELSE <<row.offer.price>>

\* Without those exceptions: no.
PagesAlwaysCover ==
  VisitAt("answered") /\ steady /\ visit.page * visit.query.size >= Cardinality(Products) =>
    {seen[i].id : i \in DOMAIN seen} = Wanted(visit.query)
AnswersAlwaysAgree ==
  \A p \in Products : shop[p].active =>
    Compared(<<p>>)[1].units = Availability(shop[p]).units
\* Pages sorted by price continue each other: no, each page is sorted by itself.
PagesAreInOrder ==
  steady /\ visit.query.sort = "price_asc" => \A i, j \in DOMAIN seen :
    i < j /\ Unset \notin {seen[i].price, seen[j].price} => seen[i].price <= seen[j].price
\* Categories form a tree: no, updateCategory takes any parent.
NoCycle == \A c, d \in Categories : ~(tree[c].parent = d /\ tree[d].parent = c)
\* The number beside a category is that of its listing: no, it leaves out the subcategories.
CountsAreListings ==
  \A c \in Categories : Numbered(c) = Cardinality(Listed(NoQuery, Scope(c)))
\* The list price on a card is the price getOfferPrice quotes: no, when a price window is open.
CardsQuoteThePrice == \A p \in Products : \A o \in OffersOf(shop[p]) : OfferPrice(o) = o.price
===============================================================================

----------------------------- MODULE MCCatalogue ------------------------------
(***************************************************************************)
(* Catalogue, ImportJob and SourceSync for TLC, three ways in which        *)
(* products come to be, Search and Advisor, two in which they are found,   *)
(* and Taxonomy, the categories they stand in.  `component` says in the    *)
(* initial state which of them runs.                                       *)
(***************************************************************************)
EXTENDS Catalogue, ImportJob, SourceSync, Advisor, Taxonomy, TLC

CONSTANTS r1, r2, r3, c1, c2, c3, b1, b2, Components,
  Topics  \* the groups of calls the run explores: the requests of one state all come from one

Asks(op, id, slug, status) == [op |-> op, id |-> id, slug |-> slug, status |-> status]
CallsOn ==
  [reads   |-> {Asks("get", 1, None, None), Asks("get", 1, "a", None),
                Asks("update", 1, None, "INACTIVE"), Asks("update", 1, "b", None)},
   writes  |-> {Asks("create", 1, "a", "ACTIVE"), Asks("update", 1, "b", None),
                Asks("update", 2, "a", "ACTIVE"), Asks("withdraw", 1, None, None),
                Asks("rename", 1, None, None)},
   prices  |-> {Asks("get", 1, None, None), Asks("price", 1, None, None)},
   images  |-> {Asks("upload", 1, None, None), Asks("delete", 1, None, None)}]
CatalogueCalls == UNION {CallsOn[t] : t \in Topics}
-----------------------------------------------------------------------------
VARIABLES component, topic

Line(slug, sku, price, stock, good) ==
  [slug |-> slug, sku |-> sku, price |-> price, stock |-> stock, good |-> good]
\* A row that names slug and SKU, one that names neither, the first again with another price,
\* and one the worker rejects.
TheFile == <<Line("a", "sku", TRUE, TRUE, TRUE), Line(NoName, NoName, TRUE, TRUE, TRUE),
             Line("a", "sku", TRUE, FALSE, TRUE), Line("b", NoName, FALSE, TRUE, FALSE)>>

OneGroup == [i \in Items |-> 1]  \* the items of the source share their dedupe key

Offered(price, window, unlimited) == [price |-> price, window |-> window, unlimited |-> unlimited]
Stocked(onHand, reserved) == [onHand |-> onHand, reserved |-> reserved]
Variant(of, balances) == [offers |-> of, balances |-> balances]
Goods(category, words, variants) ==
  [active |-> TRUE, category |-> category, words |-> words, variants |-> variants]
\* One variant in two places, two variants of which one has an open price window and no stock,
\* one that never runs out.
TheShops == {<<
  Goods(c1, {"a"}, <<Variant(<<Offered(1, Unset, FALSE)>>, <<Stocked(2, 1), Stocked(1, 0)>>)>>),
  Goods(c2, {"a", "b"}, <<Variant(<<Offered(3, 2, FALSE)>>, <<>>),
                          Variant(<<Offered(2, Unset, FALSE)>>, <<Stocked(1, 0)>>)>>),
  Goods(c3, {"a"}, <<Variant(<<Offered(2, Unset, TRUE)>>, <<>>)>>)>>}
Below(parent) == [there |-> TRUE, active |-> TRUE, parent |-> parent]
TheTrees == {(c1 :> Below(Unset)) @@ (c2 :> Below(c1)) @@ (c3 :> Below(c2))}
TheRank == <<1, 3, 2>>
Plain == [words |-> {}, category |-> Unset, how |-> "id", min |-> Unset, max |-> Unset,
          sort |-> "newest", inStock |-> FALSE, size |-> 1]
TheQueries ==
  {[Plain EXCEPT !.size = 2, !.sort = "price_asc"], [Plain EXCEPT !.category = c1],
   [Plain EXCEPT !.category = c2, !.how = "slug", !.max = 2],
   [Plain EXCEPT !.min = 2, !.sort = "price_desc", !.size = 2], [Plain EXCEPT !.inStock = TRUE],
   [Plain EXCEPT !.words = {"a"}], [Plain EXCEPT !.words = {"a", "b"}, !.category = c2],
   [Plain EXCEPT !.words = {"a"}, !.min = 1, !.max = 2, !.inStock = TRUE, !.size = 2]}
Phrase(kind, a) == [kind |-> kind, a |-> a, b |-> Unset]
Utterance(phrases, topics) == [phrases |-> phrases, topics |-> topics]
TheUtterances ==
  {Utterance({Phrase("under", 1)}, {"a"}), Utterance({Phrase("over", 2)}, {}), Utterance({}, {}),
   Utterance({[Phrase("between", 3) EXCEPT !.b = 2]}, {"b"}),
   Utterance({Phrase("cheapest", Unset), Phrase("under", 1)}, {}),
   Utterance({Phrase("around", 2), Phrase("budget", 2)}, {"a"})}
Args(tool, words) == [tool |-> tool, words |-> words, min |-> Unset, max |-> Unset, sort |-> Unset]
TheArgs ==
  {Args("searchProducts", {"a"}), Args("searchProducts", {}),
   [Args("searchProducts", {"a", "b"}) EXCEPT !.min = 1],
   [Args("recommendProducts", {}) EXCEPT !.max = 3]}

TheRoots == <<[name |-> "AI", slug |-> "ai"], [name |-> "Payout", slug |-> "payout"]>>
TheSlugify == ("AI" :> "ai") @@ ("Payout" :> "payout") @@ ("New" :> "new")
-----------------------------------------------------------------------------
chosen == <<component, topic>>

MCInit ==
  /\ component \in Components
  /\ topic \in IF component = "catalogue" THEN Topics ELSE {"none"}
  /\ Init /\ ImportInit /\ SyncInit /\ AdvisorInit /\ TaxonomyInit
  /\ component # "catalogue" => products[1].slug = "a"
  /\ IF component = "sync"
     THEN catalogue = {2} /\ feed = IF trigger = "none" THEN <<1>> ELSE <<1, 2>>
     ELSE catalogue = {} /\ feed = <<>> /\ trigger = "none"
OnTopic == \A r \in Requests : req'[r].call \in {NoCall} \cup CallsOn[topic]
CatalogueStep ==
  /\ component = "catalogue" /\ Next /\ OnTopic
  /\ UNCHANGED <<chosen, importVars, syncVars, advisorVars, taxonomyVars>>
ImportStep ==
  component = "import" /\ ImportNext /\ UNCHANGED <<chosen, vars, syncVars, advisorVars, taxonomyVars>>
SyncStep ==
  component = "sync" /\ SyncNext /\ UNCHANGED <<chosen, vars, importVars, advisorVars, taxonomyVars>>
SearchStep ==
  /\ component = "search" /\ SearchNext
  /\ UNCHANGED <<chosen, vars, importVars, syncVars, said, turn, found, taxonomyVars>>
\* The assistant asks for no category, so none moves.
AdvisorStep ==
  /\ component = "advisor" /\ AdvisorNext
  /\ tree' = tree /\ \A p \in DOMAIN shop : shop'[p].category = shop[p].category
  /\ UNCHANGED <<chosen, vars, importVars, syncVars, taxonomyVars>>
TaxonomyStep ==
  /\ component = "taxonomy" /\ TaxonomyNext
  /\ UNCHANGED <<chosen, vars, importVars, syncVars, advisorVars>>
MCSpec ==
  MCInit /\ [][CatalogueStep \/ ImportStep \/ SyncStep \/ SearchStep \/ AdvisorStep \/ TaxonomyStep]_
             <<chosen, vars, importVars, syncVars, advisorVars, taxonomyVars>>

\* The type invariants of the six.
CatalogueTypeOK == TypeOK /\ ImportTypeOK /\ SyncTypeOK /\ AdvisorTypeOK /\ TaxonomyTypeOK

Symmetry == Permutations({r1, r2, r3})
===============================================================================

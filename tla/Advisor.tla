------------------------------- MODULE Advisor -------------------------------
(***************************************************************************)
(* How the assistant answers a question about the shop: it takes the       *)
(* budget out of what the customer has said so far, searches the catalogue *)
(* with it (Search), once more with other words if nothing is found, and   *)
(* shows cards of what it found.  The provider is the deterministic one    *)
(* that runs without a model, or a model, which may ask for anything.      *)
(***************************************************************************)
EXTENDS Search

CONSTANTS
  Utterances,  \* what a customer may say: [phrases, topics]
  Providers,   \* of {"deterministic", "model"}
  ModelArgs,   \* what arguments a model may give: [tool, words, min, max, sort]
  MaxSaid,     \* bound on the questions asked
  MaxMessages, \* MAX_HISTORY_MESSAGES
  MaxCalls,    \* maxToolRounds
  MaxCards,    \* the limit of mergeProductResults
  ToolSize     \* the page size of the tools

ASSUME AdvisorConstants ==
  /\ MaxMessages \in Nat \ {0} /\ MaxCards \in Nat /\ ToolSize \in Nat \ {0}
  /\ \A a \in ModelArgs : a \in [tool : {a.tool}, words : {a.words}, min : {a.min}, max : {a.max},
                               sort : {a.sort}]

VARIABLES
  said,  \* what the customer has said
  turn,  \* the answer that is being made: [pc, by, calls, own, args, tries, cards,
         \* reply], own the arguments a model gave
  found  \* [Products -> item]: what the searches of this turn found last

advisorVars == <<searchVars, said, turn, found>>

NoArgs == [tool |-> "searchProducts", words |-> {}, min |-> Unset, max |-> Unset, sort |-> Unset]
NoTurn == [pc |-> "idle", by |-> "none", calls |-> 0, own |-> NoArgs, args |-> NoArgs, tries |-> 0,
           cards |-> <<>>, reply |-> "none"]
Nothing == [p \in Products |-> Unset]
AdvisorInit == SearchInit /\ said = <<>> /\ turn = NoTurn /\ found = Nothing
-----------------------------------------------------------------------------
(* extractBudgetFromText, extractBudgetFromConversation, enrichSearchToolArgs. *)

NoBudget == [min |-> Unset, max |-> Unset, sort |-> Unset, vague |-> FALSE]
\* The first kind of phrase that is there decides; the others of the same message are not read.
Kinds == <<"between", "cheapest", "under", "over", "around", "budget">>
Budget(u) ==
  LET kinds == SelectSeq(Kinds, LAMBDA k : \E f \in u.phrases : f.kind = k)
      f == CHOOSE g \in u.phrases : g.kind = kinds[1] IN
  IF kinds = <<>> THEN NoBudget
  ELSE CASE f.kind = "between" -> [NoBudget EXCEPT !.min = Min({f.a, f.b}), !.max = Max({f.a, f.b})]
         [] f.kind = "cheapest" -> [NoBudget EXCEPT !.sort = "price_asc", !.max = f.a]
         [] f.kind \in {"under", "budget"} -> [NoBudget EXCEPT !.max = f.a]
         [] f.kind = "over" -> [NoBudget EXCEPT !.min = f.a]
         [] f.kind = "around" -> [NoBudget EXCEPT !.vague = TRUE]

Over(new, old) == IF new # Unset THEN new ELSE old
Merge_FirstWins(old, new) ==
  [min |-> Over(old.min, new.min), max |-> Over(old.max, new.max),
   sort |-> Over(new.sort, old.sort), vague |-> new.vague \/ old.vague]
Merge(old, new) ==
  [min |-> Over(new.min, old.min), max |-> Over(new.max, old.max),
   sort |-> Over(new.sort, old.sort), vague |-> new.vague \/ old.vague]
\* orderBy createdAt asc, take: the tool reads the first questions, the provider is given the first
\* messages, half of which are answers.
First(n) == SubSeq(said, 1, Min({Len(said), n}))
Loaded == First(MaxMessages)
Given == First((MaxMessages + 1) \div 2)
Merged(messages) ==
  LET merged[n \in 0..Len(messages)] ==
        IF n = 0 THEN NoBudget ELSE Merge(merged[n - 1], Budget(messages[n])) IN
  merged[Len(messages)]
OnlyVague(b) == b.vague /\ {b.min, b.max} \subseteq {Unset, 0}
Enriched(args, messages) ==
  LET b == Merged(messages) IN
  IF OnlyVague(b) THEN args
  ELSE [args EXCEPT !.min = Over(@, b.min), !.max = Over(@, b.max), !.sort = Over(@, b.sort)]

\* deriveCatalogSearchQuery: what all the messages are about, or words no product need have.
Derived(messages) ==
  LET topics == UNION {u.topics : u \in Range(messages)} IN
  IF topics = {} THEN {"staging platform"} ELSE topics
-----------------------------------------------------------------------------
(* The turn. *)

Is(pc) == turn.pc = pc
Say(u) ==
  /\ Is("idle") /\ Len(said) < MaxSaid
  /\ said' = Append(said, u)
  /\ \E p \in Providers : turn' = [NoTurn EXCEPT !.pc = "complete", !.by = p]
  /\ found' = Nothing
  /\ UNCHANGED searchVars

Reply(reply) == turn' = [turn EXCEPT !.pc = "idle", !.reply = reply]
Call(own, args) ==
  turn' = [turn EXCEPT !.pc = "call", !.calls = @ + 1, !.own = own, !.args = args, !.tries = 0]
\* shouldInvokeCatalogTool.
AboutTheShop == \E u \in Range(Given) : u.phrases # {} \/ u.topics # {}
\* DeterministicModelProvider: one search, whose result it tells.
Deterministic ==
  IF turn.calls > 0 THEN Reply(IF visit.items = <<>> THEN "nothing" ELSE "found")
  ELSE IF ~AboutTheShop THEN Reply("help")
  ELSE IF OnlyVague(Merged(Given)) THEN Reply("which budget")
  ELSE Call(NoArgs, Enriched([NoArgs EXCEPT !.words = Derived(Given)], Given))
Complete ==
  /\ Is("complete")
  /\ IF turn.calls = MaxCalls THEN Reply("limit")
     ELSE \/ turn.by = "deterministic" /\ Deterministic
          \/ turn.by = "model" /\ Reply("prose")
          \/ turn.by = "model" /\ \E args \in ModelArgs : Call(args, args)
  /\ visit' = Unread /\ UNCHANGED <<shop, tree, seen, Trace, edits, said, found>>

\* runTool: both tools end in searchProducts.
Query(args, words) ==
  [NoQuery EXCEPT !.words = words, !.min = args.min, !.max = args.max, !.size = ToolSize,
                  !.sort = IF args.sort = Unset THEN "newest" ELSE args.sort]
Ran(words) ==
  /\ Open(Query(Enriched(turn.args, Loaded), words))
  /\ turn' = [turn EXCEPT !.pc = "search", !.tries = @ + 1]
  /\ steady' = TRUE /\ onSale' = Active /\ seen' = <<>>
  /\ UNCHANGED <<Shop, said, found>>
\* requiredString: a search without words is refused, and the model told.
RunTool ==
  /\ Is("call")
  /\ IF turn.args.tool = "searchProducts" /\ turn.args.words = {}
     THEN turn' = [turn EXCEPT !.pc = "complete"] /\ UNCHANGED <<searchVars, said, found>>
     ELSE Ran(turn.args.words)
\* The agent gives every tool its conversation, so that there are messages to search with.
Missed == turn.args.tool = "searchProducts" /\ visit.items = <<>> /\ turn.tries = 1
Fallback == Is("search") /\ VisitAt("answered") /\ Missed /\ Ran(Derived(Loaded))

\* mergeProductResults: a Map keeps the place of the first and the value of the last.
Cards_KeepsOld(cards, items) ==
  LET new == SelectSeq(items, LAMBDA x : \A i \in DOMAIN cards : cards[i].id # x.id) IN
  {SubSeq(cards \o new, 1, Min({MaxCards, Len(cards \o new)}))}
Cards(cards, items) ==
  LET all == cards \o items
      firsts == {i \in DOMAIN all : \A j \in 1..(i - 1) : all[j].id # all[i].id}
      last(i) == all[Max({j \in DOMAIN all : all[j].id = all[i].id})] IN
  {[k \in 1..Min({MaxCards, Len(ids)}) |-> last(ids[k])] :
     ids \in InOrder(firsts, LAMBDA i, j : i < j)}
Take ==
  /\ Is("search") /\ VisitAt("answered") /\ ~Missed
  /\ \E cards \in Cards(turn.cards, visit.items) :
       turn' = [turn EXCEPT !.pc = "complete", !.cards = cards]
  /\ found' = [p \in Products |->
       LET of == {i \in DOMAIN visit.items : visit.items[i].id = p} IN
       IF of = {} THEN found[p] ELSE visit.items[Max(of)]]
  /\ UNCHANGED <<searchVars, said>>
-----------------------------------------------------------------------------
AdvisorNext ==
  \/ \E u \in Utterances : Say(u)
  \/ Complete \/ RunTool \/ Fallback \/ Take
  \/ (Read \/ Edit) /\ UNCHANGED <<said, turn, found>>
AdvisorSpec == AdvisorInit /\ [][AdvisorNext]_advisorVars
-----------------------------------------------------------------------------
AdvisorTypeOK ==
  /\ SearchTypeOK /\ Len(said) <= MaxSaid /\ turn.calls \in 0..MaxCalls /\ turn.tries \in 0..2
  /\ turn.pc \in {"idle", "complete", "call", "search"} /\ Len(turn.cards) <= MaxCards

Named(field) ==
  LET at == {i \in DOMAIN said : Budget(said[i])[field] # Unset} IN
  IF at = {} THEN Unset ELSE Budget(said[Max(at)])[field]
\* A search of the assistant keeps to the limit of each kind the customer named last, unless the
\* model gave its own: through the page's history, the provider and the tool, which each put their
\* part of the arguments together, and again in the second attempt (enrichSearchToolArgs).  A limit
\* of zero is one, except beside a vague amount.
ZeroLimit == \E i \in DOMAIN said : 0 \in {Budget(said[i]).min, Budget(said[i]).max}
LastLimitHolds ==
  Is("search") /\ 2 * Len(said) <= MaxMessages + 1 /\ ~ZeroLimit =>
    /\ visit.query.min = Over(turn.own.min, Named("min"))
    /\ visit.query.max = Over(turn.own.max, Named("max"))

\* A card shows its product as the last search of the turn that found it did, no product has two,
\* and one that was found is missing only when there are as many cards as there may be.
CardsAreTheLatest ==
  LET shown == {turn.cards[i].id : i \in DOMAIN turn.cards} IN
  /\ \A i \in DOMAIN turn.cards : turn.cards[i] = found[turn.cards[i].id]
  /\ Cardinality(shown) = Len(turn.cards)
  /\ \A p \in Products : found[p] # Unset /\ p \notin shown => Len(turn.cards) = MaxCards

\* In a longer conversation, too: no, the latest messages are not read any more.
LastLimitAlwaysHolds ==
  Is("search") => visit.query.max = Over(turn.own.max, Named("max"))
\* A budget admits some price: no, an old minimum stays beside a new, lower maximum.
BudgetIsPossible ==
  Is("search") /\ Unset \notin {visit.query.min, visit.query.max} => visit.query.min <= visit.query.max
\* What is recommended is within the budget: no, without words the minimum is dropped (listProducts).
CardsKeepTheMinimum ==
  Is("search") /\ VisitAt("answered") /\ visit.query.min # Unset =>
    \A i \in DOMAIN visit.items : steady => \E o \in OffersOf(shop[visit.items[i].id]) :
      o.price >= visit.query.min
\* Every limit in a message counts: no, only the first kind of phrase does.
WholeMessageCounts ==
  \A u \in Range(said) : \A f \in u.phrases : f.kind = "under" => Budget(u).max # Unset
===============================================================================

------------------------------- MODULE Pricing -------------------------------
(***************************************************************************)
(* What a basket costs: PricingService loads the promotions in force and   *)
(* the customer's coupon, FinancialCalculationEngine.calculate applies     *)
(* them stage by stage (item, coupon, cart) to the lines, then shipping    *)
(* and tax.  A quote is one process; an administrator may create           *)
(* promotions and coupons while its three queries run.                     *)
(***************************************************************************)
EXTENDS Sums, FiniteSets

CONSTANTS
  Baskets,     \* sequences of [offer, qty]; an offer is [list, windows, currency, inclusive]
  Promotions,  \* rows an administrator may create: [id, type, bps, amount, currency,
               \*   stackable, priority, minSpend, active, coded, window]
  Coupons,     \* likewise: [id, promotion, status, window, max]
  Prepared,    \* at most so many rows are created
  TaxBps, TaxRequired, Currency, FlatRate, FreeAbove,   \* the environment
  None         \* null

PriceWindow == [id : Int, price : Int, priority : Int, window : STRING]
OfferRow == [list : Int, windows : SUBSET PriceWindow, currency : STRING, inclusive : BOOLEAN]

\* Amounts are integers; createPromotionSchema admits no negative one, and env.ts no negative rate.
ASSUME PricingAssumption ==
  /\ Baskets \subseteq Seq([offer : OfferRow, qty : Int])
  /\ \A b \in Baskets : \A i \in 1..Len(b) : IsFiniteSet(b[i].offer.windows)
  /\ \A p \in Promotions :
       (p.bps = None \/ p.bps \in Nat) /\ (p.amount = None \/ p.amount \in Nat)
  /\ (TaxBps = None \/ TaxBps \in Nat) /\ FlatRate \in Nat

VARIABLES
  promotions,  \* promotions.promotions
  coupons,     \* promotions.coupons; redeemedCount is never written and stays 0
  redeemed,    \* the orders placed with each coupon
  phase,       \* where the quote is
  working,     \* its lines: [unit, qty, total, discount, currency, inclusive]
  goods,       \* what they cost before any discount
  rules,       \* the rules left to apply: [promotion, stage]
  used,        \* the coupon, or None
  stage, blocked, discount, applied,   \* of the stages: discount[s] is what stage s took off
  bill         \* [shipping, tax, payable]

Rows == <<promotions, coupons, redeemed>>
Basket == <<working, goods>>
Stacking == <<stage, blocked, discount, applied, bill>>
pricingVars == <<Rows, phase, Basket, rules, used, Stacking>>

Stages == <<"item", "coupon", "cart">>
ItemTypes == {"PERCENT_OFF_ITEM", "FIXED_OFF_ITEM"}
NoDiscount == <<0, 0, 0>>
NoBill == [shipping |-> 0, tax |-> 0, payable |-> 0]

\* working.reduce((s, l) => s + l.lineTotalMinor, 0)
Totals(lines) == SumOf([i \in 1..Len(lines) |-> lines[i].total])
Smaller(a, b) == IF a <= b THEN a ELSE b
OrZero(x) == IF x = None THEN 0 ELSE x
-----------------------------------------------------------------------------
(***************************************************************************)
(* Pure arithmetic.                                                        *)
(***************************************************************************)
\* mulRational by bps / 10000: half away from zero, the division truncates.
Percent(amount, bps) ==
  LET product == amount * bps IN
  IF product >= 0 THEN (product + 5000) \div 10000 ELSE -((5000 - product) \div 10000)

\* A window sells at its price while it is open; the highest priority wins, then the
\* lowest price, then the lowest id.
Beats(v, w) ==
  \/ v.priority > w.priority
  \/ v.priority = w.priority /\ v.price < w.price
  \/ v.priority = w.priority /\ v.price = w.price /\ v.id <= w.id
UnitPrice(offer) ==
  LET open == {w \in offer.windows : w.window = "open"}
  IN IF open = {} THEN offer.list
     ELSE (CHOOSE w \in open : \A v \in open : Beats(w, v)).price

\* allocateCartDiscount: floored shares in proportion, the last line takes the rest.
Share(lines, amount, i) ==
  Smaller(lines[i].total, (amount * lines[i].total) \div Totals(lines))
Shares_NoRemainder(lines, amount) ==     \* mutant: every line only takes its share
  [i \in 1..Len(lines) |-> Share(lines, amount, i)]
Shares(lines, amount) ==
  LET floored == [i \in 1..(Len(lines) - 1) |-> Share(lines, amount, i)]
  IN Append(floored, amount - SumOf(floored))

Less(line, amount) ==
  [line EXCEPT !.discount = line.discount + amount, !.total = line.total - amount]
Off(lines, amounts) == [i \in 1..Len(lines) |-> Less(lines[i], amounts[i])]
Allocated(lines, amount) ==
  IF Totals(lines) <= 0 \/ amount <= 0 THEN lines ELSE Off(lines, Shares(lines, amount))

\* What a rule takes off each line (item types) or off the cart.
ItemOff(rule, line) ==
  IF rule.type = "PERCENT_OFF_ITEM" THEN Percent(line.total, OrZero(rule.bps))
  ELSE Smaller(line.total, OrZero(rule.amount))
CartOff(rule, lines) ==
  IF rule.type = "PERCENT_OFF_CART" THEN Percent(Totals(lines), OrZero(rule.bps))
  ELSE Smaller(Totals(lines), OrZero(rule.amount))
-----------------------------------------------------------------------------
(***************************************************************************)
(* The administrator, and an order placed with a coupon.                   *)
(***************************************************************************)
Created == Cardinality(promotions) + Cardinality(coupons)
CreatePromotion(p) ==
  /\ Created < Prepared /\ p \notin promotions
  /\ promotions' = promotions \cup {p}
  /\ UNCHANGED <<coupons, redeemed, phase, Basket, rules, used, Stacking>>

CreateCoupon(c) ==
  /\ Created < Prepared /\ c \notin coupons
  /\ c.promotion \in {p.id : p \in promotions}
  /\ coupons' = coupons \cup {c}
  /\ UNCHANGED <<promotions, redeemed, phase, Basket, rules, used, Stacking>>
-----------------------------------------------------------------------------
(***************************************************************************)
(* The quote.                                                              *)
(***************************************************************************)
Line(l) ==
  LET unit == UnitPrice(l.offer)
  IN [unit |-> unit, qty |-> l.qty, total |-> unit * l.qty, discount |-> 0,
      currency |-> l.offer.currency, inclusive |-> l.offer.inclusive]
Start(basket) ==
  /\ phase = "new" /\ phase' = "load item"
  /\ working' = [i \in 1..Len(basket) |-> Line(basket[i])]
  /\ goods' = Totals(working')
  /\ UNCHANGED <<Rows, rules, used, Stacking>>

Rule(p, s) == [promotion |-> p, stage |-> s]
InForce(types) == {p \in promotions : p.active /\ p.type \in types /\ p.window = "open"}

\* loadActiveItemPromotions takes coded promotions too.
LoadItem ==
  /\ phase = "load item" /\ phase' = "load cart"
  /\ rules' = {Rule(p, "item") : p \in InForce(ItemTypes)}
  /\ UNCHANGED <<Rows, Basket, used, Stacking>>
Uncoded == {p \in InForce({"PERCENT_OFF_CART", "FIXED_OFF_CART"}) : ~p.coded}
LoadCart ==
  /\ phase = "load cart" /\ phase' = "coupon"
  /\ rules' = rules \cup {Rule(p, "cart") : p \in Uncoded}
  /\ UNCHANGED <<Rows, Basket, used, Stacking>>

\* validateCoupon compares maxRedemptions with redeemedCount, which is 0.
Valid(c, p) ==
  /\ c.status = "ACTIVE" /\ p.active /\ c.window = "open"
  /\ c.max = None \/ c.max > 0
  /\ p.minSpend = None \/ goods >= p.minSpend

\* calculate refuses an empty basket, two currencies and a line that is no sale.
Sound(lines) ==
  /\ lines # <<>>
  /\ \A i \in 1..Len(lines) :
       lines[i].currency = lines[1].currency /\ lines[i].qty >= 1 /\ lines[i].unit >= 0
Calculate(loaded, coupon) ==
  /\ phase' = IF Sound(working) THEN "rules" ELSE "failed"
  /\ rules' = loaded /\ used' = coupon

UseCoupon ==
  /\ phase = "coupon"
  /\ \/ Calculate(rules, None)
     \/ \E c \in coupons, p \in promotions :
          /\ p.id = c.promotion
          /\ IF Valid(c, p) THEN Calculate(rules \cup {Rule(p, "coupon")}, c.id)
             ELSE phase' = "failed" /\ UNCHANGED <<rules, used>>
  /\ UNCHANGED <<Rows, Basket, Stacking>>

\* The stage's next rule: highest priority first, then the lowest id.
Before(r, s) ==
  \/ r.promotion.priority > s.promotion.priority
  \/ r.promotion.priority = s.promotion.priority /\ r.promotion.id < s.promotion.id
OfStage == {r \in rules : r.stage = Stages[stage]}
IsNext(r) == r \in OfStage /\ \A s \in OfStage \ {r} : Before(r, s)

Skipped(p) ==
  \/ blocked /\ ~p.stackable
  \/ p.minSpend # None /\ Totals(working) < p.minSpend
Skip == UNCHANGED <<phase, working, blocked, discount, applied>>

Priced(lines, amount, p) ==
  LET counts == amount > 0 IN
  /\ working' = lines
  /\ discount' = IF counts THEN [discount EXCEPT ![stage] = @ + amount] ELSE discount
  /\ applied' = IF counts THEN Append(applied, [id |-> p.id, amount |-> amount]) ELSE applied
  /\ blocked' = (blocked \/ (counts /\ ~p.stackable))
  /\ UNCHANGED phase
PriceItems(p) ==
  LET offs == [i \in 1..Len(working) |-> ItemOff(p, working[i])]
  IN Priced(Off(working, offs), SumOf(offs), p)
PriceCart(p) ==
  LET amount == CartOff(p, working) IN
  IF p.type = "FIXED_OFF_CART" /\ p.currency \notin {None, working[1].currency}
  THEN phase' = "failed" /\ UNCHANGED <<working, blocked, discount, applied>>
  ELSE Priced(Allocated(working, amount), amount, p)

ApplyRule ==
  /\ phase = "rules" /\ stage <= 3
  /\ \E r \in OfStage :
       /\ IsNext(r) /\ rules' = rules \ {r}
       /\ \/ Skipped(r.promotion) /\ Skip
          \/ ~Skipped(r.promotion) /\ r.promotion.type \in ItemTypes /\ PriceItems(r.promotion)
          \/ ~Skipped(r.promotion) /\ r.promotion.type \notin ItemTypes /\ PriceCart(r.promotion)
  /\ UNCHANGED <<Rows, goods, used, stage, bill>>

NextStage ==
  /\ phase = "rules" /\ stage <= 3 /\ OfStage = {}
  /\ stage' = stage + 1 /\ blocked' = FALSE
  /\ UNCHANGED <<Rows, phase, Basket, rules, used, discount, applied, bill>>

\* FlatShippingQuoteAdapter and ConfigurableTaxCalculator.
Shipping(amount) == IF FreeAbove # None /\ amount >= FreeAbove THEN 0 ELSE FlatRate
Tax(taxable, inclusive) ==
  IF TaxBps = None THEN 0
  ELSE IF inclusive THEN taxable - (taxable * 10000) \div (10000 + TaxBps)
  ELSE Percent(taxable, TaxBps)

Settle ==
  LET left == Totals(working)
      ship == Shipping(left)
      inclusive == \A i \in 1..Len(working) : working[i].inclusive
      tax == Tax(left + ship, inclusive)
      payable == left + ship + (IF inclusive THEN 0 ELSE tax)
      refused == \/ working[1].currency # Currency   \* shipping's, then the tax's
                 \/ TaxBps = None /\ TaxRequired
                 \/ payable < 0                      \* money()
  IN
  /\ phase = "rules" /\ stage > 3
  /\ phase' = IF refused THEN "failed" ELSE "quoted"
  /\ bill' = IF refused THEN bill ELSE [shipping |-> ship, tax |-> tax, payable |-> payable]
  /\ UNCHANGED <<Rows, Basket, rules, used, stage, blocked, discount, applied>>

\* The checkout that asked for the quote places its order: no redemption is recorded.
Redeem ==
  /\ phase = "quoted"
  /\ redeemed' = [c \in DOMAIN redeemed |-> IF c = used THEN redeemed[c] + 1 ELSE redeemed[c]]
  /\ \A c \in DOMAIN redeemed : redeemed'[c] <= 2    \* bound
  /\ phase' = "new" /\ working' = <<>> /\ goods' = 0 /\ rules' = {} /\ used' = None
  /\ stage' = 1 /\ blocked' = FALSE /\ discount' = NoDiscount /\ applied' = <<>> /\ bill' = NoBill
  /\ UNCHANGED <<promotions, coupons>>

PricingInit ==
  /\ promotions = {} /\ coupons = {}
  /\ redeemed = [c \in {k.id : k \in Coupons} |-> 0]
  /\ phase = "new" /\ working = <<>> /\ goods = 0 /\ rules = {} /\ used = None
  /\ stage = 1 /\ blocked = FALSE /\ discount = NoDiscount /\ applied = <<>> /\ bill = NoBill

PricingNext ==
  \/ \E p \in Promotions : CreatePromotion(p)
  \/ \E c \in Coupons : CreateCoupon(c)
  \/ \E b \in Baskets : Start(b)
  \/ LoadItem \/ LoadCart \/ UseCoupon \/ ApplyRule \/ NextStage \/ Settle \/ Redeem

PricingSpec == PricingInit /\ [][PricingNext]_pricingVars
-----------------------------------------------------------------------------
Discounts == discount[1] + discount[2] + discount[3]
Quoted == phase = "quoted"

PricingTypeOK ==
  /\ promotions \subseteq Promotions /\ coupons \subseteq Coupons
  /\ phase \in {"new", "load item", "load cart", "coupon", "rules", "quoted", "failed"}
  /\ \A i \in 1..Len(working) : {working[i].total, working[i].discount} \subseteq Int

\* What the lines bear; and no promotion that an adjustment names takes off more than 100%, which
\* createPromotionSchema would allow.
Borne == SumOf([i \in 1..Len(working) |-> working[i].discount])
Modest ==
  \A p \in Promotions : (\E i \in 1..Len(applied) : applied[i].id = p.id) => OrZero(p.bps) <= 10000

\* The numbers of a quote explain each other, whatever was rounded on the way and whatever the
\* promotions take off: the lines cost what they list less what they bear, the adjustments shown
\* to the customer add up to the discount, the lines bear no more than that, and what is to be paid
\* is what they cost, shipping and tax that is not included.  Of promotions of at most 100% the
\* lines bear all, and it is at most what the goods cost.
QuoteAddsUp ==
  Quoted =>
    /\ Totals(working) = goods - Borne
    /\ SumOf([i \in 1..Len(applied) |-> applied[i].amount]) = Discounts
    /\ Borne <= Discounts /\ 0 <= Discounts
    /\ Modest => Borne = Discounts /\ Discounts <= goods
    /\ bill.payable - bill.shipping - Totals(working) \in {0, bill.tax}

\* Every adjustment has a reason (ADR-0012, section 14): no, after one of more than 100% the next
\* rule gives back to the lines what no adjustment says.
LinesBearTheDiscount == Quoted => Borne = Discounts
\* No discount exceeds the goods: no, again after one of more than 100%.
DiscountWithinGoods ==
  phase \in {"rules", "quoted"} => Discounts <= goods

\* ADR-0012 forbids negative money; a line of a discounted cart may have a negative total.
NoNegativeLine ==
  Quoted => \A i \in 1..Len(working) : working[i].total >= 0

\* ADR-0012, section 9: the same promotion is not applied twice to an order.
NoPromotionTwice ==
  \A i, k \in 1..Len(applied) : i # k => applied[i].id # applied[k].id

\* A coupon is used in at most maxRedemptions orders.
CouponLimit ==
  \A c \in Coupons : c.max # None => redeemed[c.id] <= c.max
=============================================================================

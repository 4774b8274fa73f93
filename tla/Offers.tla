------------------------------- MODULE Offers -------------------------------
(***************************************************************************)
(* services/offers.py without its database calls: what each audience would *)
(* pay, the offers of a watch grouped and ordered, and the counts of the   *)
(* recorded changes.  Pure, over product rows and ProductChange rows.      *)
(*                                                                         *)
(* Prices are whole units and rounding to pence is left out.  A discount   *)
(* is [audience, amount, percent], either number possibly None.  A list of *)
(* discounts is a sequence, None when they are unknown (SQL NULL).  Of a   *)
(* row only id, code, variant, price, discounts, price_audience, rating,   *)
(* stock, archived and first_seen are read here.                           *)
(***************************************************************************)
EXTENDS Ordering, FiniteSetsExt, SequencesExt

CONSTANT None    \* SQL NULL

ASSUME NullAssumption == None \notin Nat

AUDIENCES == {"new_customer", "returning_customer"}

DISCOUNT_AUDIENCES == AUDIENCES \cup {"any"}

\* A discount for nobody known, or of no known size, is dropped.
discounts_to_json(discounts) ==
    IF discounts = None THEN None
    ELSE LET known(d) == /\ d.audience \in DISCOUNT_AUDIENCES
                         /\ d.amount # None \/ d.percent # None
             kept == Ascending({n \in DOMAIN discounts : known(discounts[n])})
         IN  [i \in DOMAIN kept |-> discounts[kept[i]]]

\* An amount wins over a percentage.
Saving(price, d) ==
    CASE d.amount # None -> d.amount
      [] d.amount = None /\ d.percent # None -> (price * d.percent) \div 100
      [] OTHER -> 0

\* Which of the discounts an audience may take; it takes the best of them.
For(discounts, audience) ==
    {n \in DOMAIN discounts : discounts[n].audience \in {audience, "any"}}

Best(price, discounts, audience) ==
    Max({Saving(price, discounts[n]) : n \in For(discounts, audience)} \cup {0})

\* What is left of the price once a single discount has been taken off it.
Undone(price, d) ==
    CASE d.amount # None -> price + d.amount
      [] d.amount = None /\ d.percent \in 1 .. 99 ->
            (price * 100) \div (100 - d.percent)
      [] OTHER -> None

\* mutant: the quoted price passes for the list price
ListPriceAsQuoted(price, discounts, quoted) ==
    IF quoted # "any" /\ discounts = None THEN None ELSE price

\* The price before any discount: that of the quoted audience is added back.
list_price(price, discounts, quoted) ==
    IF price = None \/ quoted = "any" THEN price
    ELSE IF discounts = None THEN None
    ELSE LET taken == For(discounts, quoted)
         IN  CASE taken = {} -> price
               [] \E n \in taken : taken = {n} ->
                     Undone(price, discounts[CHOOSE n \in taken : TRUE])
               [] OTHER -> None

\* The list price less the single best discount of the audience.
audience_price(price, discounts, audience, quoted) ==
    IF price = None \/ quoted = audience THEN price
    ELSE LET base == list_price(price, discounts, quoted)
         IN  IF base = None \/ discounts = None THEN None
             ELSE Max({base - Best(base, discounts, audience), 0})

offer_dict(p) ==
    [id |-> p.id, code |-> p.code, price |-> p.price,
     list |-> list_price(p.price, p.discounts, p.price_audience),
     new |-> audience_price(p.price, p.discounts, "new_customer", p.price_audience),
     returning |->
        audience_price(p.price, p.discounts, "returning_customer", p.price_audience)]

-----------------------------------------------------------------------------
\* What an offer costs to start with: the new customer's price if known.
ToStart(o) == IF o.new # None THEN o.new ELSE o.price

\* mutant: offers are ordered by the price that is quoted
CheaperAsQuoted(a, b) ==
    \/ a.price # None /\ (b.price = None \/ a.price < b.price)
    \/ a.price = b.price /\ a.id < b.id

\* _price_key: an offer without a price comes last; sellers and codes, which
\* break ties, are told apart by the id alone.
Cheaper(a, b) ==
    \/ ToStart(a) # None /\ (ToStart(b) = None \/ ToStart(a) < ToStart(b))
    \/ ToStart(a) = ToStart(b) /\ a.id < b.id

SeenBefore(p, q) ==
    p.first_seen < q.first_seen \/ (p.first_seen = q.first_seen /\ p.id < q.id)

\* The variants of some products, in the order they were first seen.
Variants(products) ==
    LET seen == InOrder(products, SeenBefore)
        opens(n) == \A m \in 1 .. n - 1 : seen[m].variant # seen[n].variant
        first == Ascending({n \in DOMAIN seen : opens(n)})
    IN  [i \in DOMAIN first |-> seen[first[i]].variant]

Available(products, variant, min_rating) ==
    {p \in products :
        /\ p.stock /\ ~p.archived
        /\ variant # None => p.variant = variant
        /\ min_rating # None => p.rating # None /\ p.rating >= min_rating}

group_offers(products, variant, min_rating) ==
    LET rows == Available(products, variant, min_rating)
        order == Variants(rows)
    IN  [i \in DOMAIN order |->
            [variant |-> order[i],
             offers |-> InOrder(
                {offer_dict(p) : p \in {q \in rows : q.variant = order[i]}}, Cheaper)]]

has_variants(products) == \E p \in products : p.variant # "" /\ ~p.archived

-----------------------------------------------------------------------------
\* A ProductChange row is [product, ts, field, old, new].  Of the summary of
\* a variant, the list of its changes is left out, and the mean is the sum.
recent_changes(changes, ids, since) ==
    {c \in changes : c.product \in ids /\ c.ts >= since}

\* A move of the price whose two ends are known.
Step(c) == IF c.new > c.old THEN c.new - c.old ELSE c.old - c.new

summarise_changes(products, changes) ==
    LET order == Variants(products)
        of(v, field) == {c \in changes :
                            /\ c.field = field
                            /\ \E p \in products : p.id = c.product /\ p.variant = v}
        steps(v) == {c \in of(v, "price") : c.old # None /\ c.new # None}
    IN  [i \in DOMAIN order |->
            LET v == order[i]
            IN  [variant |-> v,
                 price_changes |-> Cardinality(of(v, "price")),
                 offers_with_price_change |->
                    Cardinality({c.product : c \in of(v, "price")}),
                 max_abs_change |-> IF steps(v) = {} THEN None
                                    ELSE Max({Step(c) : c \in steps(v)}),
                 sum_abs_change |-> MapThenSumSet(Step, steps(v)),
                 discount_changes |-> Cardinality(of(v, "discounts"))]]
=============================================================================

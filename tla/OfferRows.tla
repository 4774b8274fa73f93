----------------------------- MODULE OfferRows -----------------------------
(***************************************************************************)
(* The rows of one watch beside their ProductChange and Event rows: polls  *)
(* copy the offer fields and the delivery text (apply_offer_fields and the *)
(* lead-time part of check_watch), and the merge-duplicates command joins  *)
(* the rows an earlier version left behind, one for each spelling of a     *)
(* code (services/dedupe.py).                                              *)
(*                                                                         *)
(* A poll finds a row whatever case the page uses, of several the last.    *)
(* Polls have a time of their own.  A failed price push (drop, rise or     *)
(* target) puts the old price back beside the page's discounts and         *)
(* audience; when one is staged is PriceAlerts'.  Left out, being Poller's:*)
(* stock pushes that fail.                                                 *)
(*                                                                         *)
(* shows[i] is the page last copied into row i, priced[i] the one its      *)
(* price is of; both are None in a row of before the offer fields or one a *)
(* merge has put together.  They are history variables.                    *)
(***************************************************************************)
EXTENDS Offers, Functions

INSTANCE Dates

CONSTANTS Fold,        \* casefold: from the codes, as they are spelled
          Pages,       \* what a page may say of one product
          MaxListed,   \* bound: products on a page
          FirstDay,    \* the day at time 0, and its year
          FirstYear,
          MinDays,     \* lead_time_min_change_days
          Retention,   \* event_retention_days, in clock units; 0 is off
          MaxClock     \* bound: no poll at or after this time

\* A page is an offer at a list price, the discounts there are, whether the
\* handler reports them, whom it quotes the price for, and a delivery text:
\* [code, variant, stock, list, discounts, reported, quoted, delivery].
ASSUME PagesAssumption ==
    /\ IsFiniteSet(Pages)
    /\ \A p \in Pages : /\ p.code \in DOMAIN Fold
                        /\ p.quoted \in DISCOUNT_AUDIENCES
                        /\ p.list # None => p.list \in Nat
ASSUME TimesAssumption ==
    MaxClock \in Nat /\ MinDays \in Nat /\ MaxListed \in Nat /\ Retention \in Nat
\* The first day is in the first year, and the last poll in it or the next.
ASSUME CalendarAssumption ==
    /\ FirstYear \in Nat \ {0}
    /\ FirstDay \in NewYear(FirstYear) .. NewYear(FirstYear + 1) - 1
    /\ MaxClock >= 3 /\ MaxClock \div 2 <= 365
ASSUME DatesAssumption == None \notin [day : 1 .. 31, month : 1 .. 12]

VARIABLES
    clock,
    rows,      \* the active rows, by id
    changes,   \* the ProductChange rows
    events,    \* the Event rows: [product, ts, kind]
    shows, priced

tables == <<rows, changes, events, shows, priced>>
offerVars == <<clock, tables>>

-----------------------------------------------------------------------------
\* Two units of the clock are a day.
Day(t) == t \div 2

Today == FirstDay + Day(clock)

Year == IF Today >= NewYear(FirstYear + 1) THEN FirstYear + 1 ELSE FirstYear

-----------------------------------------------------------------------------
(* What the shop asks.                                                     *)

Asked(page, audience) ==
    IF page.list = None THEN None
    ELSE page.list - Best(page.list, page.discounts, audience)

Quote(page) ==
    IF page.quoted = "any" THEN page.list ELSE Asked(page, page.quoted)

Reported(page) == IF page.reported THEN page.discounts ELSE None

-----------------------------------------------------------------------------
Ids == DOMAIN rows

\* Rows are looked up by the folded code; of several the last one loaded stays.
Same(id, code) == Fold[rows[id].code] = Fold[code]

Loaded == {i \in Ids : \A j \in Ids : Same(i, rows[j].code) => j <= i}

Found(page) == {i \in Loaded : Same(i, page.code)}

\* What a page may list: a product once.
Listings ==
    {listed \in UNION {kSubset(n, Pages) : n \in 1 .. MaxListed} :
        \A p, q \in listed : Fold[p.code] = Fold[q.code] => p = q}

\* The price of the row's last recorded move, None when there is none.
LastRecorded(id) ==
    LET moves == {c \in changes : c.product = id /\ c.field = "price"}
    IN  IF moves = {} THEN None
        ELSE (CHOOSE c \in moves : \A d \in moves : d.ts <= c.ts).new

Moves(id, page) ==
    LET last == LastRecorded(id)
        base == IF last = None THEN rows[id].price ELSE last
        price == Quote(page)
        discounts == discounts_to_json(Reported(page))
    IN  {[product |-> id, ts |-> clock, field |-> "price", old |-> b, new |-> price] :
            b \in {b \in {base} : price # None /\ base # None /\ base # price}}
        \cup
        {[product |-> id, ts |-> clock, field |-> "discounts", old |-> d, new |-> discounts] :
            d \in {rows[id].discounts} \ {discounts}}

Copied(row, page) ==
    [row EXCEPT !.variant = page.variant, !.price = Quote(page),
                !.discounts = discounts_to_json(Reported(page)),
                !.price_audience = page.quoted]

Blank(id, page) ==
    [id |-> id, code |-> page.code, variant |-> "", price |-> None,
     discounts |-> None, price_audience |-> "any", rating |-> None,
     stock |-> page.stock, since |-> IF page.stock THEN clock ELSE None,
     delivery |-> page.delivery, archived |-> FALSE,
     first_seen |-> clock, last_seen |-> clock]

NewEvents(id, kinds) == {[product |-> id, ts |-> clock, kind |-> k] : k \in kinds}

\* Rows the page no longer lists go out of stock after two intervals.
Delisted(listed) ==
    {i \in Loaded : /\ rows[i].code \notin {p.code : p \in listed}
                    /\ rows[i].stock /\ clock - rows[i].last_seen >= 2}

Unlisted(row) == [row EXCEPT !.stock = FALSE, !.since = None]

-----------------------------------------------------------------------------
\* The text of a buyable product moved far enough.
DeliveryMoved(row, page) ==
    /\ row.stock /\ page.stock
    /\ row.delivery.text # "" /\ page.delivery.text # ""
    /\ row.delivery # page.delivery
    /\ is_lead_time_change_significant(row.delivery, page.delivery, Today, Year, MinDays)

\* mutant: the new text stays although nobody was told
DeliveryKept(row, page, told) == page.delivery

\* A failed lead-time push puts the old text back.
DeliveryAfter(row, page, told) ==
    IF DeliveryMoved(row, page) /\ ~told THEN row.delivery ELSE page.delivery

\* A failed price push puts the old price back.
PriceAfter(row, page, held) == IF held THEN row.price ELSE Quote(page)

SinceAfter(row, page) ==
    IF page.stock THEN (IF row.stock THEN row.since ELSE clock) ELSE None

Seen(row, page, told, held) ==
    [Copied(row, page) EXCEPT !.price = PriceAfter(row, page, held),
                              !.stock = page.stock, !.since = SinceAfter(row, page),
                              !.delivery = DeliveryAfter(row, page, told),
                              !.last_seen = clock]

KindsOf(row, page, told) ==
    {k \in {"public", "oos", "lead_time"} :
        \/ k = "public" /\ page.stock /\ ~row.stock
        \/ k = "oos" /\ ~page.stock /\ row.stock
        \/ k = "lead_time" /\ DeliveryMoved(row, page) /\ told}

\* One check; the next is an interval later.  The rows of products it lists
\* for the first time are told of, but for the first poll's.
Poll(listed) ==
    LET known == {i \in Loaded : \E p \in listed : i \in Found(p)}
        page(i) == CHOOSE p \in listed : i \in Found(p)
        new == SetToSeq({p \in listed : Found(p) = {}})
        last == Max(Ids \cup {0})
        gone == Delisted(listed) \ known
        fresh == last + 1 .. last + Len(new)
        moved == {i \in known : DeliveryMoved(rows[i], page(i))}
        repriced == {i \in known : Quote(page(i)) \notin {None, rows[i].price}}
    IN  /\ clock < MaxClock
        /\ clock' = clock + 1
        /\ \E told \in SUBSET moved, held \in SUBSET repriced :
              /\ rows' = [i \in Ids \cup fresh |->
                            IF i \in fresh THEN Copied(Blank(i, new[i - last]), new[i - last])
                            ELSE IF i \in known THEN Seen(rows[i], page(i), i \in told, i \in held)
                            ELSE IF i \in gone THEN Unlisted(rows[i])
                            ELSE rows[i]]
              /\ events' = events
                    \cup (UNION {NewEvents(i, KindsOf(rows[i], page(i), i \in told)) : i \in known})
                    \cup (UNION {NewEvents(i, {"oos"}) : i \in gone})
                    \cup (IF Ids = {} THEN {}
                          ELSE UNION {NewEvents(i, {"new_product"}) : i \in fresh})
              /\ priced' = [i \in Ids \cup fresh |->
                              IF i \in fresh THEN new[i - last]
                              ELSE IF i \in known \ held THEN page(i) ELSE priced[i]]
        /\ shows' = [i \in Ids \cup fresh |-> IF i \in fresh THEN new[i - last]
                                            ELSE IF i \in known THEN page(i) ELSE shows[i]]
        /\ changes' = changes \cup UNION {Moves(i, page(i)) : i \in known}

-----------------------------------------------------------------------------
(* merge-duplicates.                                                       *)

Group(id) == {i \in Ids : Same(i, rows[id].code)}

Survivor(id) ==
    CHOOSE i \in Group(id) : \A j \in Group(id) : rows[i].first_seen <= rows[j].first_seen

Newest(id) ==
    CHOOSE i \in Group(id) : \A j \in Group(id) : rows[i].last_seen >= rows[j].last_seen

Survivors == {Survivor(i) : i \in Ids}

\* The false new_product event of the re-casing.
False(e) ==
    /\ e.kind = "new_product" /\ e.product # Survivor(e.product)
    /\ e.ts > rows[Survivor(e.product)].first_seen

\* mutant: the events of the removed rows go with them
OwnEvents == {e \in events : e.product \in Survivors}

Reassigned ==
    {[e EXCEPT !.product = Survivor(@)] : e \in {f \in events : ~False(f)}}

\* _FAST_FORWARD_ATTRS: neither price_audience nor available_since is there.
FastForwarded(id) ==
    LET new == rows[Newest(id)]
    IN  [rows[id] EXCEPT !.code = new.code, !.variant = new.variant,
                         !.price = new.price, !.discounts = new.discounts,
                         !.stock = new.stock, !.delivery = new.delivery,
                         !.rating = new.rating, !.last_seen = new.last_seen]

MergeDuplicates ==
    /\ Survivors # Ids
    /\ rows' = [i \in Survivors |-> FastForwarded(i)]
    /\ shows' = [i \in Survivors |-> IF Group(i) = {i} THEN shows[i] ELSE None]
    /\ priced' = [i \in Survivors |-> IF Group(i) = {i} THEN priced[i] ELSE None]
    /\ events' = Reassigned
    /\ changes' = {[c EXCEPT !.product = Survivor(@)] : c \in changes}
    /\ UNCHANGED clock

\* prune_old_changes, of the daily sweep; it spares no product's last move.
PruneOldChanges ==
    /\ Retention > 0
    /\ \E c \in changes : c.ts < clock - Retention
    /\ changes' = {c \in changes : c.ts >= clock - Retention}
    /\ UNCHANGED <<clock, rows, events, shows, priced>>

-----------------------------------------------------------------------------
\* A row of before plugin API 2: a price and no offer fields.
Legacy(id, page, last_seen) ==
    [Blank(id, page) EXCEPT !.price = page.list, !.since = IF page.stock THEN 0 ELSE None,
                            !.first_seen = id - 1, !.last_seen = last_seen]

\* A new watch, or two rows an earlier version kept for one product: the
\* second was announced as new, either may have been seen last.
OfferInit ==
    /\ clock = 3
    /\ changes = {}
    /\ \/ rows = <<>> /\ shows = <<>> /\ priced = <<>> /\ events = {}
       \/ \E p, q \in Pages, last \in 1 .. 2 :
             /\ p.code # q.code /\ Fold[p.code] = Fold[q.code]
             /\ rows = <<Legacy(1, p, IF last = 1 THEN 2 ELSE 0), Legacy(2, q, last)>>
             /\ shows = <<None, None>> /\ priced = <<None, None>>
             /\ events = {[product |-> 1, ts |-> 0, kind |-> "public"],
                          [product |-> 2, ts |-> 1, kind |-> "new_product"]}

OfferNext ==
    \/ \E listed \in Listings : Poll(listed)
    \/ MergeDuplicates
    \/ PruneOldChanges

OfferSpec == OfferInit /\ [][OfferNext]_offerVars

-----------------------------------------------------------------------------
(* Properties.                                                             *)

\* The price a row holds is of a page of the same discounts and audience as
\* the page last copied.
Agrees(id) ==
    /\ shows[id] # None /\ priced[id] # None
    /\ discounts_to_json(Reported(shows[id])) = discounts_to_json(Reported(priced[id]))
    /\ shows[id].quoted = priced[id].quoted

\* No offer is shown at a price nobody could get: the list price and what each
\* audience pays are those of the page its price is of, or are not shown.  It
\* holds where that page and the last one copied agree on discounts and
\* audience: what a price put back by a failed push comes to beside other
\* discounts was never asked by anybody.
OfferPricesAreReal ==
    \A i \in Ids : Agrees(i) =>
        LET page == priced[i]
            offer == offer_dict(rows[i])
        IN  /\ offer.list \in {None, page.list}
            /\ offer.new \in {None, Asked(page, "new_customer")}
            /\ offer.returning \in {None, Asked(page, "returning_customer")}

\* A variant's offers are in the order of what they cost a newcomer, an offer
\* with no price last, and none is missing or shown twice.  The order is that
\* of the prices asked between offers that have one (Agrees).
CheapestFirst ==
    LET groups == group_offers({rows[i] : i \in Ids}, None, None)
        shown == UNION {{[at |-> <<g, n>>, offer |-> groups[g].offers[n]] :
                            n \in DOMAIN groups[g].offers} : g \in DOMAIN groups}
        cost(o) == IF o.new # None THEN Asked(priced[o.id], "new_customer") ELSE o.price
    IN  /\ {s.offer.id : s \in shown} = {i \in Ids : rows[i].stock}
        /\ \A s, t \in shown :
              /\ s.offer.id = t.offer.id => s = t
              /\ s.at[1] = t.at[1] <=> rows[s.offer.id].variant = rows[t.offer.id].variant
              /\ /\ s.at[1] = t.at[1] /\ s.at[2] < t.at[2]
                 /\ Agrees(s.offer.id) /\ Agrees(t.offer.id)
                 /\ cost(t.offer) # None
                 => cost(s.offer) # None /\ cost(s.offer) <= cost(t.offer)

\* A lead-time alert whose push failed is staged again by the next poll that
\* reads the same page.
LateTextIsOwed ==
    [][\A page \in Pages :
          \A i \in Ids \cap DOMAIN rows' :
             /\ rows'[i].last_seen = clock /\ shows'[i] = page
             /\ DeliveryMoved(rows[i], page)
             /\ [product |-> i, ts |-> clock, kind |-> "lead_time"] \notin events'
             => DeliveryMoved(rows'[i], page)]_offerVars

\* A day and month without a year means the true day whenever that is within
\* half a year of today, or, rolled forward, less than a year ahead: so no
\* swing, and no early access, is wrong at the turn of the year or in February.
ReadsRight ==
    [t \in {FirstDay + Day(c) : c \in 0 .. MaxClock} |->
        LET year == IF t >= NewYear(FirstYear + 1) THEN FirstYear + 1 ELSE FirstYear
        IN  \A y \in year - 1 .. year + 1, m \in 1 .. 12 :
                \A d \in 1 .. MonthLength(y, m) :
                    LET written == [day |-> d, month |-> m]
                        true == Ordinal(y, m, d)
                    IN  /\ Gap(true, t) <= 182 =>
                              parse_delivery_date(written, t, year, FALSE) = true
                        /\ true \in t .. t + 364 => \A days \in {7, 30} :
                              Availability(TRUE, written, t, year, days) =
                                  IF true > t + days THEN "early" ELSE "public"]

DatesAreRead == ReadsRight[Today]

\* What GET /offer-changes counts, over all variants.
Counted(table, recorded) ==
    MapThenSumSet(LAMBDA v : v.price_changes + v.discount_changes,
                  ToSet(summarise_changes({table[i] : i \in DOMAIN table}, recorded)))

\* Merging loses no event of another kind than new_product, leaves none
\* without a product, leaves nothing for a second run to merge, and the summary
\* of the recorded changes counts as many as before.  It asks nothing of the
\* new_product events, some of which are false; the merge is one transaction,
\* and one step.
MergeKeepsHistory ==
    [][~(Ids \subseteq DOMAIN rows') =>
          /\ \A i, j \in DOMAIN rows' : Fold[rows'[i].code] = Fold[rows'[j].code] => i = j
          /\ \A e \in {f \in events : f.kind # "new_product"} :
                \E f \in events' : f.ts = e.ts /\ f.kind = e.kind
          /\ \A r \in events' \cup changes' : r.product \in DOMAIN rows'
          /\ Counted(rows', changes') = Counted(rows, changes)]_offerVars
=============================================================================

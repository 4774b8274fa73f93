---------------------------- MODULE PriceAlerts ----------------------------
(***************************************************************************)
(* The price side of services/poller.py: what the polls of one known       *)
(* product do to its price columns, and which price alerts they record.    *)
(*                                                                         *)
(* A poll is one action: Poller models what overlaps it.  It quotes a      *)
(* price (None when the page has none), stages up to three pushes, and     *)
(* each is told (accepted, or silenced: the same to the row) or fails.     *)
(* "new_low" rides on the price_drop push when there is one.               *)
(*                                                                         *)
(* peak, seen, lowTold and last are history variables: the highest quote   *)
(* since the last drop told, the last quote, the price of the last new_low *)
(* event, and the last poll.                                               *)
(***************************************************************************)
EXTENDS Naturals

CONSTANTS Prices,    \* quotes, in whole units of money
          None,      \* SQL NULL
          MinAbs,    \* price_drop_min_abs
          MinPct     \* price_drop_min_pct

ASSUME PricesAssumption == Prices \subseteq Nat /\ None \notin Nat
ASSUME ThresholdsAssumption == MinAbs \in Nat /\ MinPct \in Nat

VARIABLES
    price,      \* product.current_price
    ref,        \* product.price_ref
    low,        \* product.lowest_price
    change,     \* the last ProductChange of the price: [old, new], or None
    track,      \* the watch's track_price_drops, track_price_rises, price_target
    peak, seen, lowTold, last

row == <<price, ref, low, change>>
history == <<peak, seen, lowTold, last>>
vars == <<row, track, history>>

-----------------------------------------------------------------------------
Quotes == Prices \cup {None}

Kinds == {"price_drop", "price_rise", "new_low", "price_target"}

Settings == [drops: BOOLEAN, rises: BOOLEAN, target: Quotes]

IsDrop(old, new) ==
    /\ old # None /\ new # None /\ new < old
    /\ old - new >= MinAbs
    /\ (old - new) * 100 >= MinPct * old

\* A rise from zero is zero per cent.
IsRise(old, new) ==
    /\ old # None /\ new # None /\ new > old
    /\ new - old >= MinAbs
    /\ IF old = 0 THEN MinPct = 0 ELSE (new - old) * 100 >= MinPct * old

Higher(a, b) == IF a = None \/ (b # None /\ b > a) THEN b ELSE a

-----------------------------------------------------------------------------
(* What a poll quoting p stages; ok: in stock, or price_drop_in_stock_only *)
(* is off.                                                                 *)

\* mutant: drops are measured from the previous poll's price
DropsSinceLastPoll(p, ok) == ok /\ track.drops /\ IsDrop(price, p)

\* Rises pull the reference up before the drop is measured from it.
Drops(p, ok) == ok /\ track.drops /\ IsDrop(Higher(ref, p), p)

Rises(p, ok) == ok /\ track.rises /\ IsRise(price, p)

NewLow(p) == p # None /\ low # None /\ p < low

LowIsAlerted(ok) == track.drops /\ ok

HitsTarget(p) ==
    /\ track.target # None /\ p # None /\ p <= track.target
    /\ price = None \/ price > track.target

Staged(p, ok) ==
    {kind \in Kinds :
        \/ kind = "price_drop" /\ Drops(p, ok)
        \/ kind = "price_rise" /\ Rises(p, ok)
        \/ kind = "new_low" /\ NewLow(p) /\ LowIsAlerted(ok) /\ ~Drops(p, ok)
        \/ kind = "price_target" /\ HitsTarget(p)}

-----------------------------------------------------------------------------
(* What the row holds after a poll whose pushes in `told' got through and  *)
(* whose pushes in `failed' did not.                                       *)

\* mutant: a failed price_target push is not put back
PriceKeptOnFailedTarget(p, failed) ==
    IF failed \cap {"price_drop", "price_rise"} # {} THEN price ELSE p

\* The failure closures of all but new_low put the old price back.
PriceAfter(p, failed) ==
    IF failed \ {"new_low"} # {} THEN price ELSE p

\* mutant: a told drop does not move the reference
RefStays(p, told) == Higher(ref, p)

RefAfter(p, told) == IF "price_drop" \in told THEN p ELSE Higher(ref, p)

\* mutant: the merged closure forgets lowest_price
LowNotMerged(p, ok, told) ==
    IF p # None /\ (low = None \/ (NewLow(p) /\
                       (~LowIsAlerted(ok) \/ "new_low" \in told)))
    THEN p ELSE low

LowAfter(p, ok, told) ==
    IF p # None /\ (low = None \/ (NewLow(p) /\
                       (~LowIsAlerted(ok) \/ told \cap {"new_low", "price_drop"} # {})))
    THEN p ELSE low

\* mutant: a move is measured from current_price alone
ChangeFromCurrentPrice(p) ==
    IF p = None \/ price = None \/ price = p THEN change
    ELSE [old |-> price, new |-> p]

\* mutant: a page without a price is recorded as a move
ChangeToNoPrice(p) ==
    LET base == IF change # None THEN change.new ELSE price
    IN  IF base = None \/ base = p THEN change
        ELSE [old |-> base, new |-> p]

\* apply_offer_fields: a move is measured from the last recorded one, from
\* current_price only when there is none.
ChangeAfter(p) ==
    LET base == IF change # None THEN change.new ELSE price
    IN  IF p = None \/ base = None \/ base = p THEN change
        ELSE [old |-> base, new |-> p]

Init ==
    /\ price \in Quotes
    /\ ref = price /\ low = price
    /\ change = None
    /\ track \in Settings
    /\ peak = price /\ seen = price /\ lowTold = None
    /\ last = [quote |-> price, ok |-> FALSE, peak |-> price,
               low |-> FALSE, lowBefore |-> None, told |-> {}, failed |-> {}]

Poll(p, ok) ==
    \E told \in SUBSET Staged(p, ok) :
        LET failed == Staged(p, ok) \ told
            lowEvent == NewLow(p) /\ LowIsAlerted(ok)
                        /\ told \cap {"new_low", "price_drop"} # {}
        IN  /\ price' = PriceAfter(p, failed)
            /\ ref' = RefAfter(p, told)
            /\ low' = LowAfter(p, ok, told)
            /\ change' = ChangeAfter(p)
            /\ peak' = IF "price_drop" \in told THEN p ELSE Higher(peak, p)
            /\ seen' = IF p = None THEN seen ELSE p
            /\ lowTold' = IF lowEvent THEN p ELSE lowTold
            /\ last' = [quote |-> p, ok |-> ok, peak |-> Higher(peak, p),
                        low |-> lowEvent, lowBefore |-> lowTold,
                        told |-> told, failed |-> failed]
            /\ UNCHANGED track

\* PUT /watches/{id}; what the last poll left to do was staged under the
\* settings of then.
UpdateWatch ==
    /\ track' \in Settings
    /\ last' = [last EXCEPT !.ok = FALSE, !.told = {}, !.failed = {},
                          !.low = FALSE]
    /\ UNCHANGED <<row, peak, seen, lowTold>>

Next ==
    \/ \E p \in Quotes, ok \in BOOLEAN : Poll(p, ok)
    \/ UpdateWatch

Spec == Init /\ [][Next]_vars

-----------------------------------------------------------------------------
(* Properties.                                                             *)

TypeOK ==
    /\ price \in Quotes /\ ref \in Quotes /\ low \in Quotes
    /\ change \in [old: Prices, new: Prices] \cup {None}
    /\ track \in Settings
    /\ peak \in Quotes /\ seen \in Quotes /\ lowTold \in Quotes
    /\ last \in [quote: Quotes, ok: BOOLEAN, peak: Quotes, low: BOOLEAN,
                 lowBefore: Quotes, told: SUBSET Kinds, failed: SUBSET Kinds]

\* A slow creep is noticed and no drop is told twice: a buyable, tracked
\* product is alerted exactly when it stands far enough below its highest
\* quote since the last drop the user was told of, however many polls, gaps
\* and failed pushes lie between.
DropIffFarBelowPeak ==
    last.ok /\ track.drops =>
        ("price_drop" \in last.told \cup last.failed
            <=> IsDrop(last.peak, last.quote))

\* Delivery-safety (docs/architecture.md): an alert whose push failed is
\* staged again by the next poll that reads the same page.
FailedIsOwed == last.failed \subseteq Staged(last.quote, last.ok)

\* At most one event per transition, as long as all of a poll's pushes got
\* through: the same page stages none of them again.
SettledWhenAllTold ==
    last.failed = {} => last.told \cap Staged(last.quote, last.ok) = {}

\* At most one event per real transition (docs/architecture.md), whichever
\* of a poll's pushes failed: what was told is not staged again by the same
\* page.
ToldIsSettled == last.told \cap Staged(last.quote, last.ok) = {}

\* Each new_low event is below the one before it, also when it rode on a
\* price_drop push.
NewLowsDescend ==
    last.low => last.lowBefore = None \/ last.quote < last.lowBefore

\* The recorded moves form one chain through the quotes: each starts where
\* the last ended, none is recorded twice by a reverted price, and the last
\* one ends at the last quote.
MovesFollowQuotes ==
    /\ [][change' # change =>
             /\ change'.old # change'.new
             /\ change = None \/ change'.old = change.new]_vars
    /\ [](change # None => change.new = seen)
=============================================================================

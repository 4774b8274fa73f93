----------------------------- MODULE PriceProofs -----------------------------
(***************************************************************************)
(* The safety of PriceAlerts for every set of prices and every pair of     *)
(* thresholds: creeps are noticed, failed pushes are owed, told ones       *)
(* settled, lows descend, moves form a chain.                              *)
(*                                                                         *)
(* Three facts carry the argument from poll to poll: price_ref is the      *)
(* highest quote since the last drop told (RefIsPeak), lowest_price is no  *)
(* higher than the last new_low (LowIsCovered), and the last recorded move *)
(* ends where the quotes do (MovesEndAtSeen).  The thresholds matter only  *)
(* in that a price is neither a drop nor a rise from itself, so no lemma   *)
(* expands them but NothingFromItself.                                     *)
(***************************************************************************)
EXTENDS PriceAlerts, TLAPS

-----------------------------------------------------------------------------
(* The inductive invariant.                                                *)

RefIsPeak == ref = peak

LowIsCovered == lowTold # None => low # None /\ low <= lowTold

MovesEndAtSeen == change # None => change.new = seen

Inv ==
    /\ TypeOK
    /\ RefIsPeak
    /\ LowIsCovered
    /\ MovesEndAtSeen
    /\ DropIffFarBelowPeak
    /\ FailedIsOwed
    /\ SettledWhenAllTold
    /\ NewLowsDescend

-----------------------------------------------------------------------------
(* The operators.                                                          *)

\* Taking the higher of two quotes twice adds nothing.
LEMMA HigherFacts ==
    ASSUME NEW a \in Quotes, NEW b \in Quotes
    PROVE  /\ Higher(a, b) \in Quotes
           /\ Higher(Higher(a, b), b) = Higher(a, b)
           /\ Higher(b, b) = b
  BY PricesAssumption DEF Higher, Quotes

\* A price is neither a drop nor a rise from itself, nor a new low.
LEMMA NothingFromItself ==
    ASSUME NEW p \in Quotes
    PROVE  ~IsDrop(p, p) /\ ~IsRise(p, p)
  <1>1. p # None => ~(p < p) /\ ~(p > p)
    BY PricesAssumption DEF Quotes
  <1>2. QED
    BY <1>1 DEF IsDrop, IsRise

\* The four pushes of a poll, one by one.
LEMMA StagedKinds ==
    ASSUME NEW p, NEW ok
    PROVE  /\ "price_drop" \in Staged(p, ok) <=> Drops(p, ok)
           /\ "price_rise" \in Staged(p, ok) <=> Rises(p, ok)
           /\ "new_low" \in Staged(p, ok)
                <=> NewLow(p) /\ LowIsAlerted(ok) /\ ~Drops(p, ok)
           /\ "price_target" \in Staged(p, ok) <=> HitsTarget(p)
           /\ Staged(p, ok) \subseteq Kinds
  BY DEF Staged, Kinds

\* A poll leaves quotes in its columns, and a move between two prices.
LEMMA ColumnTypes ==
    ASSUME TypeOK, NEW p \in Quotes, NEW ok \in BOOLEAN, NEW told, NEW failed
    PROVE  /\ PriceAfter(p, failed) \in Quotes
           /\ RefAfter(p, told) \in Quotes
           /\ LowAfter(p, ok, told) \in Quotes
           /\ ChangeAfter(p) \in [old : Prices, new : Prices] \cup {None}
  <1>1. PriceAfter(p, failed) \in Quotes
    BY DEF PriceAfter, TypeOK
  <1>2. RefAfter(p, told) \in Quotes
    BY HigherFacts DEF RefAfter, TypeOK
  <1>3. LowAfter(p, ok, told) \in Quotes
    BY DEF LowAfter, TypeOK
  <1>4. ChangeAfter(p) \in [old : Prices, new : Prices] \cup {None}
    BY DEF ChangeAfter, TypeOK, Quotes
  <1>5. QED
    BY <1>1, <1>2, <1>3, <1>4

-----------------------------------------------------------------------------
(* The steps.                                                              *)

\* The invariant holds at first.
LEMMA InitInv == Init => Inv
  <1> SUFFICES ASSUME Init
               PROVE  Inv
    OBVIOUS
  <1>1. None \in Quotes
    BY DEF Quotes
  <1>2. /\ last.quote = price /\ last.peak = price /\ last.lowBefore = None
        /\ last.told = {} /\ last.failed = {} /\ ~last.ok /\ ~last.low
    BY DEF Init
  <1>3. last \in [quote : Quotes, ok : BOOLEAN, peak : Quotes, low : BOOLEAN,
                  lowBefore : Quotes, told : SUBSET Kinds,
                  failed : SUBSET Kinds]
    BY <1>1 DEF Init
  <1>4. TypeOK
    BY <1>1, <1>3 DEF Init, TypeOK
  <1>5. RefIsPeak /\ LowIsCovered /\ MovesEndAtSeen
    BY DEF Init, RefIsPeak, LowIsCovered, MovesEndAtSeen
  <1>6. DropIffFarBelowPeak /\ FailedIsOwed /\ SettledWhenAllTold
        /\ NewLowsDescend
    BY <1>2 DEF DropIffFarBelowPeak, FailedIsOwed, SettledWhenAllTold,
                NewLowsDescend
  <1>7. QED
    BY <1>4, <1>5, <1>6 DEF Inv

\* One poll.  The pushes it staged are owed or settled by what it leaves in
\* the columns they are staged from.
LEMMA PollKeepsInv ==
    ASSUME Inv, NEW p \in Quotes, NEW ok \in BOOLEAN, Poll(p, ok)
    PROVE  Inv'
  <1>1. PICK told \in SUBSET Staged(p, ok) :
          LET failed == Staged(p, ok) \ told
              lowEvent == NewLow(p) /\ LowIsAlerted(ok)
                          /\ told \cap {"new_low", "price_drop"} # {}
          IN  /\ price' = PriceAfter(p, failed)
              /\ ref' = RefAfter(p, told)
              /\ low' = LowAfter(p, ok, told)
              /\ change' = ChangeAfter(p)
              /\ peak' = IF "price_drop" \in told THEN p ELSE Higher(peak, p)
              /\ seen' = IF p = None THEN seen ELSE p
              /\ lowTold' = IF lowEvent THEN p ELSE lowTold
              /\ last' = [quote |-> p, ok |-> ok, peak |-> Higher(peak, p),
                          low |-> lowEvent, lowBefore |-> lowTold,
                          told |-> told, failed |-> failed]
              /\ UNCHANGED track
    BY DEF Poll
  <1> DEFINE failed == Staged(p, ok) \ told
             lowEvent == NewLow(p) /\ LowIsAlerted(ok)
                         /\ told \cap {"new_low", "price_drop"} # {}
  <1>2. /\ last'.quote = p /\ last'.ok = ok /\ last'.peak = Higher(peak, p)
        /\ last'.low = lowEvent /\ last'.lowBefore = lowTold
        /\ last'.told = told /\ last'.failed = failed
    BY <1>1
  <1>3. TypeOK'
    <2>1. told \in SUBSET Kinds /\ failed \in SUBSET Kinds
          /\ lowEvent \in BOOLEAN
      BY StagedKinds
    <2>2. Higher(peak, p) \in Quotes
      BY HigherFacts DEF Inv, TypeOK
    <2>3. last' \in [quote : Quotes, ok : BOOLEAN, peak : Quotes,
                     low : BOOLEAN, lowBefore : Quotes,
                     told : SUBSET Kinds, failed : SUBSET Kinds]
      BY <1>1, <2>1, <2>2 DEF Inv, TypeOK
    <2>4. /\ price' \in Quotes /\ ref' \in Quotes /\ low' \in Quotes
          /\ change' \in [old : Prices, new : Prices] \cup {None}
      BY <1>1, ColumnTypes DEF Inv
    <2>5. /\ peak' \in Quotes /\ seen' \in Quotes /\ lowTold' \in Quotes
          /\ track' \in Settings
      BY <1>1, <2>2 DEF Inv, TypeOK
    <2>6. QED
      BY <2>3, <2>4, <2>5 DEF TypeOK
  <1>4. RefIsPeak'
    BY <1>1 DEF Inv, RefIsPeak, RefAfter
  <1>5. LowIsCovered'
    BY <1>1, PricesAssumption
       DEF Inv, TypeOK, LowIsCovered, LowAfter, NewLow, Quotes
  <1>6. MovesEndAtSeen'
    <2>1. change # None => change.new \in Prices /\ change.new # None
      BY PricesAssumption DEF Inv, TypeOK
    <2>2. QED
      BY <1>1, <2>1 DEF Inv, MovesEndAtSeen, ChangeAfter
  <1>7. DropIffFarBelowPeak'
    <2>1. track' = track /\ peak = ref
      BY <1>1 DEF Inv, RefIsPeak
    <2>2. told \cup failed = Staged(p, ok)
      OBVIOUS
    <2>3. "price_drop" \in Staged(p, ok) <=> Drops(p, ok)
      BY StagedKinds
    <2>4. QED
      BY <1>2, <2>1, <2>2, <2>3 DEF DropIffFarBelowPeak, Drops
  <1>8. FailedIsOwed'
    <2>1. /\ "price_drop" \notin told => ref' = Higher(ref, p)
          /\ Higher(Higher(ref, p), p) = Higher(ref, p)
      BY <1>1, HigherFacts DEF RefAfter, Inv, TypeOK
    <2>2. failed \ {"new_low"} # {} => price' = price
      BY <1>1 DEF PriceAfter
    <2>3. track' = track
      BY <1>1
    <2>4. ASSUME "price_drop" \in failed
          PROVE  Drops(p, ok)'
      BY <2>1, <2>3, <2>4, StagedKinds DEF Drops
    <2>5. ASSUME "price_rise" \in failed
          PROVE  Rises(p, ok)'
      BY <2>2, <2>3, <2>5, StagedKinds DEF Rises
    <2>6. ASSUME "new_low" \in failed
          PROVE  (NewLow(p) /\ LowIsAlerted(ok) /\ ~Drops(p, ok))'
      <3>1. NewLow(p) /\ LowIsAlerted(ok) /\ ~Drops(p, ok)
        BY <2>6, StagedKinds
      <3>2. "new_low" \notin told /\ "price_drop" \notin told
        BY <2>6, <3>1, StagedKinds
      <3>3. low' = low
        BY <1>1, <3>1, <3>2 DEF LowAfter, NewLow
      <3>4. QED
        BY <2>1, <2>3, <3>1, <3>2, <3>3 DEF NewLow, LowIsAlerted, Drops
    <2>7. ASSUME "price_target" \in failed
          PROVE  HitsTarget(p)'
      BY <2>2, <2>3, <2>7, StagedKinds DEF HitsTarget
    <2>8. failed \subseteq Staged(p, ok)'
      BY <2>4, <2>5, <2>6, <2>7, StagedKinds DEF Staged, Kinds
    <2>9. QED
      BY <1>2, <2>8 DEF FailedIsOwed, Staged, Drops, Rises, NewLow,
                        LowIsAlerted, HitsTarget
  <1>9. SettledWhenAllTold'
    <2> SUFFICES ASSUME failed = {}
                 PROVE  told \cap Staged(p, ok)' = {}
      BY <1>2 DEF SettledWhenAllTold, Staged, Drops, Rises, NewLow,
                  LowIsAlerted, HitsTarget
    <2>1. price' = p /\ track' = track
      BY <1>1 DEF PriceAfter
    <2>2. ASSUME "price_drop" \in told
          PROVE  ~Drops(p, ok)'
      BY <1>1, <2>2, HigherFacts, NothingFromItself DEF Drops, RefAfter
    <2>3. ~Rises(p, ok)'
      BY <2>1, NothingFromItself DEF Rises
    <2>4. ASSUME "new_low" \in told
          PROVE  ~NewLow(p)'
      <3>1. low' = p /\ p # None
        BY <1>1, <2>4, StagedKinds DEF LowAfter, NewLow
      <3>2. QED
        BY <3>1, PricesAssumption DEF NewLow, Quotes
    <2>5. ~HitsTarget(p)'
      <3>1. PICK target : target = track.target
        OBVIOUS
      <3>2. target \in Quotes
        BY <3>1 DEF Inv, TypeOK, Settings
      <3>3. p # None /\ target # None => p \in Nat /\ target \in Nat
        BY <3>2, PricesAssumption DEF Quotes
      <3>4. p # None /\ target # None => (p <= target => ~(p > target))
        BY <3>3
      <3>5. track'.target = target
        BY <2>1, <3>1
      <3>6. QED
        BY <2>1, <3>4, <3>5, Zenon DEF HitsTarget
    <2>6. told \subseteq Kinds
      BY StagedKinds
    <2>7. QED
      BY <2>2, <2>3, <2>4, <2>5, <2>6 DEF Staged, Kinds
  <1>10. NewLowsDescend'
    <2>1. low \in Quotes /\ lowTold \in Quotes
      BY DEF Inv, TypeOK
    <2>2. NewLow(p) => lowTold = None \/ p < lowTold
      BY <2>1, PricesAssumption DEF NewLow, Inv, LowIsCovered, Quotes
    <2>3. QED
      BY <1>2, <2>2 DEF NewLowsDescend
  <1>11. QED
    BY <1>3, <1>4, <1>5, <1>6, <1>7, <1>8, <1>9, <1>10 DEF Inv

\* An edit of the watch changes no column and leaves nothing to compare.
LEMMA UpdateKeepsInv ==
    ASSUME Inv, UpdateWatch
    PROVE  Inv'
  <1>1. /\ UNCHANGED <<price, ref, low, change, peak, seen, lowTold>>
        /\ track' \in Settings
    BY DEF UpdateWatch, row
  <1>2. /\ last'.quote = last.quote /\ last'.peak = last.peak
        /\ last'.lowBefore = last.lowBefore
        /\ ~last'.ok /\ ~last'.low /\ last'.told = {} /\ last'.failed = {}
    BY DEF UpdateWatch, Inv, TypeOK
  <1>3. last' \in [quote : Quotes, ok : BOOLEAN, peak : Quotes, low : BOOLEAN,
                   lowBefore : Quotes, told : SUBSET Kinds,
                   failed : SUBSET Kinds]
    BY DEF UpdateWatch, Inv, TypeOK
  <1>4. TypeOK'
    BY <1>1, <1>3 DEF Inv, TypeOK
  <1>5. (RefIsPeak /\ LowIsCovered /\ MovesEndAtSeen)'
    BY <1>1 DEF Inv, RefIsPeak, LowIsCovered, MovesEndAtSeen
  <1>6. (DropIffFarBelowPeak /\ FailedIsOwed /\ SettledWhenAllTold
         /\ NewLowsDescend)'
    BY <1>2 DEF DropIffFarBelowPeak, FailedIsOwed, SettledWhenAllTold,
                NewLowsDescend
  <1>7. QED
    BY <1>4, <1>5, <1>6 DEF Inv

\* Every step keeps it.
LEMMA StepKeepsInv == Inv /\ [Next]_vars => Inv'
  <1> SUFFICES ASSUME Inv, [Next]_vars
               PROVE  Inv'
    OBVIOUS
  <1>1. CASE UNCHANGED vars
    BY <1>1 DEF vars, row, history, Inv, TypeOK, RefIsPeak, LowIsCovered,
                MovesEndAtSeen, DropIffFarBelowPeak, FailedIsOwed,
                SettledWhenAllTold, NewLowsDescend, Staged, Drops, Rises,
                NewLow, LowIsAlerted, HitsTarget
  <1>2. QED
    BY <1>1, PollKeepsInv, UpdateKeepsInv DEF Next

-----------------------------------------------------------------------------
(* The theorems.                                                           *)

\* All of the above is invariant.
THEOREM Invariance == Spec => []Inv
  BY InitInv, StepKeepsInv, PTL DEF Spec

\* The price columns hold quotes, the last move is one between two prices.
THEOREM TypeCorrectness == Spec => []TypeOK
  <1>1. Inv => TypeOK
    BY DEF Inv
  <1>2. QED
    BY <1>1, Invariance, PTL

\* A buyable, tracked product is alerted exactly when it stands far enough
\* below its highest quote since the last drop told (poller.py, price_ref).
THEOREM Creeps == Spec => []DropIffFarBelowPeak
  <1>1. Inv => DropIffFarBelowPeak
    BY DEF Inv
  <1>2. QED
    BY <1>1, Invariance, PTL

\* An alert whose push failed is staged again by the same page: no closure
\* puts back too little, whatever else the poll told or failed to tell.
THEOREM Delivery == Spec => []FailedIsOwed
  <1>1. Inv => FailedIsOwed
    BY DEF Inv
  <1>2. QED
    BY <1>1, Invariance, PTL

\* When all pushes of a poll got through, the same page stages none of them.
THEOREM Settlement == Spec => []SettledWhenAllTold
  <1>1. Inv => SettledWhenAllTold
    BY DEF Inv
  <1>2. QED
    BY <1>1, Invariance, PTL

\* Each new_low event is below the one before, alone or on a drop's push.
THEOREM Lows == Spec => []NewLowsDescend
  <1>1. Inv => NewLowsDescend
    BY DEF Inv
  <1>2. QED
    BY <1>1, Invariance, PTL

\* The recorded moves form one chain that ends at the last quote.
THEOREM Moves == Spec => MovesFollowQuotes
  <1>1. Inv => (change # None => change.new = seen)
    BY DEF Inv, MovesEndAtSeen
  <1>2. Inv /\ [Next]_vars
          => [change' # change =>
                 /\ change'.old # change'.new
                 /\ change = None \/ change'.old = change.new]_vars
    <2> SUFFICES ASSUME Inv, Next, change' # change
                 PROVE  /\ change'.old # change'.new
                        /\ change = None \/ change'.old = change.new
      OBVIOUS
    <2>1. PICK p \in Quotes, ok \in BOOLEAN : Poll(p, ok)
      BY DEF Next, UpdateWatch, row
    <2>2. change' = ChangeAfter(p)
      BY <2>1 DEF Poll
    <2>3. QED
      BY <2>2 DEF ChangeAfter
  <1>3. QED
    BY <1>1, <1>2, Invariance, PTL DEF Spec, MovesFollowQuotes
=============================================================================

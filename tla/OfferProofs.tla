---------------------------- MODULE OfferProofs ----------------------------
(***************************************************************************)
(* The rows and the history behind the offers, for every set of pages and  *)
(* every folding of codes: a lead-time alert whose push failed is owed,    *)
(* merging the rows of one product loses no event, leaves none without a   *)
(* product, leaves nothing to merge and changes no count of changes, pages *)
(* that need no rounding are shown at prices the shop asks and in their    *)
(* order, and a date without a year is read as the day that is meant.      *)
(*                                                                         *)
(* The rows were all last seen before now (RowsAreOld), which tells the    *)
(* rows a poll writes from the others; every event and every change has a  *)
(* row (EventsHaveRows, ChangesHaveRows); and a change was recorded of a   *)
(* row that some poll of this version has seen.  Ids are bounded, so the   *)
(* ids of inserted rows are new.  A change is of a row that a check finds  *)
(* (ChangesAreOwned), so a merge makes no two changes one.                 *)
(***************************************************************************)
EXTENDS OfferRows, OrderProofs

RowFields ==
    {"id", "code", "variant", "price", "discounts", "price_audience", "rating",
     "stock", "since", "delivery", "archived", "first_seen", "last_seen"}

EventFields == {"product", "ts", "kind"}

ChangeFields == {"product", "ts", "field", "old", "new"}

\* The polls of this version start here; a row last seen before is a legacy
\* row and may have no variant.
FirstPollAt == 3

-----------------------------------------------------------------------------
(* The inductive invariant.                                                *)

OldRow(r, now) ==
    /\ DOMAIN r = RowFields
    /\ r.code \in DOMAIN Fold
    /\ r.first_seen \in Nat /\ r.last_seen \in Nat
    /\ r.last_seen < now
    /\ r.last_seen >= FirstPollAt => r.variant \in {p.variant : p \in Pages}
    /\ r.archived = FALSE

RowsAreOld ==
    /\ \E n \in Nat : Ids \subseteq 1 .. n
    /\ \A i \in Ids : OldRow(rows[i], clock)

EventsHaveRows ==
    \A e \in events : DOMAIN e = EventFields /\ e.product \in Ids

ChangesHaveRows ==
    /\ \A c \in changes :
          DOMAIN c = ChangeFields /\ c.product \in Ids
          /\ c.ts \in Nat /\ c.ts < clock
    /\ changes # {} => \E i \in Ids : rows[i].last_seen >= FirstPollAt

Inv ==
    /\ clock \in Nat /\ clock >= FirstPollAt
    /\ RowsAreOld
    /\ EventsHaveRows
    /\ ChangesHaveRows

-----------------------------------------------------------------------------
(* The parts of a poll, with the names they have in Poll.                  *)

Known(listed) == {i \in Loaded : \E p \in listed : i \in Found(p)}

PageOf(listed, i) == CHOOSE p \in listed : i \in Found(p)

NewPages(listed) == SetToSeq({p \in listed : Found(p) = {}})

LastId == Max(Ids \cup {0})

Fresh(listed) == LastId + 1 .. LastId + Len(NewPages(listed))

Gone(listed) == Delisted(listed) \ Known(listed)

Moved(listed) == {i \in Known(listed) : DeliveryMoved(rows[i], PageOf(listed, i))}

Repriced(listed) ==
    {i \in Known(listed) : Quote(PageOf(listed, i)) \notin {None, rows[i].price}}

Inserted(listed, i) ==
    Copied(Blank(i, NewPages(listed)[i - LastId]), NewPages(listed)[i - LastId])

RowAfter(listed, told, held, i) ==
    IF i \in Fresh(listed) THEN Inserted(listed, i)
    ELSE IF i \in Known(listed) THEN Seen(rows[i], PageOf(listed, i), i \in told, i \in held)
    ELSE IF i \in Gone(listed) THEN Unlisted(rows[i])
    ELSE rows[i]

EventsAfter(listed, told) ==
    events
      \cup (UNION {NewEvents(i, KindsOf(rows[i], PageOf(listed, i), i \in told)) :
                      i \in Known(listed)})
      \cup (UNION {NewEvents(i, {"oos"}) : i \in Gone(listed)})
      \cup (IF Ids = {} THEN {}
            ELSE UNION {NewEvents(i, {"new_product"}) : i \in Fresh(listed)})

ShownAfter(listed, i) ==
    IF i \in Fresh(listed) THEN NewPages(listed)[i - LastId]
    ELSE IF i \in Known(listed) THEN PageOf(listed, i)
    ELSE shows[i]

PricedAfter(listed, held, i) ==
    IF i \in Fresh(listed) THEN NewPages(listed)[i - LastId]
    ELSE IF i \in Known(listed) \ held THEN PageOf(listed, i)
    ELSE priced[i]

\* Poll, in these names.
LEMMA PollShape ==
    ASSUME NEW listed, Poll(listed)
    PROVE  /\ clock' = clock + 1
           /\ \E told \in SUBSET Moved(listed), held \in SUBSET Repriced(listed) :
                 /\ rows' = [i \in Ids \cup Fresh(listed) |->
                                RowAfter(listed, told, held, i)]
                 /\ events' = EventsAfter(listed, told)
                 /\ priced' = [i \in Ids \cup Fresh(listed) |->
                                  PricedAfter(listed, held, i)]
           /\ shows' = [i \in Ids \cup Fresh(listed) |-> ShownAfter(listed, i)]
           /\ changes' = changes \cup
                 UNION {Moves(i, PageOf(listed, i)) : i \in Known(listed)}
  <1>1. clock' = clock + 1
    BY DEF Poll
  <1>2. \E told \in SUBSET Moved(listed), held \in SUBSET Repriced(listed) :
           /\ rows' = [i \in Ids \cup Fresh(listed) |-> RowAfter(listed, told, held, i)]
           /\ events' = EventsAfter(listed, told)
           /\ priced' = [i \in Ids \cup Fresh(listed) |-> PricedAfter(listed, held, i)]
    BY Zenon DEF Poll, Known, PageOf, NewPages, LastId, Fresh, Gone, Moved,
                 Repriced, Inserted, RowAfter, EventsAfter, PricedAfter
  <1>3. shows' = [i \in Ids \cup Fresh(listed) |-> ShownAfter(listed, i)]
    BY Zenon DEF Poll, Known, PageOf, NewPages, LastId, Fresh, ShownAfter
  <1>4. changes' = changes \cup
           UNION {Moves(i, PageOf(listed, i)) : i \in Known(listed)}
    BY Zenon DEF Poll, Known, PageOf
  <1>5. QED
    BY <1>1, <1>2, <1>3, <1>4

-----------------------------------------------------------------------------
(* Polls.                                                                  *)

\* Ids of inserted rows are new, and as many as the pages they are for.
LEMMA FreshFacts ==
    ASSUME Inv, NEW listed \in Listings
    PROVE  /\ LastId \in Nat
           /\ \A i \in Ids : i \in Nat /\ i \notin Fresh(listed)
           /\ Len(NewPages(listed)) \in Nat
           /\ \A i \in Fresh(listed) : i \in Nat \ {0}
                 /\ NewPages(listed)[i - LastId] \in listed
  <1>1. PICK n \in Nat : Ids \subseteq 1 .. n
    BY DEF Inv, RowsAreOld
  <1>2. Ids \cup {0} \in SUBSET (0 .. n) /\ Ids \cup {0} # {}
    <2>1. 1 .. n \subseteq 0 .. n /\ 0 \in 0 .. n
      OBVIOUS
    <2>2. QED
      BY <1>1, <2>1
  <1>3. \E x \in Ids \cup {0} : \A y \in Ids \cup {0} : x >= y
    BY <1>2, GreatestOf
  <1>4. LastId \in Ids \cup {0} /\ \A y \in Ids \cup {0} : LastId >= y
    BY <1>3 DEF LastId, Max
  <1>5. LastId \in Nat
    BY <1>1, <1>4
  <1>6. IsFiniteSet({p \in listed : Found(p) = {}})
    <2>1. listed \subseteq Pages
      BY DEF Listings, kSubset
    <2>2. {p \in listed : Found(p) = {}} \subseteq Pages
      BY <2>1
    <2>3. QED
      BY <2>2, PagesAssumption, FS_Subset
  <1>7. /\ Len(NewPages(listed)) \in Nat
        /\ \A m \in 1 .. Len(NewPages(listed)) : NewPages(listed)[m] \in listed
    BY <1>6, ListedSet DEF NewPages
  <1>8. ASSUME NEW i \in Ids
        PROVE  i \in Nat /\ i \notin Fresh(listed)
    <2>1. i \in Nat /\ LastId >= i
      BY <1>1, <1>4
    <2>2. QED
      BY <1>5, <1>7, <2>1 DEF Fresh
  <1>9. ASSUME NEW i \in Fresh(listed)
        PROVE  i \in Nat \ {0} /\ NewPages(listed)[i - LastId] \in listed
    <2>1. i \in Nat \ {0} /\ i - LastId \in 1 .. Len(NewPages(listed))
      BY <1>5, <1>7 DEF Fresh
    <2>2. QED
      BY <1>7, <2>1
  <1>10. QED
    BY <1>5, <1>7, <1>8, <1>9

\* A row the page lists is one of the rows, and gets a page it lists.
LEMMA KnownFacts ==
    ASSUME NEW listed \in Listings, NEW i \in Known(listed)
    PROVE  i \in Ids /\ PageOf(listed, i) \in listed /\ PageOf(listed, i) \in Pages
  <1>1. listed \subseteq Pages
    BY DEF Listings, kSubset
  <1>2. i \in Ids /\ \E p \in listed : i \in Found(p)
    BY DEF Known, Loaded
  <1>3. PageOf(listed, i) \in listed
    BY <1>2 DEF PageOf
  <1>4. QED
    BY <1>1, <1>2, <1>3

\* What a poll leaves in a row, field by field: in the row of a new product,
\* in one the page lists, and in one it no longer lists.
LEMMA CopiedShape ==
    ASSUME NEW r, DOMAIN r = RowFields, NEW page, NEW new, new = Copied(r, page)
    PROVE  /\ DOMAIN new = RowFields /\ new.code = r.code
           /\ new.first_seen = r.first_seen /\ new.last_seen = r.last_seen
           /\ new.variant = page.variant /\ new.archived = r.archived
  BY DEF Copied, RowFields

\* The row of a new product.
LEMMA InsertedShape ==
    ASSUME NEW id, NEW page, NEW new, new = Copied(Blank(id, page), page)
    PROVE  /\ DOMAIN new = RowFields /\ new.code = page.code
           /\ new.first_seen = clock /\ new.last_seen = clock
           /\ new.variant = page.variant /\ new.archived = FALSE
  <1> DEFINE blank == Blank(id, page)
  <1>1. /\ DOMAIN blank = RowFields /\ blank.code = page.code
        /\ blank.first_seen = clock /\ blank.last_seen = clock
        /\ blank.archived = FALSE
    BY DEF Blank, RowFields
  <1> HIDE DEF blank
  <1>2. new = Copied(blank, page)
    BY DEF blank
  <1>3. QED
    BY <1>1, <1>2, CopiedShape

\* The row of a product the page lists.
LEMMA SeenShape ==
    ASSUME NEW r, DOMAIN r = RowFields, NEW page, NEW told, NEW held,
           NEW new, new = Seen(r, page, told, held)
    PROVE  /\ DOMAIN new = RowFields /\ new.code = r.code
           /\ new.first_seen = r.first_seen /\ new.last_seen = clock
           /\ new.variant = page.variant /\ new.archived = r.archived
           /\ new.stock = page.stock
           /\ new.delivery = DeliveryAfter(r, page, told)
  <1> DEFINE copied == Copied(r, page)
  <1>1. /\ DOMAIN copied = RowFields /\ copied.code = r.code
        /\ copied.first_seen = r.first_seen /\ copied.last_seen = r.last_seen
        /\ copied.variant = page.variant /\ copied.archived = r.archived
    BY CopiedShape
  <1>2. new = [copied EXCEPT !.price = PriceAfter(r, page, held),
                             !.stock = page.stock, !.since = SinceAfter(r, page),
                             !.delivery = DeliveryAfter(r, page, told),
                             !.last_seen = clock]
    BY DEF Seen
  <1> HIDE DEF copied
  <1>3. QED
    BY <1>1, <1>2 DEF RowFields

\* The row of a product the page no longer lists.
LEMMA UnlistedShape ==
    ASSUME NEW r, DOMAIN r = RowFields, NEW new, new = Unlisted(r)
    PROVE  /\ DOMAIN new = RowFields /\ new.code = r.code
           /\ new.first_seen = r.first_seen /\ new.last_seen = r.last_seen
           /\ new.variant = r.variant /\ new.archived = r.archived
  BY DEF Unlisted, RowFields

\* A row stays old as time passes.
LEMMA OldRowsAge ==
    ASSUME NEW now \in Nat, NEW later \in Nat, now <= later,
           NEW r, OldRow(r, now)
    PROVE  OldRow(r, later)
  BY DEF OldRow

\* Every row a poll leaves is one that was last seen before the next.
LEMMA PollKeepsRows ==
    ASSUME Inv, NEW listed \in Listings, Poll(listed)
    PROVE  /\ Ids' = Ids \cup Fresh(listed)
           /\ \A i \in Ids' : OldRow(rows'[i], clock')
           /\ \A i \in Ids : OldRow(rows[i], clock) /\ rows'[i].last_seen >= rows[i].last_seen
           /\ \A i \in Known(listed) : rows'[i].last_seen = clock
  <1>1. /\ clock \in Nat /\ clock' = clock + 1 /\ clock' \in Nat
        /\ clock <= clock' /\ clock >= FirstPollAt
    <2>1. clock' = clock + 1
      BY PollShape
    <2>2. clock \in Nat /\ clock >= FirstPollAt
      BY DEF Inv
    <2>3. QED
      BY <2>1, <2>2
  <1>2. PICK told \in SUBSET Moved(listed), held \in SUBSET Repriced(listed) :
           rows' = [i \in Ids \cup Fresh(listed) |-> RowAfter(listed, told, held, i)]
    BY PollShape
  <1>3. Ids' = Ids \cup Fresh(listed)
    BY <1>2, Zenon DEF Ids
  <1>4. \A i \in Ids' : rows'[i] = RowAfter(listed, told, held, i)
    BY <1>2, <1>3, Zenon
  <1>5. listed \subseteq Pages
    BY DEF Listings, kSubset
  <1>6. \A i \in Ids : OldRow(rows[i], clock)
    BY DEF Inv, RowsAreOld
  <1>7. ASSUME NEW i \in Fresh(listed)
        PROVE  OldRow(rows'[i], clock')
    <2>1. PICK page : page = NewPages(listed)[i - LastId]
      OBVIOUS
    <2>2. rows'[i] = Copied(Blank(i, page), page)
      BY <1>3, <1>4, <1>7, <2>1, Zenon DEF RowAfter, Inserted
    <2>3. page \in Pages /\ page.code \in DOMAIN Fold
      BY <1>5, <1>7, <2>1, FreshFacts, PagesAssumption
    <2>4. /\ DOMAIN rows'[i] = RowFields /\ rows'[i].code = page.code
          /\ rows'[i].first_seen = clock /\ rows'[i].last_seen = clock
          /\ rows'[i].variant = page.variant /\ rows'[i].archived = FALSE
      <3>1. \A new : new = Copied(Blank(i, page), page) =>
               /\ DOMAIN new = RowFields /\ new.code = page.code
               /\ new.first_seen = clock /\ new.last_seen = clock
               /\ new.variant = page.variant /\ new.archived = FALSE
        BY InsertedShape
      <3>2. QED
        BY <2>2, <3>1
    <2>5. rows'[i].variant \in {p.variant : p \in Pages}
      BY <2>3, <2>4
    <2>6. QED
      BY <1>1, <2>3, <2>4, <2>5 DEF OldRow
  <1>8. ASSUME NEW i \in Known(listed)
        PROVE  /\ OldRow(rows'[i], clock') /\ rows'[i].last_seen = clock
               /\ rows'[i].last_seen >= rows[i].last_seen
    <2> DEFINE page == PageOf(listed, i)
    <2>1. i \in Ids /\ page \in Pages /\ i \notin Fresh(listed)
      BY KnownFacts, FreshFacts
    <2>2. rows'[i] = Seen(rows[i], page, i \in told, i \in held)
      BY <1>3, <1>4, <1>8, <2>1, Zenon DEF RowAfter
    <2>3. OldRow(rows[i], clock) /\ DOMAIN rows[i] = RowFields
      BY <1>6, <2>1 DEF OldRow
    <2>4. /\ DOMAIN rows'[i] = RowFields /\ rows'[i].code = rows[i].code
          /\ rows'[i].first_seen = rows[i].first_seen
          /\ rows'[i].last_seen = clock /\ rows'[i].variant = page.variant
          /\ rows'[i].archived = rows[i].archived
      BY <2>2, <2>3, SeenShape
    <2>5. rows'[i].variant \in {p.variant : p \in Pages}
      BY <2>1, <2>4
    <2>6. QED
      BY <1>1, <2>3, <2>4, <2>5 DEF OldRow
  <1>9. ASSUME NEW i \in Ids, i \notin Known(listed)
        PROVE  OldRow(rows'[i], clock') /\ rows'[i].last_seen >= rows[i].last_seen
    <2>1. i \notin Fresh(listed) /\ i \in Ids'
      BY <1>3, <1>9, FreshFacts
    <2>2. rows'[i] = Unlisted(rows[i]) \/ rows'[i] = rows[i]
      BY <1>4, <1>9, <2>1, Zenon DEF RowAfter
    <2>3. OldRow(rows[i], clock) /\ DOMAIN rows[i] = RowFields
      BY <1>6, <1>9 DEF OldRow
    <2>4. /\ DOMAIN rows'[i] = RowFields /\ rows'[i].code = rows[i].code
          /\ rows'[i].first_seen = rows[i].first_seen
          /\ rows'[i].last_seen = rows[i].last_seen
          /\ rows'[i].variant = rows[i].variant
          /\ rows'[i].archived = rows[i].archived
      BY <2>2, <2>3, UnlistedShape
    <2>5. QED
      BY <1>1, <2>3, <2>4 DEF OldRow
  <1>10. \A i \in Known(listed) : i \in Ids
    BY KnownFacts
  <1>11. QED
    BY <1>3, <1>6, <1>7, <1>8, <1>9, <1>10

\* What a poll records is of its time.
LEMMA PollRecords ==
    ASSUME NEW listed \in Listings, Poll(listed), NEW c \in changes', c \notin changes
    PROVE  c.ts = clock
  <1>1. changes' = changes \cup
           UNION {Moves(i, PageOf(listed, i)) : i \in Known(listed)}
    BY PollShape, Zenon
  <1>2. c \in UNION {Moves(i, PageOf(listed, i)) : i \in Known(listed)}
    BY <1>1, Zenon
  <1>3. PICK i \in Known(listed) : c \in Moves(i, PageOf(listed, i))
    BY <1>2, Zenon
  <1>4. QED
    BY <1>3 DEF Moves

\* What is recorded of a poll is of its time, and of a row.
LEMMA PollKeepsInv ==
    ASSUME Inv, NEW listed \in Listings, Poll(listed)
    PROVE  Inv'
  <1>1. clock' = clock + 1 /\ clock \in Nat /\ clock >= FirstPollAt
    <2>1. clock' = clock + 1
      BY PollShape
    <2>2. QED
      BY <2>1 DEF Inv
  <1>2. clock' \in Nat /\ clock' >= FirstPollAt
    BY <1>1 DEF FirstPollAt
  <1>3. PICK told : events' = EventsAfter(listed, told)
    BY PollShape
  <1>4. changes' = changes \cup
           UNION {Moves(i, PageOf(listed, i)) : i \in Known(listed)}
    BY PollShape
  <1>5. Ids' = Ids \cup Fresh(listed)
    BY PollKeepsRows
  <1>6. \A i \in Known(listed) : i \in Ids
    BY KnownFacts
  <1>7. RowsAreOld'
    <2>1. PICK n \in Nat : Ids \subseteq 1 .. n
      BY DEF Inv, RowsAreOld
    <2>2. PICK len \in Nat : Fresh(listed) = LastId + 1 .. LastId + len
      BY FreshFacts DEF Fresh
    <2>3. LastId \in Nat
      BY FreshFacts
    <2>4. /\ n + LastId + len \in Nat
          /\ 1 .. n \subseteq 1 .. n + LastId + len
          /\ LastId + 1 .. LastId + len \subseteq 1 .. n + LastId + len
      BY <2>1, <2>2, <2>3
    <2>5. \E m \in Nat : Ids' \subseteq 1 .. m
      BY <1>5, <2>1, <2>2, <2>4
    <2>6. QED
      BY <2>5, PollKeepsRows DEF RowsAreOld
  <1>8. EventsHaveRows'
    <2>1. \A i, kinds : \A e \in NewEvents(i, kinds) :
             DOMAIN e = EventFields /\ e.product = i
      BY DEF NewEvents, EventFields
    <2>2. \A i \in Gone(listed) : i \in Ids
      BY DEF Gone, Delisted, Loaded
    <2>3. ASSUME NEW e \in events'
          PROVE  DOMAIN e = EventFields /\ e.product \in Ids'
      <3>1. CASE e \in events
        BY <1>5, <3>1 DEF Inv, EventsHaveRows
      <3>2. CASE e \notin events
        <4>1. \/ \E i \in Known(listed) :
                    e \in NewEvents(i, KindsOf(rows[i], PageOf(listed, i), i \in told))
              \/ \E i \in Gone(listed) : e \in NewEvents(i, {"oos"})
              \/ \E i \in Fresh(listed) : e \in NewEvents(i, {"new_product"})
          BY <1>3, <3>2 DEF EventsAfter
        <4>2. QED
          BY <1>5, <1>6, <2>1, <2>2, <4>1
      <3>3. QED
        BY <3>1, <3>2
    <2>4. QED
      BY <2>3 DEF EventsHaveRows
  <1>9. ChangesHaveRows'
    <2>1. \A i, page : \A c \in Moves(i, page) :
             DOMAIN c = ChangeFields /\ c.product = i /\ c.ts = clock
      BY DEF Moves, ChangeFields
    <2>2. ASSUME NEW c \in changes'
          PROVE  /\ DOMAIN c = ChangeFields /\ c.product \in Ids'
                 /\ c.ts \in Nat /\ c.ts < clock'
      <3>1. CASE c \in changes
        BY <1>1, <1>5, <3>1 DEF Inv, ChangesHaveRows
      <3>2. CASE c \notin changes
        <4>1. PICK i \in Known(listed) : c \in Moves(i, PageOf(listed, i))
          BY <1>4, <3>2
        <4>2. DOMAIN c = ChangeFields /\ c.product = i /\ c.ts = clock
          BY <2>1, <4>1
        <4>3. QED
          BY <1>1, <1>5, <1>6, <4>2
      <3>3. QED
        BY <3>1, <3>2
    <2>3. ASSUME changes' # {}
          PROVE  \E i \in Ids' : rows'[i].last_seen >= FirstPollAt
      <3>1. CASE \E i \in Known(listed) : TRUE
        BY <1>1, <1>5, <1>6, <3>1, PollKeepsRows
      <3>2. CASE Known(listed) = {}
        <4>1. changes # {}
          BY <1>4, <2>3, <3>2
        <4>2. PICK i \in Ids : rows[i].last_seen >= FirstPollAt
          BY <4>1 DEF Inv, ChangesHaveRows
        <4>3. OldRow(rows[i], clock) /\ OldRow(rows'[i], clock')
              /\ rows'[i].last_seen >= rows[i].last_seen /\ i \in Ids'
          BY <1>5, <4>2, PollKeepsRows
        <4>4. QED
          BY <4>2, <4>3 DEF OldRow, FirstPollAt
      <3>3. QED
        BY <3>1, <3>2
    <2>4. QED
      BY <2>2, <2>3 DEF ChangesHaveRows
  <1>10. QED
    BY <1>2, <1>7, <1>8, <1>9 DEF Inv

-----------------------------------------------------------------------------
(* The merge.                                                              *)

\* The rows of one product have a survivor and a newest row among them, and
\* agree on which these are.
LEMMA GroupFacts ==
    ASSUME Inv, NEW i \in Ids
    PROVE  /\ i \in Group(i) /\ Group(i) \subseteq Ids
           /\ Survivor(i) \in Group(i)
           /\ Newest(i) \in Group(i)
           /\ \A j \in Group(i) : rows[Newest(i)].last_seen >= rows[j].last_seen
           /\ \A j \in Group(i) : Group(j) = Group(i)
  <1>1. i \in Group(i) /\ Group(i) \subseteq Ids
    BY DEF Group, Same
  <1>2. \A j \in Group(i) : Group(j) = Group(i)
    BY DEF Group, Same
  <1>3. \A j \in Group(i) :
           /\ rows[j].first_seen \in Nat /\ rows[j].last_seen \in Nat
           /\ rows[j].last_seen \in 0 .. clock
    <2>1. \A j \in Group(i) : OldRow(rows[j], clock)
      BY <1>1 DEF Inv, RowsAreOld
    <2>2. QED
      BY <2>1 DEF OldRow, Inv
  <1>4. Survivor(i) \in Group(i)
    <2> DEFINE T == {rows[j].first_seen : j \in Group(i)}
    <2>1. T \in SUBSET Nat /\ T # {}
      BY <1>1, <1>3
    <2>2. PICK x \in T : \A y \in T : x <= y
      BY <2>1, LeastOf
    <2>3. PICK j \in Group(i) : x = rows[j].first_seen
      OBVIOUS
    <2>4. \A k \in Group(i) : rows[j].first_seen <= rows[k].first_seen
      BY <2>2, <2>3
    <2>5. QED
      BY <2>4 DEF Survivor
  <1>5. /\ Newest(i) \in Group(i)
        /\ \A j \in Group(i) : rows[Newest(i)].last_seen >= rows[j].last_seen
    <2> DEFINE T == {rows[j].last_seen : j \in Group(i)}
    <2>1. T \in SUBSET (0 .. clock) /\ T # {}
      BY <1>1, <1>3
    <2>2. PICK x \in T : \A y \in T : x >= y
      BY <2>1, GreatestOf DEF Inv
    <2>3. PICK j \in Group(i) : x = rows[j].last_seen
      OBVIOUS
    <2>4. \A k \in Group(i) : rows[j].last_seen >= rows[k].last_seen
      BY <2>2, <2>3
    <2>5. QED
      BY <2>4 DEF Newest
  <1>6. QED
    BY <1>1, <1>2, <1>4, <1>5

\* A survivor is its own, and no other row of its product survives.
LEMMA SurvivorFacts ==
    ASSUME Inv
    PROVE  /\ Survivors \subseteq Ids
           /\ \A i \in Ids : Survivor(i) \in Survivors
           /\ \A i \in Survivors : Survivor(i) = i
  <1>1. ASSUME NEW i \in Ids
        PROVE  Survivor(i) \in Ids /\ Survivor(Survivor(i)) = Survivor(i)
    <2>1. Survivor(i) \in Ids /\ Group(Survivor(i)) = Group(i)
      BY GroupFacts
    <2>2. QED
      BY <2>1, Zenon DEF Survivor
  <1>2. QED
    BY <1>1 DEF Survivors

\* What a survivor takes from the newest row of its product.
LEMMA ForwardedShape ==
    ASSUME NEW i, DOMAIN rows[i] = RowFields, NEW new, new = FastForwarded(i)
    PROVE  /\ DOMAIN new = RowFields
           /\ new.code = rows[Newest(i)].code
           /\ new.variant = rows[Newest(i)].variant
           /\ new.last_seen = rows[Newest(i)].last_seen
           /\ new.first_seen = rows[i].first_seen
           /\ new.archived = rows[i].archived
  BY DEF FastForwarded, RowFields

\* Whatever a merge rewrites keeps its time and kind, and has a survivor.
LEMMA ReassignedShape ==
    ASSUME Inv, MergeDuplicates
    PROVE  /\ \A r \in events' : \E e \in events :
                 /\ DOMAIN r = EventFields /\ r.ts = e.ts /\ r.kind = e.kind
                 /\ r.product = Survivor(e.product)
           /\ \A r \in changes' : \E c \in changes :
                 /\ DOMAIN r = ChangeFields /\ r.ts = c.ts /\ r.field = c.field
                 /\ r.old = c.old /\ r.new = c.new
                 /\ r.product = Survivor(c.product)
           /\ \A e \in events : e.kind # "new_product" =>
                 \E r \in events' : r.ts = e.ts /\ r.kind = e.kind
           /\ \A c \in changes : \E r \in changes' :
                 r.ts = c.ts /\ r.field = c.field
  <1>1. \A e \in events : LET r == [e EXCEPT !.product = Survivor(@)]
                          IN  /\ DOMAIN r = EventFields /\ r.ts = e.ts
                              /\ r.kind = e.kind /\ r.product = Survivor(e.product)
    BY DEF Inv, EventsHaveRows, EventFields
  <1>2. \A c \in changes : LET r == [c EXCEPT !.product = Survivor(@)]
                           IN  /\ DOMAIN r = ChangeFields /\ r.ts = c.ts
                               /\ r.field = c.field /\ r.product = Survivor(c.product)
                               /\ r.old = c.old /\ r.new = c.new
    BY DEF Inv, ChangesHaveRows, ChangeFields
  <1>3. events' = {[e EXCEPT !.product = Survivor(@)] : e \in {f \in events : ~False(f)}}
    BY DEF MergeDuplicates, Reassigned
  <1>4. changes' = {[c EXCEPT !.product = Survivor(@)] : c \in changes}
    BY DEF MergeDuplicates
  <1>5. \A e \in events : e.kind # "new_product" => ~False(e)
    BY DEF False
  <1>6. ASSUME NEW r \in events'
        PROVE  \E e \in events :
                  /\ DOMAIN r = EventFields /\ r.ts = e.ts /\ r.kind = e.kind
                  /\ r.product = Survivor(e.product)
    <2>1. PICK e \in events : r = [e EXCEPT !.product = Survivor(@)]
      BY <1>3, <1>6
    <2>2. /\ DOMAIN r = EventFields /\ r.ts = e.ts /\ r.kind = e.kind
          /\ r.product = Survivor(e.product)
      BY <1>1, <2>1
    <2>3. QED
      BY <2>2
  <1>7. ASSUME NEW r \in changes'
        PROVE  \E c \in changes :
                  /\ DOMAIN r = ChangeFields /\ r.ts = c.ts /\ r.field = c.field
                  /\ r.old = c.old /\ r.new = c.new
                  /\ r.product = Survivor(c.product)
    <2>1. PICK c \in changes : r = [c EXCEPT !.product = Survivor(@)]
      BY <1>4, <1>7
    <2>2. /\ DOMAIN r = ChangeFields /\ r.ts = c.ts /\ r.field = c.field
          /\ r.old = c.old /\ r.new = c.new
          /\ r.product = Survivor(c.product)
      BY <1>2, <2>1
    <2>3. QED
      BY <2>2
  <1>8. \A e \in events : e.kind # "new_product" =>
           \E r \in events' : r.ts = e.ts /\ r.kind = e.kind
    BY <1>1, <1>3, <1>5
  <1>9. \A c \in changes : \E r \in changes' : r.ts = c.ts /\ r.field = c.field
    BY <1>2, <1>4
  <1>10. QED
    BY <1>6, <1>7, <1>8, <1>9

\* The rows after a merge are the survivors, each with a code of its product.
LEMMA MergedRows ==
    ASSUME Inv, MergeDuplicates
    PROVE  /\ Ids' = Survivors
           /\ \A i \in Survivors :
                 /\ OldRow(rows'[i], clock) /\ Fold[rows'[i].code] = Fold[rows[i].code]
                 /\ \A j \in Group(i) : rows'[i].last_seen >= rows[j].last_seen
  <1>1. rows' = [i \in Survivors |-> FastForwarded(i)]
    BY DEF MergeDuplicates
  <1>2. Ids' = Survivors
    BY <1>1, Zenon DEF Ids
  <1>3. ASSUME NEW i \in Survivors
        PROVE  /\ OldRow(rows'[i], clock) /\ Fold[rows'[i].code] = Fold[rows[i].code]
               /\ \A j \in Group(i) : rows'[i].last_seen >= rows[j].last_seen
    <2>1. i \in Ids
      BY <1>3, SurvivorFacts
    <2>2. PICK n : n = Newest(i)
      OBVIOUS
    <2>3. /\ n \in Group(i) /\ n \in Ids
          /\ \A j \in Group(i) : rows[n].last_seen >= rows[j].last_seen
      BY <2>1, <2>2, GroupFacts
    <2>4. OldRow(rows[i], clock) /\ OldRow(rows[n], clock)
      BY <2>1, <2>3 DEF Inv, RowsAreOld
    <2>5. rows'[i] = FastForwarded(i)
      BY <1>1, <1>3
    <2>6. DOMAIN rows[i] = RowFields
      BY <2>4 DEF OldRow
    <2>7. /\ DOMAIN rows'[i] = RowFields
          /\ rows'[i].code = rows[n].code /\ rows'[i].variant = rows[n].variant
          /\ rows'[i].last_seen = rows[n].last_seen
          /\ rows'[i].first_seen = rows[i].first_seen
          /\ rows'[i].archived = rows[i].archived
      BY <2>2, <2>5, <2>6, ForwardedShape
    <2>8. OldRow(rows'[i], clock)
      BY <2>4, <2>7 DEF OldRow
    <2>9. Fold[rows[n].code] = Fold[rows[i].code]
      BY <2>3 DEF Group, Same
    <2>10. QED
      BY <2>3, <2>7, <2>8, <2>9
  <1>4. QED
    BY <1>2, <1>3

\* No two of them are rows of one product.
LEMMA MergedCodes ==
    ASSUME Inv, MergeDuplicates, NEW i \in Survivors, NEW j \in Survivors,
           Fold[rows'[i].code] = Fold[rows'[j].code]
    PROVE  i = j
  <1>1. Fold[rows[i].code] = Fold[rows[j].code]
    BY MergedRows
  <1>2. Group(i) = Group(j)
    BY <1>1 DEF Group, Same
  <1>3. Survivor(i) = Survivor(j)
    BY <1>2, Zenon DEF Survivor
  <1> QED
    BY <1>3, SurvivorFacts

\* A merge keeps rows, events and changes in their ranges.
LEMMA MergeKeepsInv ==
    ASSUME Inv, MergeDuplicates
    PROVE  Inv'
  <1>1. clock' = clock
    BY DEF MergeDuplicates
  <1>2. Ids' = Survivors /\ Survivors \subseteq Ids
    BY MergedRows, SurvivorFacts
  <1>3. RowsAreOld'
    BY <1>1, <1>2, MergedRows DEF Inv, RowsAreOld
  <1>4. EventsHaveRows'
    BY <1>2, ReassignedShape, SurvivorFacts DEF Inv, EventsHaveRows
  <1>5. ChangesHaveRows'
    <2>1. \A r \in changes' : /\ DOMAIN r = ChangeFields /\ r.product \in Ids'
                             /\ r.ts \in Nat /\ r.ts < clock'
      BY <1>1, <1>2, ReassignedShape, SurvivorFacts DEF Inv, ChangesHaveRows
    <2>2. ASSUME changes' # {}
          PROVE  \E i \in Ids' : rows'[i].last_seen >= FirstPollAt
      <3>1. PICK i \in Ids : rows[i].last_seen >= FirstPollAt
        BY <2>2, ReassignedShape DEF Inv, ChangesHaveRows
      <3>2. PICK s : s = Survivor(i)
        OBVIOUS
      <3>3. s \in Ids' /\ i \in Group(s) /\ i \in Ids /\ s \in Ids
        BY <1>2, <3>2, GroupFacts, SurvivorFacts
      <3>4. rows'[s].last_seen >= rows[i].last_seen
        BY <1>2, <3>3, MergedRows
      <3>5. OldRow(rows[i], clock) /\ OldRow(rows'[s], clock)
        BY <1>2, <3>3, MergedRows DEF Inv, RowsAreOld
      <3>6. QED
        BY <3>1, <3>3, <3>4, <3>5 DEF OldRow, FirstPollAt
    <2>3. QED
      BY <2>1, <2>2 DEF ChangesHaveRows
  <1>6. QED
    BY <1>1, <1>3, <1>4, <1>5 DEF Inv

\* Pruning old changes leaves rows and events alone.
LEMMA PruneKeepsInv ==
    ASSUME Inv, PruneOldChanges
    PROVE  Inv'
  <1>1. UNCHANGED <<clock, rows, events>> /\ changes' \subseteq changes
    BY DEF PruneOldChanges
  <1>2. Ids' = Ids
    BY <1>1 DEF Ids
  <1>3. RowsAreOld'
    BY <1>1, <1>2 DEF Inv, RowsAreOld
  <1>4. EventsHaveRows' /\ ChangesHaveRows'
    BY <1>1, <1>2 DEF Inv, EventsHaveRows, ChangesHaveRows
  <1>5. QED
    BY <1>1, <1>3, <1>4 DEF Inv

\* A new watch, or the two legacy rows of one product.
LEMMA InitInv == OfferInit => Inv
  <1> SUFFICES ASSUME OfferInit
               PROVE  Inv
    OBVIOUS
  <1>1. clock = 3 /\ changes = {}
    BY DEF OfferInit
  <1>2. ChangesHaveRows
    BY <1>1 DEF ChangesHaveRows
  <1>3. CASE rows = <<>> /\ events = {}
    <2>1. Ids = {}
      BY <1>3 DEF Ids
    <2>2. RowsAreOld /\ EventsHaveRows
      BY <1>3, <2>1 DEF RowsAreOld, EventsHaveRows
    <2>3. QED
      BY <1>1, <1>2, <2>2 DEF Inv, FirstPollAt
  <1>4. CASE ~(rows = <<>> /\ events = {})
    <2>1. PICK p \in Pages, q \in Pages, last \in 1 .. 2 :
             /\ rows = <<Legacy(1, p, IF last = 1 THEN 2 ELSE 0), Legacy(2, q, last)>>
             /\ events = {[product |-> 1, ts |-> 0, kind |-> "public"],
                          [product |-> 2, ts |-> 1, kind |-> "new_product"]}
      BY <1>4 DEF OfferInit
    <2>2. ASSUME NEW id \in 1 .. 2, NEW page \in Pages, NEW seen \in 0 .. 2
          PROVE  OldRow(Legacy(id, page, seen), 3)
      <3> DEFINE blank == Blank(id, page)
      <3>1. /\ DOMAIN blank = RowFields /\ blank.code = page.code
            /\ blank.archived = FALSE
        BY DEF Blank, RowFields
      <3> HIDE DEF blank
      <3>2. PICK r : r = Legacy(id, page, seen)
        OBVIOUS
      <3>3. /\ DOMAIN r = RowFields /\ r.code = page.code /\ r.archived = FALSE
            /\ r.first_seen = id - 1 /\ r.last_seen = seen
        BY <3>1, <3>2 DEF Legacy, RowFields, blank
      <3>4. OldRow(r, 3)
        BY <2>2, <3>3, PagesAssumption DEF OldRow, FirstPollAt
      <3>5. QED
        BY <3>2, <3>4
    <2>3. Ids = 1 .. 2
      BY <2>1 DEF Ids
    <2>4. (IF last = 1 THEN 2 ELSE 0) \in 0 .. 2 /\ last \in 0 .. 2
      OBVIOUS
    <2>5. OldRow(rows[1], 3) /\ OldRow(rows[2], 3)
      BY <2>1, <2>2, <2>4
    <2>6. RowsAreOld
      BY <1>1, <2>3, <2>5 DEF RowsAreOld
    <2>7. EventsHaveRows
      BY <2>1, <2>3 DEF EventsHaveRows, EventFields
    <2>8. QED
      BY <1>1, <1>2, <2>6, <2>7 DEF Inv, FirstPollAt
  <1>5. QED
    BY <1>3, <1>4

\* The tables, in a step that changes none of them.
LEMMA StutterKeepsInv ==
    ASSUME Inv, UNCHANGED offerVars
    PROVE  Inv'
  BY DEF offerVars, tables, Inv, RowsAreOld, EventsHaveRows, ChangesHaveRows, Ids

\* Every step keeps the invariant.
LEMMA StepKeepsInv == Inv /\ [OfferNext]_offerVars => Inv'
  BY PollKeepsInv, MergeKeepsInv, PruneKeepsInv, StutterKeepsInv DEF OfferNext

-----------------------------------------------------------------------------
(* The number of recorded changes.                                         *)

\* Changes are recorded only of the row of a product that a check finds, and
\* only of its price and its discounts.
ChangesAreOwned ==
    /\ IsFiniteSet(changes)
    /\ \A c \in changes :
          /\ c = [product |-> c.product, ts |-> c.ts, field |-> c.field,
                  old |-> c.old, new |-> c.new]
          /\ c.product \in Loaded
          /\ c.field \in {"price", "discounts"}

\* A poll leaves the codes, and inserts only what it does not find.
LEMMA PollKeepsCodes ==
    ASSUME Inv, NEW listed \in Listings, Poll(listed)
    PROVE  /\ \A i \in Ids : rows'[i].code = rows[i].code
           /\ \A i \in Fresh(listed) : \E p \in listed :
                 Found(p) = {} /\ rows'[i].code = p.code
  <1>1. PICK told \in SUBSET Moved(listed), held \in SUBSET Repriced(listed) :
           rows' = [i \in Ids \cup Fresh(listed) |-> RowAfter(listed, told, held, i)]
    BY PollShape
  <1>2. \A i \in Ids \cup Fresh(listed) : rows'[i] = RowAfter(listed, told, held, i)
    BY <1>1, Zenon
  <1>3. \A i \in Ids : DOMAIN rows[i] = RowFields
    BY DEF Inv, RowsAreOld, OldRow
  <1>4. ASSUME NEW i \in Ids
        PROVE  rows'[i].code = rows[i].code
    <2>1. i \notin Fresh(listed)
      BY FreshFacts
    <2>2. \/ rows'[i] = Seen(rows[i], PageOf(listed, i), i \in told, i \in held)
          \/ rows'[i] = Unlisted(rows[i]) \/ rows'[i] = rows[i]
      BY <1>2, <2>1, Zenon DEF RowAfter
    <2> QED
      BY <1>3, <2>2, SeenShape, UnlistedShape
  <1>5. ASSUME NEW i \in Fresh(listed)
        PROVE  \E p \in listed : Found(p) = {} /\ rows'[i].code = p.code
    <2> DEFINE new == {p \in listed : Found(p) = {}}
    <2>1. IsFiniteSet(new)
      <3>1. new \subseteq Pages
        BY DEF Listings, kSubset
      <3> QED
        BY <3>1, PagesAssumption, FS_Subset
    <2>2. /\ NewPages(listed) = SetToSeq(new) /\ LastId \in Nat
          /\ Len(NewPages(listed)) \in Nat
      BY FreshFacts DEF NewPages
    <2>3. i - LastId \in 1 .. Len(NewPages(listed))
      BY <2>2 DEF Fresh
    <2>4. PICK page : page = NewPages(listed)[i - LastId]
      OBVIOUS
    <2>5. page \in new
      BY <2>1, <2>2, <2>3, <2>4, ListedSet
    <2>6. rows'[i] = Copied(Blank(i, page), page)
      BY <1>2, <2>4, Zenon DEF RowAfter, Inserted
    <2>7. PICK blank : blank = Blank(i, page)
      OBVIOUS
    <2>8. DOMAIN blank = RowFields /\ blank.code = page.code
      BY <2>7 DEF Blank, RowFields
    <2>9. rows'[i] = Copied(blank, page)
      BY <2>6, <2>7
    <2> QED
      BY <2>5, <2>8, <2>9, CopiedShape
  <1> QED
    BY <1>4, <1>5

\* What a poll finds is found by the next.
LEMMA LoadedStays ==
    ASSUME Inv, NEW listed \in Listings, Poll(listed), NEW i \in Loaded
    PROVE  i \in Loaded'
  <1>1. Ids' = Ids \cup Fresh(listed) /\ i \in Ids
    BY PollKeepsRows DEF Loaded
  <1>2. rows'[i].code = rows[i].code
    BY <1>1, PollKeepsCodes
  <1>3. ASSUME NEW j \in Ids', Fold[rows'[i].code] = Fold[rows'[j].code]
        PROVE  j <= i
    <2>1. CASE j \in Ids
      BY <1>2, <1>3, <2>1, PollKeepsCodes DEF Loaded, Same
    <2>2. CASE j \in Fresh(listed)
      <3>1. PICK p \in listed : Found(p) = {} /\ rows'[j].code = p.code
        BY <2>2, PollKeepsCodes
      <3>2. i \in Found(p)
        BY <1>2, <1>3, <3>1 DEF Found, Same
      <3> QED
        BY <3>1, <3>2
    <2> QED
      BY <1>1, <2>1, <2>2
  <1> QED
    BY <1>1, <1>3 DEF Loaded, Same

\* A poll records changes of the rows it finds, two at most of each.
LEMMA PollKeepsOwned ==
    ASSUME Inv, ChangesAreOwned, NEW listed \in Listings, Poll(listed)
    PROVE  ChangesAreOwned'
  <1> DEFINE moves == [i \in Known(listed) |-> Moves(i, PageOf(listed, i))]
             all == {moves[i] : i \in Known(listed)}
  <1>1. changes' = changes \cup UNION all
    <2>1. changes' = changes \cup
             UNION {Moves(i, PageOf(listed, i)) : i \in Known(listed)}
      BY PollShape, Zenon
    <2>2. all = {Moves(i, PageOf(listed, i)) : i \in Known(listed)}
      OBVIOUS
    <2> QED
      BY <2>1, <2>2, Zenon
  <1>2. \A i \in Known(listed) : i \in Loaded
    BY DEF Known
  <1>3. ASSUME NEW i, NEW page
        PROVE  /\ IsFiniteSet(Moves(i, page))
               /\ \A c \in Moves(i, page) :
                     /\ c.product = i
                     /\ c = [product |-> c.product, ts |-> c.ts, field |-> c.field,
                             old |-> c.old, new |-> c.new]
                     /\ c.field \in {"price", "discounts"}
    <2>1. \A c \in Moves(i, page) :
             /\ c.product = i
             /\ c = [product |-> c.product, ts |-> c.ts, field |-> c.field,
                     old |-> c.old, new |-> c.new]
             /\ c.field \in {"price", "discounts"}
      BY DEF Moves
    <2>2. PICK x, y : Moves(i, page) \subseteq {x, y}
      <3>1. PICK last, price, discounts :
               /\ last = LastRecorded(i) /\ price = Quote(page)
               /\ discounts = discounts_to_json(Reported(page))
        OBVIOUS
      <3>2. PICK base : base = IF last = None THEN rows[i].price ELSE last
        OBVIOUS
      <3>3. \A c \in Moves(i, page) :
               \/ c = [product |-> i, ts |-> clock, field |-> "price",
                       old |-> base, new |-> price]
               \/ c = [product |-> i, ts |-> clock, field |-> "discounts",
                       old |-> rows[i].discounts, new |-> discounts]
        BY <3>1, <3>2 DEF Moves
      <3> QED
        BY <3>3
    <2>3. IsFiniteSet({x, y})
      <3>1. IsFiniteSet({} \cup {x})
        BY FS_EmptySet, FS_AddElement
      <3>2. IsFiniteSet(({} \cup {x}) \cup {y})
        BY <3>1, FS_AddElement
      <3>3. ({} \cup {x}) \cup {y} = {x, y}
        OBVIOUS
      <3> QED
        BY <3>2, <3>3
    <2> QED
      BY <2>1, <2>2, <2>3, FS_Subset
  <1>4. IsFiniteSet(Known(listed))
    <2>1. PICK n \in Nat : Ids \subseteq 1 .. n
      BY DEF Inv, RowsAreOld
    <2>2. Known(listed) \subseteq 1 .. n
      BY <2>1 DEF Known, Loaded
    <2>3. IsFiniteSet(1 .. n)
      BY FS_Interval
    <2> QED
      BY <2>2, <2>3, FS_Subset
  <1>5. IsFiniteSet(UNION all)
    <2>1. moves \in Surjection(Known(listed), all)
      BY DEF Surjection
    <2>2. IsFiniteSet(all)
      BY <1>4, <2>1, FS_Surjection
    <2>3. \A T \in all : IsFiniteSet(T)
      BY <1>3
    <2> QED
      BY <2>2, <2>3, FS_UNION
  <1>6. IsFiniteSet(changes')
    BY <1>1, <1>5, FS_Union DEF ChangesAreOwned
  <1>7. ASSUME NEW c \in changes'
        PROVE  /\ c = [product |-> c.product, ts |-> c.ts, field |-> c.field,
                       old |-> c.old, new |-> c.new]
               /\ c.product \in Loaded
               /\ c.field \in {"price", "discounts"}
    <2>1. CASE c \in changes
      BY <2>1 DEF ChangesAreOwned
    <2>2. CASE c \in UNION all
      <3>1. PICK i \in Known(listed) : c \in Moves(i, PageOf(listed, i))
        BY <2>2
      <3> QED
        BY <1>2, <1>3, <3>1
    <2> QED
      BY <1>1, <2>1, <2>2
  <1> QED
    BY <1>6, <1>7, LoadedStays DEF ChangesAreOwned

\* A merge rewrites every change to one of its own: two that coincide after
\* it were recorded of one row, and so were one.
LEMMA MergeKeepsOwned ==
    ASSUME Inv, ChangesAreOwned, MergeDuplicates
    PROVE  ChangesAreOwned' /\ Cardinality(changes') = Cardinality(changes)
  <1> DEFINE Given(c) == [c EXCEPT !.product = Survivor(@)]
             f == [c \in changes |-> Given(c)]
  <1>1. changes' = {f[c] : c \in changes}
    BY DEF MergeDuplicates
  <1>2. \A c \in changes : c.product \in Ids /\ c.product \in Loaded
    BY DEF ChangesAreOwned, Loaded
  <1>3. ASSUME NEW c \in changes
        PROVE  f[c] = [product |-> Survivor(c.product), ts |-> c.ts, field |-> c.field,
                       old |-> c.old, new |-> c.new]
    BY DEF ChangesAreOwned
  <1> HIDE DEF f
  <1>4. ASSUME NEW c \in changes, NEW d \in changes, f[c] = f[d]
        PROVE  c = d
    <2>1. /\ Survivor(c.product) = Survivor(d.product) /\ c.ts = d.ts
          /\ c.field = d.field /\ c.old = d.old /\ c.new = d.new
      <3>1. [product |-> Survivor(c.product), ts |-> c.ts, field |-> c.field,
             old |-> c.old, new |-> c.new]
              = [product |-> Survivor(d.product), ts |-> d.ts, field |-> d.field,
                 old |-> d.old, new |-> d.new]
        BY <1>3, <1>4, Zenon
      <3> QED
        BY <3>1
    <2>2. c.product \in Group(d.product)
      <3>1. PICK s : s = Survivor(c.product)
        OBVIOUS
      <3>2. s \in Group(c.product) /\ s \in Group(d.product)
        BY <1>2, <2>1, <3>1, GroupFacts
      <3>3. Group(s) = Group(c.product) /\ Group(s) = Group(d.product)
        BY <1>2, <3>2, GroupFacts
      <3> QED
        BY <1>2, <3>3, GroupFacts
    <2>3. c.product = d.product
      <3>1. PICK i, j : i = c.product /\ j = d.product
        OBVIOUS
      <3>2. Same(i, rows[j].code) /\ Same(j, rows[i].code)
        BY <2>2, <3>1 DEF Group, Same
      <3>3. i \in Ids /\ j \in Ids /\ i \in Loaded /\ j \in Loaded
        BY <1>2, <3>1, Zenon
      <3>4. i \in Nat /\ j \in Nat
        BY <3>3 DEF Inv, RowsAreOld
      <3>5. i <= j /\ j <= i
        BY <3>2, <3>3 DEF Loaded
      <3> QED
        BY <3>1, <3>4, <3>5
    <2> QED
      BY <2>1, <2>3 DEF ChangesAreOwned
  <1>5. f \in Bijection(changes, changes')
    <2>1. f = [c \in changes |-> f[c]]
      BY DEF f
    <2> QED
      BY <1>1, <1>4, <2>1 DEF Bijection, Injection, Surjection, IsInjective
  <1>6. IsFiniteSet(changes') /\ Cardinality(changes') = Cardinality(changes)
    BY <1>5, FS_Bijection DEF ChangesAreOwned, ExistsBijection
  <1>7. \A i \in Ids' : i \in Loaded'
    <2>1. Ids' = Survivors /\ Survivors \subseteq Ids
      BY MergedRows, SurvivorFacts
    <2>2. \A i \in Ids' : i \in Nat
      BY <2>1 DEF Inv, RowsAreOld
    <2>3. \A i, j \in Ids' : Fold[rows'[i].code] = Fold[rows'[j].code] => j <= i
      BY <2>1, <2>2, MergedCodes
    <2> QED
      BY <2>3 DEF Loaded, Same
  <1>8. ASSUME NEW r \in changes'
        PROVE  /\ r = [product |-> r.product, ts |-> r.ts, field |-> r.field,
                       old |-> r.old, new |-> r.new]
               /\ r.product \in Loaded'
               /\ r.field \in {"price", "discounts"}
    <2>1. PICK c \in changes : r = f[c]
      BY <1>1
    <2>2. r = [product |-> Survivor(c.product), ts |-> c.ts, field |-> c.field,
               old |-> c.old, new |-> c.new]
      BY <1>3, <2>1
    <2>3. Survivor(c.product) \in Ids'
      BY <1>2, MergedRows, SurvivorFacts
    <2>4. r.field \in {"price", "discounts"}
      BY <2>2 DEF ChangesAreOwned
    <2> QED
      BY <1>7, <2>2, <2>3, <2>4
  <1> QED
    BY <1>6, <1>8 DEF ChangesAreOwned

\* No change has been recorded yet.
LEMMA InitOwned == OfferInit => ChangesAreOwned
  BY FS_EmptySet DEF OfferInit, ChangesAreOwned

\* Pruning removes changes and leaves the rows.
LEMMA StepKeepsOwned ==
    Inv /\ ChangesAreOwned /\ [OfferNext]_offerVars => ChangesAreOwned'
  <1>1. ASSUME ChangesAreOwned, PruneOldChanges \/ UNCHANGED offerVars
        PROVE  ChangesAreOwned'
    <2>1. changes' \subseteq changes /\ Loaded' = Loaded
      BY <1>1 DEF PruneOldChanges, offerVars, tables, Loaded, Ids, Same
    <2> QED
      BY <1>1, <2>1, FS_Subset DEF ChangesAreOwned
  <1> QED
    BY <1>1, PollKeepsOwned, MergeKeepsOwned DEF OfferNext

-----------------------------------------------------------------------------
(* The prices shown.                                                       *)

\* A discount for somebody known.
Sized == [audience : DISCOUNT_AUDIENCES, amount : Nat \cup {None},
          percent : (0 .. 100) \cup {None}]

\* One for anybody.
Reads(d) ==
    /\ d = [audience |-> d.audience, amount |-> d.amount, percent |-> d.percent]
    /\ d.amount \in Nat \cup {None}
    /\ d.percent \in (0 .. 100) \cup {None}

\* The discount takes no more than there is, and no fraction of a unit.
Whole(price, d) ==
    /\ d.amount # None => d.amount <= price
    /\ d.amount = None /\ d.percent # None => (price * d.percent) % 100 = 0

\* No discount of a page needs rounding.
PagesAreWhole ==
    \A p \in Pages :
        /\ p.discounts # None
        /\ \E k \in Nat : DOMAIN p.discounts = 1 .. k
        /\ \A n \in DOMAIN p.discounts :
              /\ Reads(p.discounts[n])
              /\ p.list # None => Whole(p.list, p.discounts[n])

\* The discounts of a page that are stored.
Stored(page) == discounts_to_json(page.discounts)

\* A row has the discounts and the audience of the page last copied into it,
\* and the quote of the page its price is of.
HasOffer(r, page) ==
    /\ page \in Pages
    /\ r.discounts = discounts_to_json(Reported(page))
    /\ r.price_audience = page.quoted

HasPrice(r, page) == page \in Pages /\ r.price = Quote(page)

RowsAreCopies ==
    /\ DOMAIN shows = Ids /\ DOMAIN priced = Ids
    /\ \A i \in Ids : /\ shows[i] # None => HasOffer(rows[i], shows[i])
                      /\ priced[i] # None => HasPrice(rows[i], priced[i])

\* A discount saves something between nothing and the price.
LEMMA SavingFacts ==
    ASSUME NEW price \in Nat, NEW d \in Sized, Whole(price, d)
    PROVE  Saving(price, d) \in 0 .. price
  <1>1. CASE d.amount # None
    BY <1>1 DEF Saving, Whole, Sized
  <1>2. CASE d.amount = None /\ d.percent # None
    <2>1. PICK q \in 0 .. 100 : q = d.percent
      BY <1>2 DEF Sized
    <2>2. PICK x \in Nat : x = price * q
      BY <2>1
    <2>3. 0 <= x /\ x <= 100 * price
      BY <2>1, <2>2
    <2>4. (x \div 100) \in 0 .. price
      BY <2>3
    <2> QED
      BY <1>2, <2>1, <2>2, <2>4 DEF Saving
  <1>3. CASE d.amount = None /\ d.percent = None
    BY <1>3 DEF Saving
  <1> QED
    BY <1>1, <1>2, <1>3

\* Undoing it gives the price back, or nothing.
LEMMA UndoneFacts ==
    ASSUME NEW price \in Nat, NEW d \in Sized, Whole(price, d)
    PROVE  Undone(price - Saving(price, d), d) \in {None, price}
  <1>1. CASE d.amount # None
    <2>1. d.amount \in Nat
      BY <1>1 DEF Sized
    <2> QED
      BY <1>1, <2>1 DEF Saving, Undone
  <1>2. CASE d.amount = None /\ d.percent \in 1 .. 99
    <2>1. PICK q \in 1 .. 99 : q = d.percent
      BY <1>2
    <2>2. PICK x \in Nat : x = price * q
      BY <2>1
    <2>3. q # None
      BY NullAssumption
    <2>4. x % 100 = 0
      BY <1>2, <2>1, <2>2, <2>3 DEF Whole
    <2>5. PICK s \in Nat : s = x \div 100 /\ x = 100 * s
      BY <2>4
    <2>6. Saving(price, d) = s
      BY <1>2, <2>1, <2>2, <2>3, <2>5 DEF Saving
    <2>7. (price - s) * 100 = price * (100 - q)
      BY <2>2, <2>5
    <2>8. PICK r \in Nat \ {0} : r = 100 - q
      BY <2>1
    <2>9. (price * r) \div r = price
      BY <2>8
    <2> QED
      BY <1>2, <2>1, <2>6, <2>7, <2>8, <2>9 DEF Undone
  <1>3. CASE d.amount = None /\ d.percent \notin 1 .. 99
    BY <1>3 DEF Undone
  <1> QED
    BY <1>1, <1>2, <1>3

\* The best of the discounts is one of them, or nothing.
LEMMA BestFacts ==
    ASSUME NEW price \in Nat, NEW discounts \in Seq(Sized), NEW audience,
           \A n \in DOMAIN discounts : Whole(price, discounts[n])
    PROVE  /\ Best(price, discounts, audience) \in 0 .. price
           /\ For(discounts, audience) = {} => Best(price, discounts, audience) = 0
           /\ \A n : For(discounts, audience) = {n} =>
                 Best(price, discounts, audience) = Saving(price, discounts[n])
  <1> DEFINE S == {Saving(price, discounts[n]) : n \in For(discounts, audience)} \cup {0}
  <1>1. \A n \in For(discounts, audience) :
           n \in DOMAIN discounts /\ Saving(price, discounts[n]) \in 0 .. price
    BY SavingFacts DEF For
  <1>2. S \in SUBSET (0 .. price) /\ 0 \in S
    BY <1>1
  <1>3. Best(price, discounts, audience) = Max(S)
    BY DEF Best
  <1>4. \E x \in S : \A y \in S : x >= y
    BY <1>2, GreatestOf
  <1>5. Max(S) \in S /\ \A y \in S : Max(S) >= y
    BY <1>4, Zenon DEF Max
  <1>6. For(discounts, audience) = {} => S = {0}
    OBVIOUS
  <1>7. ASSUME NEW n, For(discounts, audience) = {n}
        PROVE  S = {Saving(price, discounts[n]), 0} /\ Saving(price, discounts[n]) \in Nat
    BY <1>1, <1>7
  <1>8. ASSUME NEW n, For(discounts, audience) = {n}
        PROVE  Max(S) = Saving(price, discounts[n])
    <2>1. PICK v : v = Saving(price, discounts[n])
      OBVIOUS
    <2>2. S = {v, 0} /\ v \in Nat
      BY <1>7, <1>8, <2>1
    <2> HIDE DEF S
    <2> QED
      BY <1>5, <2>1, <2>2
  <1>9. Max(S) \in 0 .. price
    BY <1>2, <1>5
  <1>10. For(discounts, audience) = {} => Max(S) = 0
    BY <1>5, <1>6
  <1> HIDE DEF S
  <1> QED
    BY <1>3, <1>8, <1>9, <1>10

\* What is stored is the discounts there are for a known audience and of a
\* known size; the others save nobody anything.
LEMMA StoredFacts ==
    ASSUME PagesAreWhole, NEW page \in Pages
    PROVE  /\ Stored(page) \in Seq(Sized)
           /\ page.list # None =>
                 \A n \in DOMAIN Stored(page) : Whole(page.list, Stored(page)[n])
           /\ \A audience \in DISCOUNT_AUDIENCES :
                 Best(page.list, page.discounts, audience) =
                    Best(page.list, Stored(page), audience)
  <1>1. PICK all, list : all = page.discounts /\ list = page.list
    OBVIOUS
  <1>2. PICK k \in Nat : DOMAIN all = 1 .. k
    BY <1>1 DEF PagesAreWhole
  <1>3. PICK S : S = {n \in 1 .. k :
                        /\ all[n].audience \in DISCOUNT_AUDIENCES
                        /\ all[n].amount # None \/ all[n].percent # None}
    OBVIOUS
  <1>4. S \in SUBSET Nat /\ IsFiniteSet(S)
    <2>1. S \in SUBSET (1 .. k)
      BY <1>3
    <2>2. IsFiniteSet(1 .. k)
      BY FS_Interval
    <2>3. IsFiniteSet(S)
      BY <2>1, <2>2, FS_Subset
    <2> QED
      BY <2>1, <2>3
  <1>5. PICK at : at = Ascending(S)
    OBVIOUS
  <1>6. PICK c \in Nat : c = Cardinality(S) /\ DOMAIN at = 1 .. c
    BY <1>4, <1>5, SortedNumbers
  <1>7. /\ \A i \in 1 .. c : at[i] \in S
        /\ \A n \in S : \E i \in 1 .. c : at[i] = n
    <2>1. at \in [1 .. c -> S]
      BY <1>4, <1>5, <1>6, SortedNumbers
    <2>2. \A n \in S : /\ Cardinality(Below(S, n)) + 1 \in 1 .. c
                       /\ at[Cardinality(Below(S, n)) + 1] = n
      BY <1>4, <1>5, <1>6, SortedNumbers
    <2> QED
      BY <2>1, <2>2, Zenon
  <1>8. PICK kept : kept = Stored(page)
    OBVIOUS
  <1>9. kept = [i \in 1 .. c |-> all[at[i]]]
    BY <1>1, <1>2, <1>3, <1>5, <1>6, <1>8 DEF Stored, discounts_to_json, PagesAreWhole
  <1>10. ASSUME NEW n \in S
         PROVE  all[n] \in Sized /\ (list # None => Whole(list, all[n]))
    <2>1. PICK d : d = all[n]
      OBVIOUS
    <2>2. Reads(d) /\ d.audience \in DISCOUNT_AUDIENCES /\ (list # None => Whole(list, d))
      BY <1>1, <1>2, <1>3, <2>1 DEF PagesAreWhole
    <2> QED
      BY <2>1, <2>2 DEF Reads, Sized
  <1>11. kept \in Seq(Sized)
    BY <1>7, <1>9, <1>10
  <1>12. list # None => \A n \in DOMAIN kept : Whole(list, kept[n])
    BY <1>7, <1>9, <1>10
  <1>13. ASSUME NEW audience \in DISCOUNT_AUDIENCES
         PROVE  Best(list, all, audience) = Best(list, kept, audience)
    <2>1. PICK A, K : /\ A = {Saving(list, all[n]) : n \in For(all, audience)} \cup {0}
                      /\ K = {Saving(list, kept[n]) : n \in For(kept, audience)} \cup {0}
      OBVIOUS
    <2>2. ASSUME NEW n \in For(all, audience)
          PROVE  Saving(list, all[n]) \in K
      <3>1. n \in 1 .. k /\ all[n].audience \in {audience, "any"}
        BY <1>2 DEF For
      <3>2. CASE all[n].amount = None /\ all[n].percent = None
        BY <2>1, <3>2 DEF Saving
      <3>3. CASE all[n].amount # None \/ all[n].percent # None
        <4>1. n \in S
          BY <1>3, <3>1, <3>3 DEF DISCOUNT_AUDIENCES
        <4>2. PICK i \in 1 .. c : at[i] = n
          BY <1>7, <4>1
        <4>3. kept[i] = all[n] /\ i \in DOMAIN kept
          BY <1>9, <4>2
        <4>4. i \in For(kept, audience)
          BY <3>1, <4>3 DEF For
        <4> QED
          BY <2>1, <4>3, <4>4
      <3> QED
        BY <3>2, <3>3
    <2>3. ASSUME NEW i \in For(kept, audience)
          PROVE  Saving(list, kept[i]) \in A
      <3>1. i \in 1 .. c /\ kept[i] = all[at[i]] /\ kept[i].audience \in {audience, "any"}
        BY <1>9 DEF For
      <3>2. PICK n \in 1 .. k : n = at[i]
        BY <1>3, <1>7, <3>1
      <3>3. n \in For(all, audience) /\ kept[i] = all[n]
        BY <1>2, <3>1, <3>2 DEF For
      <3> QED
        BY <2>1, <3>3
    <2>4. A = K
      BY <2>1, <2>2, <2>3
    <2> QED
      BY <2>1, <2>4, Zenon DEF Best
  <1> QED
    BY <1>1, <1>8, <1>11, <1>12, <1>13

\* What a whole page quotes and asks.
LEMMA AskedFacts ==
    ASSUME PagesAreWhole, NEW page \in Pages, page.list # None,
           NEW audience \in DISCOUNT_AUDIENCES
    PROVE  /\ page.list \in Nat
           /\ Asked(page, audience) = page.list - Best(page.list, Stored(page), audience)
           /\ Asked(page, audience) \in Nat
  <1>1. /\ page.list \in Nat /\ Stored(page) \in Seq(Sized)
        /\ \A n \in DOMAIN Stored(page) : Whole(page.list, Stored(page)[n])
    BY StoredFacts, PagesAssumption
  <1>2. Best(page.list, Stored(page), audience) \in 0 .. page.list
    BY <1>1, BestFacts
  <1>3. Asked(page, audience) = page.list - Best(page.list, Stored(page), audience)
    BY StoredFacts DEF Asked
  <1> QED
    BY <1>1, <1>2, <1>3

\* The list price found behind a quote is the page's, if any is.
LEMMA ListPriceIsReal ==
    ASSUME PagesAreWhole, NEW page \in Pages, NEW discounts,
           discounts \in {None, Stored(page)}
    PROVE  list_price(Quote(page), discounts, page.quoted) \in {None, page.list}
  <1>1. CASE page.list = None
    BY <1>1 DEF Quote, Asked, list_price
  <1>2. CASE page.list # None /\ page.quoted = "any"
    BY <1>2 DEF Quote, list_price
  <1>3. CASE page.list # None /\ page.quoted # "any"
    <2>1. PICK list, sort, price :
             list = page.list /\ sort = Stored(page) /\ price = Quote(page)
      OBVIOUS
    <2>2. /\ list \in Nat /\ price \in Nat /\ price # None
          /\ price = list - Best(list, sort, page.quoted)
      BY <1>3, <2>1, AskedFacts, NullAssumption, PagesAssumption DEF Quote
    <2>3. /\ sort \in Seq(Sized)
          /\ \A n \in DOMAIN sort : Whole(list, sort[n])
      BY <1>3, <2>1, StoredFacts
    <2>4. CASE discounts = None
      BY <1>3, <2>1, <2>2, <2>4 DEF list_price
    <2>5. CASE discounts # None /\ For(sort, page.quoted) = {}
      <3>1. Best(list, sort, page.quoted) = 0
        BY <2>2, <2>3, <2>5, BestFacts
      <3> QED
        BY <1>3, <2>1, <2>2, <2>5, <3>1 DEF list_price
    <2>6. ASSUME discounts # None, NEW n, For(sort, page.quoted) = {n}
          PROVE  list_price(price, discounts, page.quoted) \in {None, list}
      <3>1. n \in DOMAIN sort /\ (CHOOSE m \in {n} : TRUE) = n
        BY <2>6 DEF For
      <3>2. sort[n] \in Sized /\ Whole(list, sort[n])
        BY <2>3, <3>1
      <3>3. Best(list, sort, page.quoted) = Saving(list, sort[n])
        BY <2>2, <2>3, <2>6, BestFacts
      <3>4. Undone(price, sort[n]) \in {None, list}
        BY <2>2, <3>2, <3>3, UndoneFacts
      <3>5. list_price(price, discounts, page.quoted) = Undone(price, sort[n])
        BY <1>3, <2>1, <2>2, <2>6, <3>1 DEF list_price
      <3> QED
        BY <3>4, <3>5
    <2>7. CASE /\ discounts # None /\ For(sort, page.quoted) # {}
               /\ ~\E n : For(sort, page.quoted) = {n}
      BY <1>3, <2>1, <2>2, <2>7 DEF list_price
    <2> QED
      BY <2>1, <2>4, <2>5, <2>6, <2>7
  <1> QED
    BY <1>1, <1>2, <1>3

\* What an audience is shown is what the shop asks of it, or nothing.
LEMMA AudiencePriceIsReal ==
    ASSUME PagesAreWhole, NEW page \in Pages, NEW discounts, NEW audience \in AUDIENCES,
           discounts \in {None, Stored(page)}
    PROVE  audience_price(Quote(page), discounts, audience, page.quoted)
              \in {None, Asked(page, audience)}
  <1>1. CASE page.list = None
    BY <1>1 DEF Quote, Asked, audience_price
  <1>2. CASE page.list # None /\ page.quoted = audience
    BY <1>2 DEF Quote, audience_price, AUDIENCES
  <1>3. CASE page.list # None /\ page.quoted # audience
    <2>1. PICK list, price, asked, base :
             /\ list = page.list /\ price = Quote(page) /\ asked = Asked(page, audience)
             /\ base = list_price(price, discounts, page.quoted)
      OBVIOUS
    <2>2. /\ list \in Nat /\ asked \in Nat
          /\ asked = list - Best(list, Stored(page), audience)
      BY <1>3, <2>1, AskedFacts DEF DISCOUNT_AUDIENCES
    <2>3. price # None
      BY <1>3, <2>1, AskedFacts, NullAssumption, PagesAssumption DEF Quote
    <2>4. base = None \/ base = list
      BY <2>1, ListPriceIsReal
    <2>5. CASE base = None \/ discounts = None
      BY <1>3, <2>1, <2>3, <2>5 DEF audience_price
    <2>6. CASE base # None /\ discounts # None
      <3>1. base = list /\ discounts = Stored(page)
        BY <2>4, <2>6
      <3>2. audience_price(price, discounts, audience, page.quoted) =
               Max({base - Best(base, discounts, audience), 0})
        BY <1>3, <2>1, <2>3, <2>6 DEF audience_price
      <3>3. audience_price(price, discounts, audience, page.quoted) = Max({asked, 0})
        BY <2>2, <3>1, <3>2
      <3>4. Max({asked, 0}) = asked
        <4>1. PICK T : T = {asked, 0}
          OBVIOUS
        <4>2. asked \in T /\ \A y \in T : asked >= y
          BY <2>2, <4>1
        <4>3. Max(T) \in T /\ \A y \in T : Max(T) >= y
          BY <4>2, Zenon DEF Max
        <4> QED
          BY <2>2, <4>1, <4>2, <4>3
      <3> QED
        BY <2>1, <3>3, <3>4
    <2> QED
      BY <2>5, <2>6
  <1> QED
    BY <1>1, <1>2, <1>3

\* The offer fields of a row, however it was left by a poll or a merge.
LEMMA OfferShape ==
    ASSUME NEW r, DOMAIN r = RowFields
    PROVE  /\ \A page, new : new = Copied(r, page) =>
                 /\ DOMAIN new = RowFields /\ new.price = Quote(page)
                 /\ new.discounts = discounts_to_json(Reported(page))
                 /\ new.price_audience = page.quoted
           /\ \A new : new = Unlisted(r) =>
                 /\ new.price = r.price /\ new.discounts = r.discounts
                 /\ new.price_audience = r.price_audience
  BY DEF Copied, Unlisted, RowFields

\* A listed row is one of its page, and so is a new one.
LEMMA SeenOffer ==
    ASSUME NEW r, DOMAIN r = RowFields, NEW page, NEW told, NEW held,
           NEW new, new = Seen(r, page, told, held)
    PROVE  /\ new.price = PriceAfter(r, page, held)
           /\ new.discounts = discounts_to_json(Reported(page))
           /\ new.price_audience = page.quoted
  <1> DEFINE copied == Copied(r, page)
  <1>1. /\ DOMAIN copied = RowFields
        /\ copied.discounts = discounts_to_json(Reported(page))
        /\ copied.price_audience = page.quoted
    BY OfferShape
  <1>2. new = [copied EXCEPT !.price = PriceAfter(r, page, held),
                             !.stock = page.stock, !.since = SinceAfter(r, page),
                             !.delivery = DeliveryAfter(r, page, told),
                             !.last_seen = clock]
    BY DEF Seen
  <1> HIDE DEF copied
  <1> QED
    BY <1>1, <1>2 DEF RowFields

\* A poll copies the pages it shows, and the prices of those no push held
\* back; it leaves the other rows' offers.
LEMMA PollKeepsCopies ==
    ASSUME Inv, RowsAreCopies, NEW listed \in Listings, Poll(listed)
    PROVE  RowsAreCopies'
  <1>1. PICK told \in SUBSET Moved(listed), held \in SUBSET Repriced(listed) :
           /\ rows' = [i \in Ids \cup Fresh(listed) |-> RowAfter(listed, told, held, i)]
           /\ priced' = [i \in Ids \cup Fresh(listed) |-> PricedAfter(listed, held, i)]
    BY PollShape
  <1>2. /\ Ids' = Ids \cup Fresh(listed)
        /\ \A i \in Ids' : rows'[i] = RowAfter(listed, told, held, i)
    BY <1>1, Zenon DEF Ids
  <1>3. /\ DOMAIN shows' = Ids' /\ DOMAIN priced' = Ids'
        /\ \A i \in Ids' : /\ shows'[i] = ShownAfter(listed, i)
                           /\ priced'[i] = PricedAfter(listed, held, i)
    <2>1. shows' = [i \in Ids \cup Fresh(listed) |-> ShownAfter(listed, i)]
      BY PollShape
    <2> QED
      BY <1>1, <1>2, <2>1, Zenon
  <1>4. listed \subseteq Pages
    BY DEF Listings, kSubset
  <1>5. \A i \in Ids : DOMAIN rows[i] = RowFields
    BY DEF Inv, RowsAreOld, OldRow
  <1> DEFINE Copies(i) == /\ shows'[i] # None => HasOffer(rows'[i], shows'[i])
                          /\ priced'[i] # None => HasPrice(rows'[i], priced'[i])
  <1>6. ASSUME NEW i \in Fresh(listed)
        PROVE  Copies(i)
    <2>1. PICK page, blank : page = NewPages(listed)[i - LastId] /\ blank = Blank(i, page)
      OBVIOUS
    <2>2. page \in Pages /\ i \in Ids'
      BY <1>2, <1>4, <2>1, FreshFacts
    <2>3. rows'[i] = Copied(blank, page) /\ shows'[i] = page /\ priced'[i] = page
      BY <1>2, <1>3, <2>1, <2>2, Zenon DEF RowAfter, Inserted, ShownAfter, PricedAfter
    <2>4. DOMAIN blank = RowFields
      BY <2>1 DEF Blank, RowFields
    <2>5. PICK new : new = rows'[i]
      OBVIOUS
    <2>6. /\ new.price = Quote(page) /\ new.price_audience = page.quoted
          /\ new.discounts = discounts_to_json(Reported(page))
      BY <2>3, <2>4, <2>5, OfferShape
    <2> QED
      BY <2>2, <2>3, <2>5, <2>6, Zenon DEF HasOffer, HasPrice
  <1>7. ASSUME NEW i \in Known(listed)
        PROVE  Copies(i)
    <2>1. PICK page, failed : page = PageOf(listed, i) /\ failed = (i \in held)
      OBVIOUS
    <2>2. i \in Ids /\ page \in Pages /\ i \notin Fresh(listed)
      BY <2>1, KnownFacts, FreshFacts
    <2>3. PICK old, new : old = rows[i] /\ new = rows'[i]
      OBVIOUS
    <2>4. new = Seen(old, page, i \in told, failed) /\ shows'[i] = page
      BY <1>2, <1>3, <2>1, <2>2, <2>3, Zenon DEF RowAfter, ShownAfter
    <2>5. priced'[i] = IF failed THEN priced[i] ELSE page
      BY <1>2, <1>3, <2>1, <2>2, Zenon DEF PricedAfter
    <2>6. DOMAIN old = RowFields
      BY <1>5, <2>2, <2>3
    <2>7. /\ new.price = PriceAfter(old, page, failed)
          /\ new.discounts = discounts_to_json(Reported(page))
          /\ new.price_audience = page.quoted
      BY <2>4, <2>6, SeenOffer
    <2>8. HasOffer(rows'[i], shows'[i])
      BY <2>2, <2>3, <2>4, <2>7 DEF HasOffer
    <2>9. CASE failed
      <3>1. priced'[i] = priced[i] /\ new.price = old.price
        BY <2>5, <2>7, <2>9, Zenon DEF PriceAfter
      <3>2. priced[i] # None => HasPrice(old, priced[i])
        BY <2>2, <2>3 DEF RowsAreCopies
      <3> QED
        BY <2>3, <2>8, <3>1, <3>2 DEF HasPrice
    <2>10. CASE ~failed
      <3>1. priced'[i] = page /\ new.price = Quote(page)
        BY <2>5, <2>7, <2>10, Zenon DEF PriceAfter
      <3> QED
        BY <2>2, <2>3, <2>8, <3>1 DEF HasPrice
    <2> QED
      BY <2>9, <2>10
  <1>8. ASSUME NEW i \in Ids, i \notin Known(listed)
        PROVE  Copies(i)
    <2>1. i \notin Fresh(listed) /\ i \in Ids'
      BY <1>2, <1>8, FreshFacts
    <2>2. rows'[i] = Unlisted(rows[i]) \/ rows'[i] = rows[i]
      BY <1>2, <1>8, <2>1, Zenon DEF RowAfter
    <2>3. shows'[i] = shows[i] /\ priced'[i] = priced[i]
      BY <1>3, <1>8, <2>1, Zenon DEF ShownAfter, PricedAfter
    <2>4. /\ rows'[i].price = rows[i].price /\ rows'[i].discounts = rows[i].discounts
          /\ rows'[i].price_audience = rows[i].price_audience
      BY <1>5, <2>2, OfferShape
    <2> QED
      BY <2>3, <2>4 DEF RowsAreCopies, HasOffer, HasPrice
  <1>9. \A i \in Ids' : i \in Fresh(listed) \/ i \in Known(listed)
                      \/ (i \in Ids /\ i \notin Known(listed))
    BY <1>2
  <1>10. \A i \in Ids' : Copies(i)
    BY <1>6, <1>7, <1>8, <1>9
  <1> QED
    BY <1>3, <1>10 DEF RowsAreCopies

\* A merge forgets the pages of the rows it joins, and leaves the others.
LEMMA MergeKeepsCopies ==
    ASSUME Inv, RowsAreCopies, MergeDuplicates
    PROVE  RowsAreCopies'
  <1>1. /\ Ids' = Survivors /\ Survivors \subseteq Ids
        /\ \A i \in Survivors : rows'[i] = FastForwarded(i)
    BY MergedRows, SurvivorFacts DEF MergeDuplicates
  <1>2. /\ DOMAIN shows' = Survivors /\ DOMAIN priced' = Survivors
        /\ \A i \in Survivors :
              /\ shows'[i] = IF Group(i) = {i} THEN shows[i] ELSE None
              /\ priced'[i] = IF Group(i) = {i} THEN priced[i] ELSE None
    BY DEF MergeDuplicates
  <1>3. ASSUME NEW i \in Survivors, Group(i) = {i}
        PROVE  /\ i \in Ids
               /\ rows'[i].price = rows[i].price
               /\ rows'[i].discounts = rows[i].discounts
               /\ rows'[i].price_audience = rows[i].price_audience
    <2>1. i \in Ids
      BY <1>1
    <2>2. Newest(i) = i
      BY <1>3, <2>1, GroupFacts
    <2>3. DOMAIN rows[i] = RowFields
      BY <2>1 DEF Inv, RowsAreOld, OldRow
    <2>4. rows'[i] = [rows[i] EXCEPT
             !.code = rows[i].code, !.variant = rows[i].variant,
             !.price = rows[i].price, !.discounts = rows[i].discounts,
             !.stock = rows[i].stock, !.delivery = rows[i].delivery,
             !.rating = rows[i].rating, !.last_seen = rows[i].last_seen]
      BY <1>1, <2>2 DEF FastForwarded
    <2> QED
      BY <2>1, <2>3, <2>4 DEF RowFields
  <1>4. ASSUME NEW i \in Survivors
        PROVE  /\ shows'[i] # None => HasOffer(rows'[i], shows'[i])
               /\ priced'[i] # None => HasPrice(rows'[i], priced'[i])
    <2>1. CASE Group(i) = {i}
      <3>1. shows'[i] = shows[i] /\ priced'[i] = priced[i]
        BY <1>2, <2>1
      <3>2. /\ shows[i] # None => HasOffer(rows[i], shows[i])
            /\ priced[i] # None => HasPrice(rows[i], priced[i])
        BY <1>1 DEF RowsAreCopies
      <3> QED
        BY <1>3, <2>1, <3>1, <3>2 DEF HasOffer, HasPrice
    <2>2. CASE Group(i) # {i}
      BY <1>2, <2>2
    <2> QED
      BY <2>1, <2>2
  <1> QED
    BY <1>1, <1>2, <1>4 DEF RowsAreCopies

\* A legacy row is of no page that was seen.
LEMMA InitCopies == OfferInit => RowsAreCopies
  <1> SUFFICES ASSUME OfferInit
               PROVE  RowsAreCopies
    OBVIOUS
  <1>1. CASE rows = <<>> /\ shows = <<>> /\ priced = <<>>
    BY <1>1 DEF RowsAreCopies, Ids
  <1>2. CASE ~(rows = <<>> /\ shows = <<>> /\ priced = <<>>)
    <2>1. PICK p, q, last :
             /\ rows = <<Legacy(1, p, IF last = 1 THEN 2 ELSE 0), Legacy(2, q, last)>>
             /\ shows = <<None, None>> /\ priced = <<None, None>>
      BY <1>2, Zenon DEF OfferInit
    <2>2. PICK a, b : rows = <<a, b>>
      BY <2>1
    <2>3. /\ Ids = 1 .. 2 /\ DOMAIN shows = 1 .. 2 /\ DOMAIN priced = 1 .. 2
          /\ shows[1] = None /\ shows[2] = None
          /\ priced[1] = None /\ priced[2] = None
      BY <2>1, <2>2 DEF Ids
    <2> QED
      BY <2>3 DEF RowsAreCopies
  <1> QED
    BY <1>1, <1>2

\* Pruning leaves the rows and their pages.
LEMMA StepKeepsCopies == Inv /\ RowsAreCopies /\ [OfferNext]_offerVars => RowsAreCopies'
  <1>1. ASSUME RowsAreCopies, UNCHANGED <<rows, shows, priced>>
        PROVE  RowsAreCopies'
    BY <1>1 DEF RowsAreCopies, Ids
  <1>2. PruneOldChanges \/ UNCHANGED offerVars => UNCHANGED <<rows, shows, priced>>
    BY DEF PruneOldChanges, offerVars, tables
  <1> QED
    BY <1>1, <1>2, PollKeepsCopies, MergeKeepsCopies DEF OfferNext

-----------------------------------------------------------------------------
(* The theorems.                                                           *)

\* All of the above is invariant.
THEOREM Invariance == OfferSpec => []Inv
  BY InitInv, StepKeepsInv, PTL DEF OfferSpec

\* A lead-time alert whose push failed is staged again by the next poll that
\* reads the same page: the closure put the old text back, and the product
\* is still buyable (poller.py, the lead-time branch).
THEOREM LateText == OfferSpec => LateTextIsOwed
  <1> DEFINE Owed ==
        \A page \in Pages :
          \A i \in Ids \cap DOMAIN rows' :
             /\ rows'[i].last_seen = clock /\ shows'[i] = page
             /\ DeliveryMoved(rows[i], page)
             /\ [product |-> i, ts |-> clock, kind |-> "lead_time"] \notin events'
             => DeliveryMoved(rows'[i], page)
  <1>1. Inv /\ [OfferNext]_offerVars => [Owed]_offerVars
    <2> SUFFICES ASSUME Inv, OfferNext,
                        NEW page \in Pages, NEW i \in Ids, i \in DOMAIN rows',
                        rows'[i].last_seen = clock, shows'[i] = page,
                        DeliveryMoved(rows[i], page),
                        [product |-> i, ts |-> clock, kind |-> "lead_time"]
                            \notin events'
                 PROVE  DeliveryMoved(rows'[i], page)
      OBVIOUS
    <2>1. OldRow(rows[i], clock) /\ clock \in Nat
      BY DEF Inv, RowsAreOld
    <2>2. rows[i].last_seen < clock /\ rows[i].last_seen \in Nat
          /\ DOMAIN rows[i] = RowFields
      BY <2>1 DEF OldRow
    <2>3. CASE MergeDuplicates
      <3>1. OldRow(rows'[i], clock)
        BY <2>3, MergedRows DEF Ids
      <3>2. QED
        BY <2>1, <3>1 DEF OldRow
    <2>4. CASE PruneOldChanges
      BY <2>2, <2>4 DEF PruneOldChanges
    <2>5. ASSUME NEW listed \in Listings, Poll(listed)
          PROVE  DeliveryMoved(rows'[i], page)
      <3>1. PICK told, held :
               /\ rows' = [j \in Ids \cup Fresh(listed) |-> RowAfter(listed, told, held, j)]
               /\ events' = EventsAfter(listed, told)
        BY <2>5, PollShape
      <3>2. shows' = [j \in Ids \cup Fresh(listed) |-> ShownAfter(listed, j)]
        BY <2>5, PollShape
      <3>3. i \notin Fresh(listed)
        BY FreshFacts
      <3>4. rows'[i] = RowAfter(listed, told, held, i) /\ shows'[i] = ShownAfter(listed, i)
        BY <3>1, <3>2, Zenon
      <3>5. i \in Known(listed)
        <4> SUFFICES ASSUME i \notin Known(listed)
                     PROVE  FALSE
          OBVIOUS
        <4>1. rows'[i] = Unlisted(rows[i]) \/ rows'[i] = rows[i]
          BY <3>3, <3>4, Zenon DEF RowAfter
        <4>2. rows'[i].last_seen = rows[i].last_seen
          BY <2>2, <4>1, UnlistedShape
        <4>3. QED
          BY <2>1, <2>2, <4>2
      <3>6. PageOf(listed, i) = page
        BY <3>3, <3>4, <3>5, Zenon DEF ShownAfter
      <3>7. rows'[i] = Seen(rows[i], page, i \in told, i \in held)
        BY <3>3, <3>4, <3>5, <3>6, Zenon DEF RowAfter
      <3>8. i \notin told
        <4> SUFFICES ASSUME i \in told
                     PROVE  FALSE
          OBVIOUS
        <4>1. "lead_time" \in KindsOf(rows[i], page, i \in told)
          BY DEF KindsOf
        <4>2. [product |-> i, ts |-> clock, kind |-> "lead_time"]
                 \in NewEvents(i, KindsOf(rows[i], PageOf(listed, i), i \in told))
          BY <3>6, <4>1 DEF NewEvents
        <4>3. QED
          BY <3>1, <3>5, <4>2, Zenon DEF EventsAfter
      <3>9. PICK failed : failed = (i \in told)
        OBVIOUS
      <3>10. rows'[i].stock = page.stock
             /\ rows'[i].delivery = DeliveryAfter(rows[i], page, failed)
        BY <2>2, <3>7, <3>9, SeenShape
      <3>11. rows'[i].delivery = rows[i].delivery
        BY <3>8, <3>9, <3>10, Zenon DEF DeliveryAfter
      <3>12. QED
        BY <3>10, <3>11, Zenon DEF DeliveryMoved
    <2>6. QED
      BY <2>3, <2>4, <2>5 DEF OfferNext
  <1>2. QED
    BY <1>1, Invariance, PTL DEF OfferSpec, LateTextIsOwed

\* When no discount of a page needs rounding, no offer is shown at a price
\* nobody can get (offers.py: list_price, audience_price).
THEOREM RealPrices ==
    ASSUME PagesAreWhole
    PROVE  OfferSpec => []OfferPricesAreReal
  <1>1. ASSUME RowsAreCopies
        PROVE  OfferPricesAreReal
    <2> SUFFICES ASSUME NEW i \in Ids, Agrees(i)
                 PROVE  LET page == priced[i]
                            offer == offer_dict(rows[i])
                        IN  /\ offer.list \in {None, page.list}
                            /\ offer.new \in {None, Asked(page, "new_customer")}
                            /\ offer.returning \in {None, Asked(page, "returning_customer")}
      BY DEF OfferPricesAreReal
    <2>1. PICK page, discounts, quoted :
             /\ page = priced[i] /\ discounts = rows[i].discounts
             /\ quoted = Quote(page)
      OBVIOUS
    <2>2. /\ page \in Pages /\ rows[i].price = quoted
          /\ discounts = discounts_to_json(Reported(page))
          /\ rows[i].price_audience = page.quoted
      BY <1>1, <2>1, Zenon DEF RowsAreCopies, HasOffer, HasPrice, Agrees
    <2>3. discounts \in {None, Stored(page)}
      BY <2>2 DEF Reported, Stored, discounts_to_json
    <2>4. /\ list_price(quoted, discounts, page.quoted) \in {None, page.list}
          /\ audience_price(quoted, discounts, "new_customer", page.quoted)
                \in {None, Asked(page, "new_customer")}
          /\ audience_price(quoted, discounts, "returning_customer", page.quoted)
                \in {None, Asked(page, "returning_customer")}
      BY <2>1, <2>2, <2>3, ListPriceIsReal, AudiencePriceIsReal DEF AUDIENCES
    <2>5. /\ offer_dict(rows[i]).list = list_price(quoted, discounts, page.quoted)
          /\ offer_dict(rows[i]).new =
                audience_price(quoted, discounts, "new_customer", page.quoted)
          /\ offer_dict(rows[i]).returning =
                audience_price(quoted, discounts, "returning_customer", page.quoted)
      BY <2>1, <2>2 DEF offer_dict
    <2> QED
      BY <2>1, <2>4, <2>5
  <1>2. OfferSpec => []RowsAreCopies
    BY Invariance, InitCopies, StepKeepsCopies, PTL DEF OfferSpec
  <1> QED
    BY <1>1, <1>2, PTL

-----------------------------------------------------------------------------
(***************************************************************************)
(* The order of the offers (offers.py: group_offers).                      *)
(*                                                                         *)
(* A row carries its id and a price and discounts that are numbers or not  *)
(* known (RowsArePriced), so what it costs to start with is a number or    *)
(* not known, and Cheaper and SeenBefore are strict orders.  sorted()      *)
(* lists what it is given, each once (ByRank), and of the rows in the      *)
(* order they were first seen one opens each variant (VariantsOnce).       *)
(***************************************************************************)

\* A row carries the id it is looked up by.
RowsHaveIds ==
    \A i \in Ids : rows[i].id = i

\* A poll gives a new row its id, and keeps every other.
LEMMA PollKeepsIds ==
    ASSUME Inv, RowsHaveIds, NEW listed \in Listings, Poll(listed)
    PROVE  RowsHaveIds'
  <1>1. PICK told \in SUBSET Moved(listed), held \in SUBSET Repriced(listed) :
           rows' = [i \in Ids \cup Fresh(listed) |-> RowAfter(listed, told, held, i)]
    BY PollShape
  <1>2. /\ Ids' = Ids \cup Fresh(listed)
        /\ \A i \in Ids' : rows'[i] = RowAfter(listed, told, held, i)
    BY <1>1, Zenon DEF Ids
  <1>3. ASSUME NEW r, NEW page, NEW seen, NEW failed
        PROVE  DOMAIN r = RowFields =>
                  /\ Copied(r, page).id = r.id
                  /\ Seen(r, page, seen, failed).id = r.id
                  /\ Unlisted(r).id = r.id
    BY DEF Copied, Seen, Unlisted, RowFields
  <1>4. ASSUME NEW i \in Fresh(listed)
        PROVE  rows'[i].id = i
    <2>1. PICK page, blank : page = NewPages(listed)[i - LastId] /\ blank = Blank(i, page)
      OBVIOUS
    <2>2. rows'[i] = Copied(blank, page)
      BY <1>2, <2>1, Zenon DEF RowAfter, Inserted
    <2>3. DOMAIN blank = RowFields /\ blank.id = i
      BY <2>1 DEF Blank, RowFields
    <2> QED
      BY <1>3, <2>2, <2>3
  <1>5. ASSUME NEW i \in Ids, i \notin Fresh(listed)
        PROVE  rows'[i].id = i
    <2>1. PICK old, new : old = rows[i] /\ new = rows'[i]
      OBVIOUS
    <2>2. \/ new = Seen(old, PageOf(listed, i), i \in told, i \in held)
          \/ new = Unlisted(old)
          \/ new = old
      BY <1>2, <1>5, <2>1, Zenon DEF RowAfter
    <2>3. DOMAIN old = RowFields /\ old.id = i
      BY <2>1 DEF Inv, RowsAreOld, OldRow, RowsHaveIds
    <2> QED
      BY <1>3, <2>1, <2>2, <2>3
  <1> QED
    BY <1>2, <1>4, <1>5 DEF RowsHaveIds

\* The survivor of a merge keeps its id.
LEMMA MergeKeepsIds ==
    ASSUME Inv, RowsHaveIds, MergeDuplicates
    PROVE  RowsHaveIds'
  <1>1. /\ Ids' = Survivors /\ Survivors \subseteq Ids
        /\ \A i \in Survivors : rows'[i] = FastForwarded(i)
    BY MergedRows, SurvivorFacts DEF MergeDuplicates
  <1>2. ASSUME NEW i \in Survivors
        PROVE  rows'[i].id = i
    <2>1. DOMAIN rows[i] = RowFields /\ rows[i].id = i
      BY <1>1 DEF Inv, RowsAreOld, OldRow, RowsHaveIds
    <2>2. PICK old, newest : old = rows[i] /\ newest = rows[Newest(i)]
      OBVIOUS
    <2>3. rows'[i] = [old EXCEPT !.code = newest.code, !.variant = newest.variant,
                                 !.price = newest.price, !.discounts = newest.discounts,
                                 !.stock = newest.stock, !.delivery = newest.delivery,
                                 !.rating = newest.rating, !.last_seen = newest.last_seen]
      BY <1>1, <2>2 DEF FastForwarded
    <2> QED
      BY <2>1, <2>2, <2>3 DEF RowFields
  <1> QED
    BY <1>1, <1>2 DEF RowsHaveIds

\* The legacy rows have the ids 1 and 2.
LEMMA InitIds == OfferInit => RowsHaveIds
  <1> SUFFICES ASSUME OfferInit
               PROVE  RowsHaveIds
    OBVIOUS
  <1>1. ASSUME NEW id, NEW page, NEW last
        PROVE  Legacy(id, page, last).id = id
    BY DEF Legacy, Blank
  <1>2. CASE rows = <<>>
    BY <1>2 DEF RowsHaveIds, Ids
  <1>3. CASE rows # <<>>
    <2>1. PICK p \in Pages, q \in Pages, last \in 1 .. 2 :
             rows = <<Legacy(1, p, IF last = 1 THEN 2 ELSE 0), Legacy(2, q, last)>>
      BY <1>3 DEF OfferInit
    <2>2. PICK a, b : a = Legacy(1, p, IF last = 1 THEN 2 ELSE 0) /\ b = Legacy(2, q, last)
      OBVIOUS
    <2>3. rows = <<a, b>> /\ a.id = 1 /\ b.id = 2
      BY <1>1, <2>1, <2>2
    <2>4. Ids = {1, 2} /\ rows[1] = a /\ rows[2] = b
      BY <2>3 DEF Ids
    <2> QED
      BY <2>3, <2>4, Zenon DEF RowsHaveIds
  <1> QED
    BY <1>2, <1>3

\* Every step leaves rows with an id.
LEMMA StepKeepsIds == Inv /\ RowsHaveIds /\ [OfferNext]_offerVars => RowsHaveIds'
  <1>1. ASSUME RowsHaveIds, UNCHANGED rows
        PROVE  RowsHaveIds'
    BY <1>1 DEF RowsHaveIds, Ids
  <1>2. PruneOldChanges \/ UNCHANGED offerVars => UNCHANGED rows
    BY DEF PruneOldChanges, offerVars, tables
  <1> QED
    BY <1>1, <1>2, PollKeepsIds, MergeKeepsIds DEF OfferNext

\* A price and discounts, each possibly None.
Priced(r) ==
    /\ r.price \in Int \cup {None}
    /\ r.discounts \in Seq(Sized) \cup {None}

RowsArePriced ==
    \A i \in Ids : Priced(rows[i])

\* What a page says is a price and discounts.
LEMMA PagesArePriced ==
    ASSUME PagesAreWhole, NEW page \in Pages, NEW r, r.price = Quote(page),
           r.discounts = discounts_to_json(Reported(page))
    PROVE  Priced(r)
  <1>1. Quote(page) \in Int \cup {None}
    <2>1. CASE page.list = None
      BY <2>1 DEF Quote, Asked
    <2>2. CASE page.list # None
      BY <2>2, AskedFacts, PagesAssumption DEF Quote
    <2> QED
      BY <2>1, <2>2
  <1>2. discounts_to_json(Reported(page)) \in {None, Stored(page)}
    BY DEF Reported, Stored, discounts_to_json
  <1>3. Stored(page) \in Seq(Sized)
    BY StoredFacts
  <1> QED
    BY <1>1, <1>2, <1>3 DEF Priced

\* A poll gives a listed row a page's offer, and keeps that of every other.
LEMMA PollKeepsPriced ==
    ASSUME PagesAreWhole, Inv, RowsArePriced, NEW listed \in Listings, Poll(listed)
    PROVE  RowsArePriced'
  <1>1. PICK told \in SUBSET Moved(listed), held \in SUBSET Repriced(listed) :
           rows' = [i \in Ids \cup Fresh(listed) |-> RowAfter(listed, told, held, i)]
    BY PollShape
  <1>2. /\ Ids' = Ids \cup Fresh(listed)
        /\ \A i \in Ids' : rows'[i] = RowAfter(listed, told, held, i)
    BY <1>1, Zenon DEF Ids
  <1>3. listed \subseteq Pages
    BY DEF Listings, kSubset
  <1>4. \A i \in Ids : DOMAIN rows[i] = RowFields /\ Priced(rows[i])
    BY DEF Inv, RowsAreOld, OldRow, RowsArePriced
  <1>5. ASSUME NEW i \in Fresh(listed)
        PROVE  Priced(rows'[i])
    <2>1. PICK page, blank : page = NewPages(listed)[i - LastId] /\ blank = Blank(i, page)
      OBVIOUS
    <2>2. page \in Pages
      BY <1>3, <2>1, FreshFacts
    <2>3. rows'[i] = Copied(blank, page)
      BY <1>2, <2>1, Zenon DEF RowAfter, Inserted
    <2>4. DOMAIN blank = RowFields
      BY <2>1 DEF Blank, RowFields
    <2>5. PICK new : new = rows'[i]
      OBVIOUS
    <2>6. new.price = Quote(page) /\ new.discounts = discounts_to_json(Reported(page))
      BY <2>3, <2>4, <2>5 DEF Copied, RowFields
    <2> QED
      BY <2>2, <2>5, <2>6, PagesArePriced
  <1>6. ASSUME NEW i \in Known(listed)
        PROVE  Priced(rows'[i])
    <2>1. PICK page : page = PageOf(listed, i)
      OBVIOUS
    <2>2. i \in Ids /\ page \in Pages /\ i \notin Fresh(listed)
      BY <2>1, KnownFacts, FreshFacts
    <2>3. PICK old, new : old = rows[i] /\ new = rows'[i]
      OBVIOUS
    <2>4. new = Seen(old, page, i \in told, i \in held)
      BY <1>2, <2>1, <2>2, <2>3, Zenon DEF RowAfter
    <2>5. DOMAIN old = RowFields /\ Priced(old)
      BY <1>4, <2>2, <2>3
    <2>6. PICK failed : failed = (i \in held)
      OBVIOUS
    <2>7. /\ new.price = PriceAfter(old, page, failed)
          /\ new.discounts = discounts_to_json(Reported(page))
      BY <2>4, <2>5, <2>6, SeenOffer
    <2>8. PICK quoting : quoting = [price |-> Quote(page), discounts |-> new.discounts]
      OBVIOUS
    <2>9. Priced(quoting)
      BY <2>2, <2>7, <2>8, PagesArePriced
    <2>10. new.price = old.price \/ new.price = Quote(page)
      BY <2>7 DEF PriceAfter
    <2> QED
      BY <2>3, <2>5, <2>8, <2>9, <2>10 DEF Priced
  <1>7. ASSUME NEW i \in Ids, i \notin Known(listed)
        PROVE  Priced(rows'[i])
    <2>1. i \notin Fresh(listed) /\ i \in Ids'
      BY <1>2, <1>7, FreshFacts
    <2>2. PICK old, new : old = rows[i] /\ new = rows'[i]
      OBVIOUS
    <2>3. new = Unlisted(old) \/ new = old
      BY <1>2, <1>7, <2>1, <2>2, Zenon DEF RowAfter
    <2>4. DOMAIN old = RowFields /\ Priced(old)
      BY <1>4, <2>2
    <2>5. new.price = old.price /\ new.discounts = old.discounts
      BY <2>3, <2>4 DEF Unlisted, RowFields
    <2> QED
      BY <2>2, <2>4, <2>5 DEF Priced
  <1>8. \A i \in Ids' : i \in Fresh(listed) \/ i \in Known(listed)
                      \/ (i \in Ids /\ i \notin Known(listed))
    BY <1>2
  <1> QED
    BY <1>5, <1>6, <1>7, <1>8 DEF RowsArePriced

\* The survivor of a merge has the newest row's offer.
LEMMA MergeKeepsPriced ==
    ASSUME Inv, RowsArePriced, MergeDuplicates
    PROVE  RowsArePriced'
  <1>1. /\ Ids' = Survivors /\ Survivors \subseteq Ids
        /\ \A i \in Survivors : rows'[i] = FastForwarded(i)
    BY MergedRows, SurvivorFacts DEF MergeDuplicates
  <1>2. ASSUME NEW i \in Survivors
        PROVE  Priced(rows'[i])
    <2>1. i \in Ids /\ Newest(i) \in Ids
      BY <1>1, GroupFacts
    <2>2. PICK old, newest, new : old = rows[i] /\ newest = rows[Newest(i)] /\ new = rows'[i]
      OBVIOUS
    <2>3. DOMAIN old = RowFields /\ Priced(newest)
      BY <2>1, <2>2 DEF Inv, RowsAreOld, OldRow, RowsArePriced
    <2>4. new = [old EXCEPT !.code = newest.code, !.variant = newest.variant,
                            !.price = newest.price, !.discounts = newest.discounts,
                            !.stock = newest.stock, !.delivery = newest.delivery,
                            !.rating = newest.rating, !.last_seen = newest.last_seen]
      BY <1>1, <2>2 DEF FastForwarded
    <2>5. new.price = newest.price /\ new.discounts = newest.discounts
      BY <2>3, <2>4 DEF RowFields
    <2> QED
      BY <2>2, <2>3, <2>5 DEF Priced
  <1> QED
    BY <1>1, <1>2 DEF RowsArePriced

\* A legacy row has the page's list price and no offer fields.
LEMMA InitPriced == OfferInit => RowsArePriced
  <1> SUFFICES ASSUME OfferInit
               PROVE  RowsArePriced
    OBVIOUS
  <1>1. ASSUME NEW id, NEW page \in Pages, NEW last, NEW r, r = Legacy(id, page, last)
        PROVE  Priced(r)
    <2>1. PICK blank : blank = Blank(id, page)
      OBVIOUS
    <2>2. DOMAIN blank = RowFields /\ blank.discounts = None
      BY <2>1 DEF Blank, RowFields
    <2>3. r.price = page.list /\ r.discounts = None
      BY <1>1, <2>1, <2>2 DEF Legacy, RowFields
    <2>4. page.list \in Nat \cup {None}
      BY PagesAssumption
    <2> QED
      BY <2>3, <2>4 DEF Priced
  <1>2. CASE rows = <<>>
    BY <1>2 DEF RowsArePriced, Ids
  <1>3. CASE rows # <<>>
    <2>1. PICK p \in Pages, q \in Pages, last \in 1 .. 2 :
             rows = <<Legacy(1, p, IF last = 1 THEN 2 ELSE 0), Legacy(2, q, last)>>
      BY <1>3 DEF OfferInit
    <2>2. PICK a, b : a = Legacy(1, p, IF last = 1 THEN 2 ELSE 0) /\ b = Legacy(2, q, last)
      OBVIOUS
    <2>3. rows = <<a, b>> /\ Priced(a) /\ Priced(b)
      BY <1>1, <2>1, <2>2
    <2>4. Ids = {1, 2} /\ rows[1] = a /\ rows[2] = b
      BY <2>3 DEF Ids
    <2> QED
      BY <2>3, <2>4, Zenon DEF RowsArePriced
  <1> QED
    BY <1>2, <1>3

\* Every step leaves rows with a price.
LEMMA StepKeepsPriced ==
    ASSUME PagesAreWhole
    PROVE  Inv /\ RowsArePriced /\ [OfferNext]_offerVars => RowsArePriced'
  <1>1. ASSUME RowsArePriced, UNCHANGED rows
        PROVE  RowsArePriced'
    BY <1>1 DEF RowsArePriced, Ids
  <1>2. PruneOldChanges \/ UNCHANGED offerVars => UNCHANGED rows
    BY DEF PruneOldChanges, offerVars, tables
  <1> QED
    BY <1>1, <1>2, PollKeepsPriced, MergeKeepsPriced DEF OfferNext

\* What an audience is shown is a number or not known.
LEMMA AudiencePriceIsANumber ==
    ASSUME NEW price \in Int \cup {None}, NEW discounts \in Seq(Sized) \cup {None},
           NEW audience, NEW quoted
    PROVE  audience_price(price, discounts, audience, quoted) \in Int \cup {None}
  <1>1. ASSUME NEW sum \in Int, NEW d \in Sized
        PROVE  Saving(sum, d) \in Int /\ Undone(sum, d) \in Int \cup {None}
    <2>1. CASE d.amount # None
      BY <2>1 DEF Saving, Undone, Sized
    <2>2. CASE d.amount = None
      <3>1. d.percent \in (0 .. 100) \cup {None}
        BY DEF Sized
      <3>2. ASSUME NEW n \in 0 .. 100, d.percent = n
            PROVE  Saving(sum, d) \in Int
        <4>1. PICK x \in Int : x = sum * n
          OBVIOUS
        <4>2. n # None
          BY NullAssumption
        <4>3. Saving(sum, d) = x \div 100
          BY <2>2, <3>2, <4>1, <4>2 DEF Saving
        <4> QED
          BY <4>3
      <3>3. ASSUME NEW n \in 1 .. 99, d.percent = n
            PROVE  Undone(sum, d) \in Int
        <4>1. PICK x \in Int, y \in Int : x = sum * 100 /\ y = 100 - n /\ y > 0
          OBVIOUS
        <4>2. Undone(sum, d) = x \div y
          BY <2>2, <3>3, <4>1 DEF Undone
        <4>3. x \div y \in Int
          BY <4>1
        <4> QED
          BY <4>2, <4>3
      <3>4. d.percent = None => Saving(sum, d) = 0
        BY <2>2 DEF Saving
      <3>5. d.percent \notin 1 .. 99 => Undone(sum, d) = None
        BY <2>2 DEF Undone
      <3>6. Saving(sum, d) \in Int
        BY <3>1, <3>2, <3>4
      <3>7. Undone(sum, d) \in Int \cup {None}
        BY <3>3, <3>5
      <3> QED
        BY <3>6, <3>7
    <2> QED
      BY <2>1, <2>2
  <1>2. ASSUME discounts # None, NEW n \in DOMAIN discounts
        PROVE  discounts[n] \in Sized
    BY <1>2
  <1>3. list_price(price, discounts, quoted) \in Int \cup {None}
    <2>1. CASE price = None \/ quoted = "any" \/ discounts = None
      BY <2>1 DEF list_price
    <2>2. CASE price # None /\ quoted # "any" /\ discounts # None
      <3>1. PICK taken : taken = For(discounts, quoted)
        OBVIOUS
      <3>2. CASE taken = {}
        BY <2>2, <3>1, <3>2 DEF list_price
      <3>3. ASSUME NEW n, taken = {n}
            PROVE  list_price(price, discounts, quoted) \in Int \cup {None}
        <4>1. n \in DOMAIN discounts /\ (CHOOSE m \in {n} : TRUE) = n
          BY <3>1, <3>3 DEF For
        <4>2. list_price(price, discounts, quoted) = Undone(price, discounts[n])
          BY <2>2, <3>1, <3>3, <4>1 DEF list_price
        <4> QED
          BY <1>1, <1>2, <2>2, <4>1, <4>2
      <3>4. CASE taken # {} /\ ~ \E n : taken = {n}
        BY <2>2, <3>1, <3>4 DEF list_price
      <3> QED
        BY <3>2, <3>3, <3>4
    <2> QED
      BY <2>1, <2>2
  <1>4. CASE price = None \/ quoted = audience
    BY <1>4 DEF audience_price
  <1>5. CASE ~ (price = None \/ quoted = audience)
    <2>1. PICK base : base = list_price(price, discounts, quoted)
      OBVIOUS
    <2>2. CASE base = None \/ discounts = None
      BY <1>5, <2>1, <2>2 DEF audience_price
    <2>3. CASE base # None /\ discounts # None
      <3>1. base \in Int
        BY <1>3, <2>1, <2>3
      <3>2. PICK F : F = For(discounts, audience)
        OBVIOUS
      <3>3. IsFiniteSet(F) /\ F \subseteq DOMAIN discounts
        <4>1. F \in SUBSET DOMAIN discounts
          BY <3>2 DEF For
        <4>2. PICK k \in Int : DOMAIN discounts = 1 .. k
          BY <2>3
        <4>3. IsFiniteSet(1 .. k)
          BY FS_Interval
        <4> QED
          BY <4>1, <4>2, <4>3, FS_Subset
      <3>4. PICK saving : saving = [n \in F |-> Saving(base, discounts[n])]
        OBVIOUS
      <3>5. PICK T : T = {saving[n] : n \in F}
        OBVIOUS
      <3>6. IsFiniteSet(T) /\ T \subseteq Int
        <4>1. \A n \in F : saving[n] \in Int
          BY <1>1, <1>2, <2>3, <3>1, <3>3, <3>4
        <4>2. saving \in [F -> T]
          BY <3>4, <3>5
        <4> QED
          BY <3>3, <3>5, <4>1, <4>2, FiniteRange
      <3>7. Best(base, discounts, audience) = Max(T \cup {0})
        <4>1. {Saving(base, discounts[n]) : n \in F} = T
          BY <3>4, <3>5
        <4> QED
          BY <3>2, <4>1 DEF Best
      <3>8. Best(base, discounts, audience) \in Int
        <4>1. PICK U : U = T \cup {0}
          OBVIOUS
        <4>2. IsFiniteSet(U)
          BY <3>6, <4>1, FS_AddElement
        <4>3. U \in SUBSET Int /\ U # {}
          BY <3>6, <4>1
        <4>4. \E x \in U : \A y \in U : x >= y
          BY <4>2, <4>3, GreatestOfFinite
        <4>5. Max(U) \in U
          BY <4>4, Zenon DEF Max
        <4> QED
          BY <3>7, <4>1, <4>3, <4>5
      <3>9. PICK left : left = base - Best(base, discounts, audience) /\ left \in Int
        BY <3>1, <3>8
      <3>10. audience_price(price, discounts, audience, quoted) = Max({left, 0})
        BY <1>5, <2>1, <2>3, <3>9 DEF audience_price
      <3>11. Max({left, 0}) \in {left, 0}
        <4>1. \E x \in {left, 0} : \A y \in {left, 0} : x >= y
          BY <3>9
        <4> QED
          BY <4>1, Zenon DEF Max
      <3> QED
        BY <3>9, <3>10, <3>11
    <2> QED
      BY <2>2, <2>3
  <1> QED
    BY <1>4, <1>5

\* sorted(), by the time a product was first seen, lists each product once.
LEMMA SeenOnce ==
    ASSUME NEW P, IsFiniteSet(P),
           \A p \in P : p.id \in Int /\ p.first_seen \in Int,
           \A p, q \in P : p.id = q.id => p = q,
           NEW s, s = InOrder(P, SeenBefore)
    PROVE  Lists(s, P)
  <1>1. PICK R : R = {e \in P \X P : SeenBefore(e[1], e[2])}
    OBVIOUS
  <1>2. \A p, q \in P : <<p, q>> \in R <=> SeenBefore(p, q)
    BY <1>1, Zenon
  <1>3. StrictOrder(R, P)
    <2>1. ASSUME NEW p \in P, NEW q \in P, NEW r \in P
          PROVE  /\ ~ SeenBefore(p, p)
                 /\ SeenBefore(p, q) /\ SeenBefore(q, r) => SeenBefore(p, r)
                 /\ p # q => SeenBefore(p, q) \/ SeenBefore(q, p)
      <3>1. PICK a, b, c : a = p.first_seen /\ b = q.first_seen /\ c = r.first_seen
        OBVIOUS
      <3>2. PICK i, j, k : i = p.id /\ j = q.id /\ k = r.id
        OBVIOUS
      <3>3. a \in Int /\ b \in Int /\ c \in Int /\ i \in Int /\ j \in Int /\ k \in Int
        BY <3>1, <3>2
      <3>4. p # q => i # j
        BY <3>2
      <3>5. /\ SeenBefore(p, p) <=> (a < a \/ (a = a /\ i < i))
            /\ SeenBefore(p, q) <=> (a < b \/ (a = b /\ i < j))
            /\ SeenBefore(q, p) <=> (b < a \/ (b = a /\ j < i))
            /\ SeenBefore(q, r) <=> (b < c \/ (b = c /\ j < k))
            /\ SeenBefore(p, r) <=> (a < c \/ (a = c /\ i < k))
        BY <3>1, <3>2, Zenon DEF SeenBefore
      <3> QED
        BY <3>3, <3>4, <3>5
    <2> QED
      BY <1>2, <2>1, Zenon DEF StrictOrder
  <1>4. \A p \in P : Before(P, R, p) = {q \in P : SeenBefore(q, p)}
    BY <1>2, Zenon DEF Before
  <1>5. PICK rank, k : rank = Ranking(P, R) /\ k = Cardinality(P)
    OBVIOUS
  <1>6. Numbers(rank, P, R)
    BY <1>3, <1>5, RanksCount
  <1>7. DOMAIN s = 1 .. k
    BY <1>5 DEF InOrder
  <1>8. ASSUME NEW n \in 1 .. k
        PROVE  s[n] \in P /\ Cardinality(Before(P, R, s[n])) = n - 1
    <2>1. s[n] = CHOOSE p \in P : Cardinality({q \in P : SeenBefore(q, p)}) = n - 1
      BY <1>5 DEF InOrder
    <2>2. n - 1 \in 0 .. k - 1
      BY <1>5, <1>6 DEF Numbers
    <2>3. PICK p \in P : rank[p] = n - 1
      BY <1>5, <1>6, <2>2 DEF Numbers
    <2>4. Cardinality({q \in P : SeenBefore(q, p)}) = n - 1
      BY <1>4, <1>5, <2>3 DEF Ranking
    <2>5. s[n] \in P /\ Cardinality({q \in P : SeenBefore(q, s[n])}) = n - 1
      BY <2>1, <2>4, Zenon
    <2> QED
      BY <1>4, <2>5, Zenon
  <1> QED
    BY <1>3, <1>5, <1>7, <1>8, ByRank

\* v lists the variants of the products P, each once.
VariantsOf(v, P) ==
    /\ DOMAIN v \subseteq Nat /\ IsFiniteSet(DOMAIN v)
    /\ \A p \in P : \E i \in DOMAIN v : v[i] = p.variant
    /\ \A i, j \in DOMAIN v : v[i] = v[j] => i = j

\* The variants are those of the products, each once.
LEMMA VariantsOnce ==
    ASSUME NEW P, IsFiniteSet(P),
           \A p \in P : p.id \in Int /\ p.first_seen \in Int,
           \A p, q \in P : p.id = q.id => p = q,
           NEW v, v = Variants(P)
    PROVE  VariantsOf(v, P)
  <1>1. PICK seen : seen = InOrder(P, SeenBefore)
    OBVIOUS
  <1>2. Lists(seen, P)
    BY <1>1, SeenOnce
  <1>3. PICK opening : opening =
           {n \in DOMAIN seen : \A m \in 1 .. n - 1 : seen[m].variant # seen[n].variant}
    OBVIOUS
  <1>4. PICK first : first = Ascending(opening)
    OBVIOUS
  <1>5. v = [i \in DOMAIN first |-> seen[first[i]].variant]
    BY <1>1, <1>3, <1>4 DEF Variants
  <1>6. PICK k \in Nat : DOMAIN seen = 1 .. k
    BY <1>2 DEF Lists
  <1>7. opening \in SUBSET Nat /\ IsFiniteSet(opening)
    <2>1. opening \in SUBSET (1 .. k)
      BY <1>3, <1>6
    <2>2. IsFiniteSet(1 .. k)
      BY <1>6, FS_Interval
    <2>3. IsFiniteSet(opening)
      BY <2>1, <2>2, FS_Subset
    <2>4. 1 .. k \subseteq Nat
      BY <1>6
    <2> QED
      BY <2>1, <2>3, <2>4
  <1>8. PICK c \in Nat : c = Cardinality(opening) /\ DOMAIN first = 1 .. c
    BY <1>4, <1>7, SortedNumbers
  <1>9. /\ \A i \in 1 .. c : first[i] \in opening
        /\ \A i, j \in 1 .. c : i < j => first[i] < first[j]
        /\ \A n \in opening : \E i \in 1 .. c : first[i] = n
    <2>1. first \in [1 .. c -> opening]
      BY <1>4, <1>7, <1>8, SortedNumbers
    <2>2. \A i, j \in 1 .. c : i < j => first[i] < first[j]
      BY <1>4, <1>7, <1>8, SortedNumbers
    <2>3. \A n \in opening : /\ Cardinality(Below(opening, n)) + 1 \in 1 .. c
                             /\ first[Cardinality(Below(opening, n)) + 1] = n
      BY <1>4, <1>7, <1>8, SortedNumbers
    <2> QED
      BY <2>1, <2>2, <2>3, Zenon
  <1>10. \A i \in 1 .. c : v[i] = seen[first[i]].variant
    BY <1>5, <1>8
  <1>11. ASSUME NEW p \in P
         PROVE  \E i \in 1 .. c : v[i] = p.variant
    <2>1. PICK S : S = {n \in 1 .. k : seen[n].variant = p.variant}
      OBVIOUS
    <2>2. S \in SUBSET Nat /\ S # {}
      <3>1. PICK n \in 1 .. k : seen[n] = p
        BY <1>2, <1>6 DEF Lists
      <3> QED
        BY <2>1, <3>1
    <2>3. PICK n \in S : \A m \in S : n <= m
      BY <2>2, LeastOf
    <2>4. n \in 1 .. k /\ seen[n].variant = p.variant
      BY <2>1
    <2>5. \A m \in 1 .. n - 1 : seen[m].variant # seen[n].variant
      <3>1. SUFFICES ASSUME NEW m \in 1 .. n - 1, seen[m].variant = p.variant
                     PROVE  FALSE
        BY <2>4
      <3>2. m \in S
        BY <1>6, <2>1, <2>4, <3>1
      <3>3. n <= m
        BY <2>3, <3>2
      <3> QED
        BY <2>4, <3>3
    <2>6. n \in opening
      BY <1>3, <1>6, <2>4, <2>5
    <2>7. PICK i \in 1 .. c : first[i] = n
      BY <1>9, <2>6
    <2> QED
      BY <1>10, <2>4, <2>7
  <1>12. ASSUME NEW i \in 1 .. c, NEW j \in 1 .. c, i < j
         PROVE  v[i] # v[j]
    <2>1. PICK m, n : m = first[i] /\ n = first[j]
      OBVIOUS
    <2>2. m \in opening /\ n \in opening /\ m < n
      BY <1>9, <1>12, <2>1
    <2>3. m \in 1 .. n - 1 /\ \A l \in 1 .. n - 1 : seen[l].variant # seen[n].variant
      BY <1>3, <1>6, <2>2
    <2>4. seen[m].variant # seen[n].variant
      BY <2>3
    <2> QED
      BY <1>10, <2>1, <2>4
  <1>13. \A i, j \in 1 .. c : v[i] = v[j] => i = j
    BY <1>8, <1>12
  <1>14. DOMAIN v = 1 .. c /\ IsFiniteSet(DOMAIN v)
    BY <1>5, <1>8, FS_Interval
  <1> QED
    BY <1>8, <1>11, <1>13, <1>14 DEF VariantsOf

\* sorted(), by what they cost to start with, lists each offer once and in order.
LEMMA OffersInOrder ==
    ASSUME NEW O, IsFiniteSet(O),
           \A o \in O : o.id \in Int /\ ToStart(o) \in Int \cup {None},
           \A o, u \in O : o.id = u.id => o = u,
           NEW s, s = InOrder(O, Cheaper)
    PROVE  /\ Lists(s, O)
           /\ \A m, n \in DOMAIN s : m < n => Cheaper(s[m], s[n])
  <1>1. PICK R : R = {e \in O \X O : Cheaper(e[1], e[2])}
    OBVIOUS
  <1>2. \A o, u \in O : <<o, u>> \in R <=> Cheaper(o, u)
    BY <1>1, Zenon
  <1>3. StrictOrder(R, O)
    <2>1. ASSUME NEW o \in O, NEW u \in O, NEW w \in O
          PROVE  /\ ~ Cheaper(o, o)
                 /\ Cheaper(o, u) /\ Cheaper(u, w) => Cheaper(o, w)
                 /\ o # u => Cheaper(o, u) \/ Cheaper(u, o)
      <3>1. PICK a, b, c : a = ToStart(o) /\ b = ToStart(u) /\ c = ToStart(w)
        OBVIOUS
      <3>2. PICK i, j, k : i = o.id /\ j = u.id /\ k = w.id
        OBVIOUS
      <3>3. /\ a \in Int \cup {None} /\ b \in Int \cup {None} /\ c \in Int \cup {None}
            /\ i \in Int /\ j \in Int /\ k \in Int
        BY <3>1, <3>2
      <3>4. o # u => i # j
        BY <3>2
      <3>5. /\ Cheaper(o, o) <=>
                  (a # None /\ (a = None \/ a < a)) \/ (a = a /\ i < i)
            /\ Cheaper(o, u) <=>
                  (a # None /\ (b = None \/ a < b)) \/ (a = b /\ i < j)
            /\ Cheaper(u, o) <=>
                  (b # None /\ (a = None \/ b < a)) \/ (b = a /\ j < i)
            /\ Cheaper(u, w) <=>
                  (b # None /\ (c = None \/ b < c)) \/ (b = c /\ j < k)
            /\ Cheaper(o, w) <=>
                  (a # None /\ (c = None \/ a < c)) \/ (a = c /\ i < k)
        BY <3>1, <3>2, Zenon DEF Cheaper
      <3> QED
        BY <3>3, <3>4, <3>5
    <2> QED
      BY <1>2, <2>1, Zenon DEF StrictOrder
  <1>4. \A o \in O : Before(O, R, o) = {u \in O : Cheaper(u, o)}
    BY <1>2, Zenon DEF Before
  <1>5. PICK rank, k : rank = Ranking(O, R) /\ k = Cardinality(O)
    OBVIOUS
  <1>6. Numbers(rank, O, R)
    BY <1>3, <1>5, RanksCount
  <1>7. DOMAIN s = 1 .. k
    BY <1>5 DEF InOrder
  <1>8. ASSUME NEW n \in 1 .. k
        PROVE  s[n] \in O /\ Cardinality(Before(O, R, s[n])) = n - 1
    <2>1. s[n] = CHOOSE o \in O : Cardinality({u \in O : Cheaper(u, o)}) = n - 1
      BY <1>5 DEF InOrder
    <2>2. n - 1 \in 0 .. k - 1
      BY <1>5, <1>6 DEF Numbers
    <2>3. PICK o \in O : rank[o] = n - 1
      BY <1>5, <1>6, <2>2 DEF Numbers
    <2>4. Cardinality({u \in O : Cheaper(u, o)}) = n - 1
      BY <1>4, <1>5, <2>3 DEF Ranking
    <2>5. s[n] \in O /\ Cardinality({u \in O : Cheaper(u, s[n])}) = n - 1
      BY <2>1, <2>4, Zenon
    <2> QED
      BY <1>4, <2>5, Zenon
  <1>9. Lists(s, O) /\ \A m, n \in DOMAIN s : m < n => <<s[m], s[n]>> \in R
    BY <1>3, <1>5, <1>7, <1>8, ByRank
  <1> QED
    BY <1>2, <1>9 DEF Lists

\* The rows a watch offers: those in stock, which are as many as they have ids.
LEMMA OfferedRows ==
    ASSUME Inv, RowsHaveIds, RowsArePriced,
           NEW A, A = Available({rows[i] : i \in Ids}, None, None)
    PROVE  /\ IsFiniteSet(A)
           /\ \A i \in Ids : rows[i].stock => rows[i] \in A
           /\ \A p \in A : \E i \in Ids : p = rows[i] /\ rows[i].stock
           /\ \A p \in A : p.id \in Int /\ p.first_seen \in Int /\ Priced(p)
           /\ \A p, q \in A : p.id = q.id => p = q
  <1>1. PICK P : P = {rows[i] : i \in Ids}
    OBVIOUS
  <1>2. A = {p \in P : p.stock /\ ~p.archived}
    BY <1>1, Zenon DEF Available
  <1>3. PICK k \in Nat : Ids \subseteq 1 .. k
    BY DEF Inv, RowsAreOld
  <1>4. \A i \in Ids : /\ rows[i].id = i /\ i \in Int /\ Priced(rows[i])
                       /\ rows[i].first_seen \in Int /\ ~ rows[i].archived
    <2>1. \A i \in Ids : i \in Int
      BY <1>3
    <2> QED
      BY <2>1 DEF Inv, RowsAreOld, OldRow, RowsHaveIds, RowsArePriced
  <1>5. IsFiniteSet(A)
    <2>1. IsFiniteSet(Ids)
      BY <1>3, FS_Interval, FS_Subset
    <2>2. PICK f : f = [i \in Ids |-> rows[i]]
      OBVIOUS
    <2>3. {f[i] : i \in Ids} = P
      BY <1>1, <2>2
    <2>4. f \in [Ids -> {f[i] : i \in Ids}]
      BY <2>2
    <2>5. IsFiniteSet(P)
      BY <2>1, <2>3, <2>4, FiniteRange
    <2> QED
      BY <1>2, <2>5, FS_Subset
  <1>6. \A i \in Ids : rows[i].stock => rows[i] \in A
    BY <1>1, <1>2, <1>4, Zenon
  <1>7. \A p \in A : \E i \in Ids : p = rows[i] /\ rows[i].stock
    BY <1>1, <1>2, Zenon
  <1>8. ASSUME NEW p \in A
        PROVE  p.id \in Int /\ p.first_seen \in Int /\ Priced(p)
    <2>1. PICK i \in Ids : p = rows[i]
      BY <1>7
    <2> QED
      BY <1>4, <2>1
  <1>9. ASSUME NEW p \in A, NEW q \in A, p.id = q.id
        PROVE  p = q
    <2>1. PICK i \in Ids : p = rows[i]
      BY <1>7
    <2>2. PICK j \in Ids : q = rows[j]
      BY <1>7
    <2>3. i = j
      BY <1>4, <1>9, <2>1, <2>2
    <2> QED
      BY <2>1, <2>2, <2>3
  <1> QED
    BY <1>5, <1>6, <1>7, <1>8, <1>9

\* s lists the offers of the rows in stock of a variant, each once, in order.
OffersOf(s, variant) ==
    /\ DOMAIN s \subseteq Nat
    /\ \A n \in DOMAIN s : \E i \in Ids :
          /\ rows[i].stock /\ rows[i].variant = variant
          /\ s[n] = offer_dict(rows[i]) /\ s[n].id = i
    /\ \A i \in Ids : rows[i].stock /\ rows[i].variant = variant =>
          \E n \in DOMAIN s : s[n] = offer_dict(rows[i])
    /\ \A m, n \in DOMAIN s : s[m].id = s[n].id => m = n
    /\ \A m, n \in DOMAIN s : m < n =>
          /\ Cheaper(s[m], s[n])
          /\ ToStart(s[m]) \in Int \cup {None} /\ ToStart(s[n]) \in Int \cup {None}

\* The offers of a variant, in order, are those of its rows in stock.
LEMMA OffersOfVariant ==
    ASSUME Inv, RowsHaveIds, RowsArePriced,
           NEW A, A = Available({rows[i] : i \in Ids}, None, None), NEW variant,
           NEW s, s = InOrder({offer_dict(p) : p \in {q \in A : q.variant = variant}}, Cheaper)
    PROVE  OffersOf(s, variant)
  <1>1. PICK B : B = {q \in A : q.variant = variant}
    OBVIOUS
  <1>2. PICK offer : offer = [p \in B |-> offer_dict(p)]
    OBVIOUS
  <1>3. PICK O : O = {offer[p] : p \in B}
    OBVIOUS
  <1>4. IsFiniteSet(O)
    <2>1. IsFiniteSet(B)
      BY <1>1, OfferedRows, FS_Subset
    <2>2. offer \in [B -> {offer[p] : p \in B}]
      BY <1>2
    <2> QED
      BY <1>3, <2>1, <2>2, FiniteRange
  <1>5. O = {offer_dict(p) : p \in {q \in A : q.variant = variant}}
    BY <1>1, <1>2, <1>3
  <1>6. ASSUME NEW p
        PROVE  /\ offer_dict(p).id = p.id /\ offer_dict(p).price = p.price
               /\ offer_dict(p).new =
                     audience_price(p.price, p.discounts, "new_customer", p.price_audience)
    BY DEF offer_dict
  <1>7. ASSUME NEW o \in O
        PROVE  \E p \in A : /\ p.variant = variant /\ o = offer_dict(p) /\ o.id = p.id
                            /\ o.id \in Int /\ ToStart(o) \in Int \cup {None}
    <2>1. PICK p \in A : p.variant = variant /\ o = offer_dict(p)
      BY <1>5, Zenon
    <2>2. /\ p.price \in Int \cup {None} /\ p.discounts \in Seq(Sized) \cup {None}
          /\ p.id \in Int
      BY OfferedRows DEF Priced
    <2>3. o.id = p.id /\ o.price = p.price
      BY <1>6, <2>1
    <2>4. o.new \in Int \cup {None}
      <3>1. audience_price(p.price, p.discounts, "new_customer", p.price_audience)
               \in Int \cup {None}
        BY <2>2, AudiencePriceIsANumber
      <3> QED
        BY <1>6, <2>1, <3>1, Zenon
    <2>5. ToStart(o) \in Int \cup {None}
      BY <2>2, <2>3, <2>4 DEF ToStart
    <2> QED
      BY <2>1, <2>2, <2>3, <2>5
  <1>8. \A p, q \in A : p.id = q.id => p = q
    BY OfferedRows
  <1>9. ASSUME NEW o \in O, NEW u \in O, o.id = u.id
        PROVE  o = u
    <2>1. PICK p \in A : o = offer_dict(p) /\ o.id = p.id
      BY <1>7
    <2>2. PICK q \in A : u = offer_dict(q) /\ u.id = q.id
      BY <1>7
    <2>3. p = q
      BY <1>8, <1>9, <2>1, <2>2
    <2> QED
      BY <2>1, <2>2, <2>3
  <1>10. Lists(s, O) /\ \A m, n \in DOMAIN s : m < n => Cheaper(s[m], s[n])
    <2>1. \A o \in O : o.id \in Int /\ ToStart(o) \in Int \cup {None}
      BY <1>7, Zenon
    <2>2. s = InOrder(O, Cheaper)
      BY <1>5
    <2> QED
      BY <1>4, <1>9, <2>1, <2>2, OffersInOrder
  <1>11. DOMAIN s \subseteq Nat
    <2>1. PICK k \in Nat : DOMAIN s = 1 .. k
      BY <1>10 DEF Lists
    <2>2. 1 .. k \subseteq Nat
      OBVIOUS
    <2> QED
      BY <2>1, <2>2
  <1>12. ASSUME NEW n \in DOMAIN s
         PROVE  \E i \in Ids : /\ rows[i].stock /\ rows[i].variant = variant
                               /\ s[n] = offer_dict(rows[i]) /\ s[n].id = i
    <2>1. s[n] \in O
      BY <1>10 DEF Lists
    <2>2. PICK p \in A : p.variant = variant /\ s[n] = offer_dict(p) /\ s[n].id = p.id
      BY <1>7, <2>1
    <2>3. PICK i \in Ids : p = rows[i] /\ rows[i].stock
      BY OfferedRows
    <2>4. rows[i].id = i
      BY DEF RowsHaveIds
    <2> QED
      BY <2>2, <2>3, <2>4
  <1>13. ASSUME NEW i \in Ids, rows[i].stock, rows[i].variant = variant
         PROVE  \E n \in DOMAIN s : s[n] = offer_dict(rows[i])
    <2>1. rows[i] \in A
      BY <1>13, OfferedRows
    <2>2. offer_dict(rows[i]) \in O
      BY <1>5, <1>13, <2>1, Zenon
    <2> QED
      BY <1>10, <2>2, Zenon DEF Lists
  <1>14. ASSUME NEW m \in DOMAIN s, NEW n \in DOMAIN s, s[m].id = s[n].id
         PROVE  m = n
    <2>1. s[m] \in O /\ s[n] \in O
      BY <1>10 DEF Lists
    <2>2. s[m] = s[n]
      BY <1>9, <1>14, <2>1
    <2> QED
      BY <1>10, <2>2, Zenon DEF Lists
  <1>15. ASSUME NEW m \in DOMAIN s, NEW n \in DOMAIN s, m < n
         PROVE  /\ Cheaper(s[m], s[n])
                /\ ToStart(s[m]) \in Int \cup {None} /\ ToStart(s[n]) \in Int \cup {None}
    <2>1. s[m] \in O /\ s[n] \in O
      BY <1>10 DEF Lists
    <2>2. Cheaper(s[m], s[n])
      BY <1>10, <1>15
    <2> QED
      BY <1>7, <2>1, <2>2, Zenon
  <1> QED
    BY <1>11, <1>12, <1>13, <1>14, <1>15, Zenon DEF OffersOf

\* When no discount of a page needs rounding, the offers of a variant are in the
\* order of what they cost a newcomer, and none is missing or shown twice
\* (offers.py: group_offers).
THEOREM CheapestFirstAlways ==
    ASSUME PagesAreWhole
    PROVE  OfferSpec => []CheapestFirst
  <1>1. ASSUME Inv, RowsHaveIds, RowsArePriced, OfferPricesAreReal
        PROVE  CheapestFirst
    <2>1. PICK A, V : A = Available({rows[i] : i \in Ids}, None, None) /\ V = Variants(A)
      OBVIOUS
    <2>2. VariantsOf(V, A)
      <3>1. IsFiniteSet(A)
        BY <1>1, <2>1, OfferedRows
      <3>2. \A p \in A : p.id \in Int /\ p.first_seen \in Int
        BY <1>1, <2>1, OfferedRows
      <3>3. \A p, q \in A : p.id = q.id => p = q
        BY <1>1, <2>1, OfferedRows
      <3> QED
        BY <2>1, <3>1, <3>2, <3>3, VariantsOnce
    <2>3. PICK L : L = [g \in DOMAIN V |->
             InOrder({offer_dict(p) : p \in {q \in A : q.variant = V[g]}}, Cheaper)]
      OBVIOUS
    <2> DEFINE groups == group_offers({rows[i] : i \in Ids}, None, None)
    <2>5. DOMAIN groups = DOMAIN V /\ \A g \in DOMAIN V : groups[g].offers = L[g]
      BY <2>1, <2>3 DEF group_offers
    <2> HIDE DEF groups
    <2> DEFINE shown == UNION {{[at |-> <<g, n>>, offer |-> groups[g].offers[n]] :
                                  n \in DOMAIN groups[g].offers} : g \in DOMAIN groups}
    <2>6. \A s : s \in shown <=> \E g \in DOMAIN groups :
             s \in {[at |-> <<g, n>>, offer |-> groups[g].offers[n]] :
                       n \in DOMAIN groups[g].offers}
      OBVIOUS
    <2> HIDE DEF shown
    <2>7. ASSUME NEW g \in DOMAIN V
          PROVE  OffersOf(L[g], V[g])
      <3>1. PICK s, variant : s = L[g] /\ variant = V[g]
        OBVIOUS
      <3>2. s = InOrder({offer_dict(p) : p \in {q \in A : q.variant = variant}}, Cheaper)
        BY <2>3, <3>1
      <3> QED
        BY <1>1, <2>1, <3>1, <3>2, OffersOfVariant
    <2>8. ASSUME NEW s \in shown
          PROVE  \E g \in DOMAIN V : \E n \in DOMAIN L[g] : \E i \in Ids :
                    /\ s.at = <<g, n>> /\ s.offer = L[g][n]
                    /\ s = [at |-> <<g, n>>, offer |-> L[g][n]]
                    /\ rows[i].stock /\ rows[i].variant = V[g]
                    /\ s.offer = offer_dict(rows[i]) /\ s.offer.id = i
      <3>1. PICK g \in DOMAIN V : \E n \in DOMAIN L[g] : s = [at |-> <<g, n>>, offer |-> L[g][n]]
        <4>1. PICK g \in DOMAIN groups :
                 s \in {[at |-> <<g, n>>, offer |-> groups[g].offers[n]] :
                           n \in DOMAIN groups[g].offers}
          BY <2>6
        <4>2. g \in DOMAIN V /\ groups[g].offers = L[g]
          BY <2>5, <4>1
        <4>3. s \in {[at |-> <<g, n>>, offer |-> L[g][n]] : n \in DOMAIN L[g]}
          BY <4>1, <4>2
        <4> QED
          BY <4>2, <4>3
      <3>2. PICK n \in DOMAIN L[g] : s = [at |-> <<g, n>>, offer |-> L[g][n]]
        BY <3>1
      <3>3. s.at = <<g, n>> /\ s.offer = L[g][n]
        BY <3>2
      <3>4. PICK i \in Ids : /\ rows[i].stock /\ rows[i].variant = V[g]
                             /\ L[g][n] = offer_dict(rows[i]) /\ L[g][n].id = i
        BY <2>7 DEF OffersOf
      <3> QED
        BY <3>2, <3>3, <3>4, Zenon
    <2>9. {s.offer.id : s \in shown} = {i \in Ids : rows[i].stock}
      <3>1. ASSUME NEW i \in Ids, rows[i].stock
            PROVE  \E s \in shown : s.offer.id = i
        <4>1. PICK g \in DOMAIN V : V[g] = rows[i].variant
          BY <1>1, <2>1, <2>2, <3>1, OfferedRows DEF VariantsOf
        <4>2. PICK n \in DOMAIN L[g] : L[g][n] = offer_dict(rows[i])
          BY <2>7, <3>1, <4>1 DEF OffersOf
        <4>3. PICK s : s = [at |-> <<g, n>>, offer |-> L[g][n]]
          OBVIOUS
        <4>4. s \in shown
          <5>1. g \in DOMAIN groups /\ groups[g].offers = L[g]
            BY <2>5
          <5>2. s \in {[at |-> <<g, m>>, offer |-> groups[g].offers[m]] :
                          m \in DOMAIN groups[g].offers}
            BY <4>2, <4>3, <5>1
          <5> QED
            BY <2>6, <5>1, <5>2, Zenon
        <4>5. offer_dict(rows[i]).id = i
          BY <1>1 DEF offer_dict, RowsHaveIds
        <4> QED
          BY <4>2, <4>3, <4>4, <4>5
      <3>2. \A s \in shown : s.offer.id \in Ids /\ rows[s.offer.id].stock
        BY <2>8, Zenon
      <3> QED
        BY <3>1, <3>2, Zenon
    <2>10. ASSUME NEW s \in shown, NEW t \in shown, s.offer.id = t.offer.id
           PROVE  s = t
      <3>1. PICK g, n :
               /\ g \in DOMAIN V /\ n \in DOMAIN L[g]
               /\ s = [at |-> <<g, n>>, offer |-> L[g][n]] /\ s.offer = L[g][n]
               /\ rows[s.offer.id].variant = V[g]
        BY <2>8, ZenonT(30)
      <3>2. PICK h, m :
               /\ h \in DOMAIN V /\ m \in DOMAIN L[h]
               /\ t = [at |-> <<h, m>>, offer |-> L[h][m]] /\ t.offer = L[h][m]
               /\ rows[t.offer.id].variant = V[h]
        BY <2>8, ZenonT(30)
      <3>3. g = h
        <4>1. V[g] = V[h]
          BY <2>10, <3>1, <3>2
        <4> QED
          BY <2>2, <3>1, <3>2, <4>1 DEF VariantsOf
      <3>4. m = n
        BY <2>7, <2>10, <3>1, <3>2, <3>3, Zenon DEF OffersOf
      <3> QED
        BY <3>1, <3>2, <3>3, <3>4, Zenon
    <2>11. ASSUME NEW s \in shown, NEW t \in shown
           PROVE  s.at[1] = t.at[1] <=> rows[s.offer.id].variant = rows[t.offer.id].variant
      <3>1. PICK g \in DOMAIN V : s.at[1] = g /\ rows[s.offer.id].variant = V[g]
        BY <2>8
      <3>2. PICK h \in DOMAIN V : t.at[1] = h /\ rows[t.offer.id].variant = V[h]
        BY <2>8
      <3> QED
        BY <2>2, <3>1, <3>2 DEF VariantsOf
    <2> DEFINE cost(o) == IF o.new # None THEN Asked(priced[o.id], "new_customer") ELSE o.price
    <2>12. ASSUME NEW s \in shown, Agrees(s.offer.id)
           PROVE  cost(s.offer) = ToStart(s.offer)
      <3>1. PICK i \in Ids : s.offer = offer_dict(rows[i]) /\ s.offer.id = i
        BY <2>8
      <3>2. offer_dict(rows[i]).new \in {None, Asked(priced[i], "new_customer")}
        BY <1>1, <2>12, <3>1 DEF OfferPricesAreReal
      <3> QED
        BY <3>1, <3>2 DEF ToStart
    <2> HIDE DEF cost
    <2>13. ASSUME NEW s \in shown, NEW t \in shown,
                  s.at[1] = t.at[1], s.at[2] < t.at[2],
                  Agrees(s.offer.id), Agrees(t.offer.id), cost(t.offer) # None
           PROVE  cost(s.offer) # None /\ cost(s.offer) <= cost(t.offer)
      <3>1. PICK g, n : g \in DOMAIN V /\ n \in DOMAIN L[g] /\ s.at = <<g, n>> /\ s.offer = L[g][n]
        BY <2>8, ZenonT(30)
      <3>2. PICK h, m : h \in DOMAIN V /\ m \in DOMAIN L[h] /\ t.at = <<h, m>> /\ t.offer = L[h][m]
        BY <2>8, ZenonT(30)
      <3>3. g = h /\ n < m
        BY <2>13, <3>1, <3>2
      <3>4. /\ Cheaper(s.offer, t.offer)
            /\ ToStart(s.offer) \in Int \cup {None} /\ ToStart(t.offer) \in Int \cup {None}
        <4>1. m \in DOMAIN L[g] /\ t.offer = L[g][m]
          BY <3>2, <3>3
        <4> QED
          BY <2>7, <3>1, <3>3, <4>1 DEF OffersOf
      <3>5. PICK a, b : a = ToStart(s.offer) /\ b = ToStart(t.offer)
        OBVIOUS
      <3>6. a = cost(s.offer) /\ b = cost(t.offer) /\ b # None
        BY <2>12, <2>13, <3>5
      <3>7. a \in Int \cup {None} /\ b \in Int \cup {None}
        BY <3>4, <3>5
      <3>8. (a # None /\ (b = None \/ a < b)) \/ a = b
        BY <3>4, <3>5, Zenon DEF Cheaper
      <3>9. a # None /\ a <= b
        BY <3>6, <3>7, <3>8
      <3> QED
        BY <3>6, <3>9
    <2> QED
      BY <2>9, <2>10, <2>11, <2>13, Zenon DEF CheapestFirst, groups, shown, cost
  <1>2. OfferSpec => []RowsHaveIds
    BY Invariance, InitIds, StepKeepsIds, PTL DEF OfferSpec
  <1>3. OfferSpec => []RowsArePriced
    BY Invariance, InitPriced, StepKeepsPriced, PTL DEF OfferSpec
  <1> QED
    BY <1>1, <1>2, <1>3, Invariance, RealPrices, PTL

-----------------------------------------------------------------------------
(* The summary of the changes (offers.py: summarise_changes).              *)

\* What the summaries E count.
Total(E) == MapThenSumSet(LAMBDA v : v.price_changes + v.discount_changes, E)

\* The recorded changes that belong to some of the parts.
Within(part, s, C) == {c \in C : \E v \in s : c \in part[v]}

Picked(s) == CHOOSE x \in s : TRUE

\* r is a recursive function as that behind MapThenSumSet.
Sums(r, E) ==
    /\ r = [s \in SUBSET E |-> r[s]]
    /\ r[{}] = 0
    /\ \A s \in SUBSET E : s # {} =>
          r[s] = (Picked(s).price_changes + Picked(s).discount_changes) + r[s \ {Picked(s)}]

\* What each variant counts, summed, is the number of the changes that the
\* variants share out: the function that counts them is one that sums, and one
\* that sums agrees with it on the smallest set on which it would not.
LEMMA SharesAddUp ==
    ASSUME NEW E, IsFiniteSet(E), NEW C, IsFiniteSet(C), NEW part,
           \A v \in E : /\ part[v] \subseteq C
                        /\ v.price_changes + v.discount_changes = Cardinality(part[v]),
           \A v, w \in E : v # w => part[v] \cap part[w] = {},
           \A c \in C : \E v \in E : c \in part[v]
    PROVE  Total(E) = Cardinality(C)
  <1>1. ASSUME NEW s \in SUBSET E, s # {}, NEW x, x = Picked(s)
        PROVE  /\ x \in s
               /\ s \ {x} \in SUBSET E
               /\ Cardinality(Within(part, s, C)) =
                     (x.price_changes + x.discount_changes)
                        + Cardinality(Within(part, s \ {x}, C))
    <2>1. x \in s /\ x \in E
      BY <1>1 DEF Picked
    <2>2. PICK S, T : S = part[x] /\ T = Within(part, s \ {x}, C)
      OBVIOUS
    <2>3. S \subseteq C /\ T \subseteq C
      BY <2>1, <2>2 DEF Within
    <2>4. IsFiniteSet(S) /\ IsFiniteSet(T)
      BY <2>3, FS_Subset
    <2>5. S \cap T = {}
      <3>1. ASSUME NEW c \in S, c \in T
            PROVE  FALSE
        <4>1. PICK v \in s \ {x} : c \in part[v]
          BY <2>2, <3>1 DEF Within
        <4>2. v \in E /\ v # x
          BY <4>1
        <4> QED
          BY <2>1, <2>2, <3>1, <4>1, <4>2
      <3> QED
        BY <3>1
    <2>6. Within(part, s, C) = S \cup T
      BY <2>1, <2>2, <2>3 DEF Within
    <2>7. Cardinality(S \cup T) = Cardinality(S) + Cardinality(T) - Cardinality(S \cap T)
      BY <2>4, FS_Union
    <2>8. Cardinality(S \cap T) = 0
      BY <2>5, FS_EmptySet
    <2>9. Cardinality(S) \in Nat /\ Cardinality(T) \in Nat
      BY <2>4, FS_CardinalityType
    <2>10. Cardinality(S \cup T) = Cardinality(S) + Cardinality(T)
      BY <2>7, <2>8, <2>9
    <2>11. x.price_changes + x.discount_changes = Cardinality(S)
      BY <2>1, <2>2
    <2> QED
      BY <2>1, <2>2, <2>6, <2>10, <2>11
  <1>2. Cardinality(Within(part, {}, C)) = 0
    <2>1. Within(part, {}, C) = {}
      BY DEF Within
    <2> QED
      BY <2>1, FS_EmptySet
  <1>3. Within(part, E, C) = C
    BY DEF Within
  <1>4. PICK g : g = [s \in SUBSET E |-> Cardinality(Within(part, s, C))]
    OBVIOUS
  <1>5. Sums(g, E)
    <2>1. ASSUME NEW s \in SUBSET E, s # {}
          PROVE  g[s] = (Picked(s).price_changes + Picked(s).discount_changes)
                           + g[s \ {Picked(s)}]
      <3>1. PICK x : x = Picked(s)
        OBVIOUS
      <3>2. g[s] = Cardinality(Within(part, s, C))
        BY <1>4
      <3>3. g[s \ {x}] = Cardinality(Within(part, s \ {x}, C))
        BY <1>4
      <3>4. Cardinality(Within(part, s, C)) =
               (x.price_changes + x.discount_changes)
                  + Cardinality(Within(part, s \ {x}, C))
        BY <1>1, <2>1, <3>1
      <3>5. g[s] = (x.price_changes + x.discount_changes) + g[s \ {x}]
        BY <3>2, <3>3, <3>4, Zenon
      <3> QED
        BY <3>1, <3>5, Zenon
    <2>2. g = [s \in SUBSET E |-> g[s]]
      BY <1>4
    <2>3. g[{}] = 0
      BY <1>2, <1>4
    <2> QED
      BY <2>1, <2>2, <2>3, Zenon DEF Sums
  <1>6. ASSUME NEW r, Sums(r, E)
        PROVE  r[E] = g[E]
    <2>1. PICK bad : bad = {n \in Nat : \E s \in SUBSET E : Cardinality(s) = n /\ r[s] # g[s]}
      OBVIOUS
    <2>2. CASE bad = {}
      <3>1. Cardinality(E) \in Nat
        BY FS_CardinalityType
      <3> QED
        BY <2>1, <2>2, <3>1
    <2>3. CASE bad # {}
      <3>1. PICK n \in bad : \A m \in bad : n <= m
        <4>1. bad \in SUBSET Nat
          BY <2>1
        <4> QED
          BY <2>3, <4>1, LeastOf
      <3>2. PICK s \in SUBSET E : Cardinality(s) = n /\ r[s] # g[s]
        BY <2>1
      <3>3. s # {}
        <4>1. r[{}] = 0 /\ g[{}] = 0
          BY <1>5, <1>6 DEF Sums
        <4> QED
          BY <3>2, <4>1
      <3>4. PICK x : x = Picked(s)
        OBVIOUS
      <3>5. /\ r[s] = (x.price_changes + x.discount_changes) + r[s \ {x}]
            /\ g[s] = (x.price_changes + x.discount_changes) + g[s \ {x}]
        BY <1>5, <1>6, <3>3, <3>4, Zenon DEF Sums
      <3>6. x \in s /\ s \ {x} \in SUBSET E
        BY <1>1, <3>3, <3>4
      <3>7. Cardinality(s \ {x}) = n - 1 /\ n \in Nat
        <4>1. IsFiniteSet(s)
          BY FS_Subset
        <4>2. Cardinality(s \ {x}) = Cardinality(s) - 1
          BY <3>6, <4>1, FS_RemoveElement
        <4> QED
          BY <2>1, <3>2, <4>2
      <3>8. n - 1 \in Nat
        <4>1. IsFiniteSet(s \ {x})
          BY <3>6, FS_Subset
        <4> QED
          BY <3>7, <4>1, FS_CardinalityType
      <3>9. r[s \ {x}] = g[s \ {x}]
        <4>1. n - 1 \notin bad
          BY <3>1, <3>7
        <4> QED
          BY <2>1, <3>6, <3>7, <3>8, <4>1
      <3> QED
        BY <3>2, <3>5, <3>9
    <2> QED
      BY <2>2, <2>3
  <1>7. g[E] = Cardinality(C)
    BY <1>3, <1>4
  <1> DEFINE Rec(r) == r = [s \in SUBSET E |->
                               IF s = {} THEN 0
                               ELSE LET x == CHOOSE x \in s : TRUE
                                    IN  (x.price_changes + x.discount_changes) + r[s \ {x}]]
             iter == CHOOSE r : Rec(r)
  <1>8. ASSUME NEW r
        PROVE  Rec(r) <=> Sums(r, E)
    <2>1. PICK h : h = [s \in SUBSET E |->
             IF s = {} THEN 0
             ELSE (Picked(s).price_changes + Picked(s).discount_changes)
                     + r[s \ {Picked(s)}]]
      OBVIOUS
    <2>2. Rec(r) <=> r = h
      BY <2>1 DEF Picked
    <2>3. /\ h[{}] = 0
          /\ \A s \in SUBSET E : s # {} =>
                h[s] = (Picked(s).price_changes + Picked(s).discount_changes)
                          + r[s \ {Picked(s)}]
      BY <2>1
    <2>4. h = [s \in SUBSET E |-> h[s]]
      BY <2>1
    <2>5. r = h => Sums(r, E)
      BY <2>3, <2>4, Zenon DEF Sums
    <2>6. ASSUME Sums(r, E)
          PROVE  r = h
      <3>1. \A s \in SUBSET E : r[s] = h[s]
        BY <2>3, <2>6, Zenon DEF Sums
      <3>2. [s \in SUBSET E |-> r[s]] = [s \in SUBSET E |-> h[s]]
        BY <3>1, Zenon
      <3> QED
        BY <2>4, <2>6, <3>2, Zenon DEF Sums
    <2> QED
      BY <2>2, <2>5, <2>6
  <1>9. Total(E) = iter[E]
    BY DEF Total, MapThenSumSet, MapThenFoldSet
  <1> HIDE DEF Rec
  <1>10. Rec(iter)
    BY <1>5, <1>8, Zenon
  <1>11. iter[E] = Cardinality(C)
    BY <1>6, <1>7, <1>8, <1>10
  <1> QED
    BY <1>9, <1>11, Zenon

\* When each change has a row, the summary counts each change once, whatever
\* variants the rows share.
LEMMA CountedIs ==
    ASSUME NEW table, IsFiniteSet(DOMAIN table), DOMAIN table \subseteq Int,
           \A i \in DOMAIN table : table[i].id = i /\ table[i].first_seen \in Int,
           NEW recorded, IsFiniteSet(recorded),
           \A c \in recorded : c.product \in DOMAIN table /\ c.field \in {"price", "discounts"}
    PROVE  Counted(table, recorded) = Cardinality(recorded)
  <1>1. PICK P : P = {table[i] : i \in DOMAIN table}
    OBVIOUS
  <1>2. PICK v : v = Variants(P)
    OBVIOUS
  <1>3. VariantsOf(v, P)
    <2>1. IsFiniteSet(P)
      <3>1. PICK f : f = [i \in DOMAIN table |-> table[i]]
        OBVIOUS
      <3>2. P = {f[i] : i \in DOMAIN table} /\ f \in [DOMAIN table -> {f[i] : i \in DOMAIN table}]
        BY <1>1, <3>1
      <3> QED
        BY <3>2, FiniteRange
    <2>2. \A p \in P : p.id \in Int /\ p.first_seen \in Int
      BY <1>1
    <2>3. \A p, q \in P : p.id = q.id => p = q
      BY <1>1
    <2> QED
      BY <1>2, <2>1, <2>2, <2>3, VariantsOnce
  <1>4. PICK of : of = [i \in DOMAIN v |-> {c \in recorded : table[c.product].variant = v[i]}]
    OBVIOUS
  <1>5. ASSUME NEW i \in DOMAIN v, NEW field
        PROVE  {c \in recorded : /\ c.field = field
                                 /\ \E p \in P : p.id = c.product /\ p.variant = v[i]}
                  = {c \in of[i] : c.field = field}
    <2>1. ASSUME NEW c \in recorded
          PROVE  (\E p \in P : p.id = c.product /\ p.variant = v[i])
                    <=> table[c.product].variant = v[i]
      BY <1>1
    <2> QED
      BY <1>4, <2>1
  <1> DEFINE summary == summarise_changes(P, recorded)
  <1>6. DOMAIN summary = DOMAIN v
    BY <1>2 DEF summarise_changes
  <1>7. ASSUME NEW i \in DOMAIN v
        PROVE  /\ summary[i].variant = v[i]
               /\ summary[i].price_changes = Cardinality({c \in of[i] : c.field = "price"})
               /\ summary[i].discount_changes = Cardinality({c \in of[i] : c.field = "discounts"})
    <2>1. /\ summary[i].variant = v[i]
          /\ summary[i].price_changes =
                Cardinality({c \in recorded :
                                /\ c.field = "price"
                                /\ \E p \in P : p.id = c.product /\ p.variant = v[i]})
          /\ summary[i].discount_changes =
                Cardinality({c \in recorded :
                                /\ c.field = "discounts"
                                /\ \E p \in P : p.id = c.product /\ p.variant = v[i]})
      BY <1>2 DEF summarise_changes
    <2> QED
      BY <1>5, <2>1, ZenonT(30)
  <1>8. Counted(table, recorded) = Total(ToSet(summary))
    BY <1>1, Zenon DEF Counted, Total
  <1> HIDE DEF summary
  <1>9. ToSet(summary) = {summary[i] : i \in DOMAIN v}
    BY <1>6 DEF ToSet
  <1>10. PICK E : E = {summary[i] : i \in DOMAIN v}
    OBVIOUS
  <1>11. PICK part : part = [e \in E |-> {c \in recorded : table[c.product].variant = e.variant}]
    OBVIOUS
  <1>12. ASSUME NEW i \in DOMAIN v
         PROVE  summary[i] \in E /\ part[summary[i]] = of[i]
    <2>1. PICK e : e = summary[i]
      OBVIOUS
    <2>2. e \in E /\ e.variant = v[i]
      BY <1>7, <1>10, <2>1
    <2> QED
      BY <1>4, <1>11, <2>1, <2>2
  <1>13. IsFiniteSet(E)
    <2>1. PICK f : f = [i \in DOMAIN v |-> summary[i]]
      OBVIOUS
    <2>2. E = {f[i] : i \in DOMAIN v} /\ f \in [DOMAIN v -> {f[i] : i \in DOMAIN v}]
      BY <1>10, <2>1
    <2> QED
      BY <1>3, <2>2, FiniteRange DEF VariantsOf
  <1>14. ASSUME NEW e \in E
         PROVE  /\ part[e] \subseteq recorded
                /\ e.price_changes + e.discount_changes = Cardinality(part[e])
    <2>1. PICK i \in DOMAIN v : e = summary[i]
      BY <1>10
    <2>2. PICK S, T : /\ S = {c \in of[i] : c.field = "price"}
                      /\ T = {c \in of[i] : c.field = "discounts"}
      OBVIOUS
    <2>3. of[i] = S \cup T /\ S \cap T = {} /\ of[i] \subseteq recorded
      BY <1>4, <2>2
    <2>4. IsFiniteSet(S) /\ IsFiniteSet(T)
      BY <2>3, FS_Subset
    <2>5. Cardinality(S \cup T) = Cardinality(S) + Cardinality(T) - Cardinality(S \cap T)
      BY <2>4, FS_Union
    <2>6. Cardinality(S \cap T) = 0 /\ Cardinality(S) \in Nat /\ Cardinality(T) \in Nat
      BY <2>3, <2>4, FS_EmptySet, FS_CardinalityType
    <2>7. e.price_changes = Cardinality(S) /\ e.discount_changes = Cardinality(T)
      BY <1>7, <2>1, <2>2
    <2>8. part[e] = S \cup T
      BY <1>12, <2>1, <2>3
    <2> QED
      BY <2>3, <2>5, <2>6, <2>7, <2>8
  <1>15. ASSUME NEW d \in E, NEW e \in E, d # e
         PROVE  part[d] \cap part[e] = {}
    <2>1. d.variant # e.variant
      <3>1. PICK i \in DOMAIN v : d = summary[i]
        BY <1>10
      <3>2. PICK j \in DOMAIN v : e = summary[j]
        BY <1>10
      <3>3. v[i] # v[j]
        BY <1>3, <1>15, <3>1, <3>2 DEF VariantsOf
      <3> QED
        BY <1>7, <3>1, <3>2, <3>3
    <2> QED
      BY <1>11, <2>1
  <1>16. ASSUME NEW c \in recorded
         PROVE  \E e \in E : c \in part[e]
    <2>1. table[c.product] \in P
      BY <1>1
    <2>2. PICK i \in DOMAIN v : v[i] = table[c.product].variant
      BY <1>3, <2>1 DEF VariantsOf
    <2>3. c \in of[i]
      BY <1>4, <2>2
    <2> QED
      BY <1>12, <2>3
  <1>17. Total(E) = Cardinality(recorded)
    BY <1>13, <1>14, <1>15, <1>16, SharesAddUp
  <1> QED
    BY <1>8, <1>9, <1>10, <1>17, Zenon

\* A merge loses no event but the false new_product ones, leaves none without a
\* row and no two rows of one product, and the summary counts as many changes
\* as before (dedupe.py: merge_duplicate_products).
THEOREM Merging == OfferSpec => MergeKeepsHistory
  <1> DEFINE Kept ==
        ~(Ids \subseteq DOMAIN rows') =>
          /\ \A i, j \in DOMAIN rows' : Fold[rows'[i].code] = Fold[rows'[j].code] => i = j
          /\ \A e \in {f \in events : f.kind # "new_product"} :
                \E f \in events' : f.ts = e.ts /\ f.kind = e.kind
          /\ \A r \in events' \cup changes' : r.product \in DOMAIN rows'
          /\ Counted(rows', changes') = Counted(rows, changes)
  <1>1. Inv /\ ChangesAreOwned /\ RowsHaveIds /\ [OfferNext]_offerVars => [Kept]_offerVars
    <2> SUFFICES ASSUME Inv, ChangesAreOwned, RowsHaveIds, OfferNext,
                        ~(Ids \subseteq DOMAIN rows')
                 PROVE  Kept
      OBVIOUS
    <2>1. MergeDuplicates
      <3>1. ASSUME NEW listed \in Listings, Poll(listed)
            PROVE  FALSE
        BY <3>1, PollKeepsRows DEF Ids
      <3>2. CASE PruneOldChanges
        BY <3>2 DEF PruneOldChanges, Ids
      <3>3. QED
        BY <3>1, <3>2 DEF OfferNext
    <2>2. DOMAIN rows' = Survivors /\ Survivors \subseteq Ids
      BY <2>1, MergedRows, SurvivorFacts DEF Ids
    <2>3. \A i, j \in Survivors : Fold[rows'[i].code] = Fold[rows'[j].code] => i = j
      BY <2>1, MergedCodes
    <2>4. Inv' /\ Ids' = DOMAIN rows'
      BY <2>1, MergeKeepsInv DEF Ids
    <2>5. \A r \in events' \cup changes' : r.product \in DOMAIN rows'
      BY <2>4 DEF Inv, EventsHaveRows, ChangesHaveRows
    <2>6. \A e \in {f \in events : f.kind # "new_product"} :
             \E f \in events' : f.ts = e.ts /\ f.kind = e.kind
      BY <2>1, ReassignedShape
    <2>7. Cardinality(changes') = Cardinality(changes) /\ ChangesAreOwned' /\ RowsHaveIds'
      BY <2>1, MergeKeepsOwned, MergeKeepsIds
    <2>8. IsFiniteSet(Ids) /\ Ids \subseteq Int
      <3>1. PICK n \in Nat : Ids \subseteq 1 .. n
        BY DEF Inv, RowsAreOld
      <3>2. IsFiniteSet(1 .. n)
        BY FS_Interval
      <3>3. IsFiniteSet(Ids)
        BY <3>1, <3>2, FS_Subset
      <3> QED
        BY <3>1, <3>3
    <2>9. Counted(rows, changes) = Cardinality(changes)
      <3>1. \A i \in DOMAIN rows : rows[i].id = i /\ rows[i].first_seen \in Int
        BY DEF Inv, RowsAreOld, OldRow, RowsHaveIds, Ids
      <3>2. /\ IsFiniteSet(changes)
            /\ \A c \in changes : c.product \in DOMAIN rows /\ c.field \in {"price", "discounts"}
        BY DEF ChangesAreOwned, Loaded, Ids
      <3> QED
        BY <2>8, <3>1, <3>2, CountedIs DEF Ids
    <2>10. Counted(rows', changes') = Cardinality(changes')
      <3>1. \A i \in DOMAIN rows' : rows'[i].id = i /\ rows'[i].first_seen \in Int
        BY <2>4, <2>7 DEF Inv, RowsAreOld, OldRow, RowsHaveIds
      <3>2. /\ IsFiniteSet(changes')
            /\ \A c \in changes' : /\ c.product \in DOMAIN rows'
                                  /\ c.field \in {"price", "discounts"}
        BY <2>4, <2>7 DEF ChangesAreOwned, Loaded
      <3>3. IsFiniteSet(DOMAIN rows') /\ DOMAIN rows' \subseteq Int
        BY <2>2, <2>8, FS_Subset
      <3> QED
        BY <3>1, <3>2, <3>3, CountedIs
    <2>11. QED
      BY <2>2, <2>3, <2>5, <2>6, <2>7, <2>9, <2>10
  <1>2. OfferSpec => []ChangesAreOwned
    BY Invariance, InitOwned, StepKeepsOwned, PTL DEF OfferSpec
  <1>3. OfferSpec => []RowsHaveIds
    BY Invariance, InitIds, StepKeepsIds, PTL DEF OfferSpec
  <1>4. QED
    BY <1>1, <1>2, <1>3, Invariance, PTL DEF OfferSpec, MergeKeepsHistory

-----------------------------------------------------------------------------
(***************************************************************************)
(* The calendar, and the year that dateparse.py gives a date without one.  *)
(*                                                                         *)
(* A day of one year and the same day of the next are at least 365 days    *)
(* apart (SameDayNextYear).  So of the candidates no two are within 364    *)
(* days of each other, and one within 182 days of today is the nearest     *)
(* (NearestIsRight), one less than a year ahead the first to come          *)
(* (FirstToComeIsRight).                                                   *)
(***************************************************************************)

Months == 1 .. 12

LeapDay(year) == IF Leap(year) THEN 1 ELSE 0

-----------------------------------------------------------------------------
(* The calendar.                                                           *)

\* A year has 365 days, a leap year one more.
LEMMA YearLength ==
    ASSUME NEW y \in Int
    PROVE  /\ NewYear(y) \in Int
           /\ NewYear(y + 1) = NewYear(y) + 365 + LeapDay(y)
  <1> DEFINE x == y - 1
  <1>1. x \in Int /\ y = x + 1
    OBVIOUS
  <1>2. \A n \in {4, 100, 400} :
           /\ x \div n \in Int /\ y \div n \in Int
           /\ y \div n = (x \div n) + (IF y % n = 0 THEN 1 ELSE 0)
    BY <1>1, SMTT(60)
  <1>3. NewYear(y) = 365 * x + (x \div 4) - (x \div 100) + (x \div 400)
    BY DEF NewYear
  <1>4. NewYear(y + 1) = 365 * y + (y \div 4) - (y \div 100) + (y \div 400)
    <2>1. y + 1 - 1 = y
      OBVIOUS
    <2> QED
      BY <2>1 DEF NewYear
  <1>5. /\ y % 100 = 0 => y % 4 = 0
        /\ y % 400 = 0 => y % 100 = 0
    BY SMTT(60)
  <1> QED
    BY <1>1, <1>2, <1>3, <1>4, <1>5, SMTT(60) DEF LeapDay, Leap

\* The days of a month and of a year follow one another without a gap, as in
\* datetime.date.
THEOREM MonthsFollow ==
    ASSUME NEW y \in Int, NEW m \in Months
    PROVE  Ordinal(y, m, 1) + MonthLength(y, m) =
              IF m = 12 THEN NewYear(y + 1) ELSE Ordinal(y, m + 1, 1)
  <1>1. NewYear(y) \in Int /\ NewYear(y + 1) = NewYear(y) + 365 + LeapDay(y)
    BY YearLength
  <1>2. m \in {1, 2, 3, 4, 5, 6, 7, 8, 9, 10, 11, 12}
    BY DEF Months
  <1> QED
    BY <1>1, <1>2, SMTT(60) DEF Ordinal, MonthLength, DaysBefore, LeapDay

\* A date has a number, and a month four weeks at least.
LEMMA OrdinalFacts ==
    ASSUME NEW y \in Int, NEW m \in Months, NEW d \in Int
    PROVE  /\ Ordinal(y, m, d) \in Int
           /\ MonthLength(y, m) \in 28 .. 31
  <1>1. NewYear(y) \in Int /\ DaysBefore[m] \in Int
    BY YearLength DEF DaysBefore, Months
  <1> QED
    BY <1>1 DEF Ordinal, MonthLength

\* Any day is 365 days or more before the same day of the next year.
LEMMA SameDayNextYear ==
    ASSUME NEW y \in Int, NEW m \in Months, NEW d \in Int
    PROVE  /\ Ordinal(y + 1, m, d) >= Ordinal(y, m, d) + 365
           /\ Ordinal(y + 1, m, d) \in Int
  <1>1. NewYear(y) \in Int /\ NewYear(y + 1) = NewYear(y) + 365 + LeapDay(y)
    BY YearLength
  <1>2. DaysBefore[m] \in Int
    BY DEF DaysBefore, Months
  <1> QED
    BY <1>1, <1>2 DEF Ordinal, LeapDay, Months

\* The calendar starts with the year 1.
LEMMA NotBeforeYearOne ==
    ASSUME NEW y \in Nat \ {0}
    PROVE  NewYear(y) \in Nat
  <1> DEFINE x == y - 1
  <1>1. x \in Nat
    OBVIOUS
  <1>2. /\ x \div 4 \in Nat /\ x \div 100 \in Nat /\ x \div 400 \in Nat
        /\ x \div 100 <= x \div 4
    BY <1>1, SMTT(60)
  <1>3. NewYear(y) = 365 * x + (x \div 4) - (x \div 100) + (x \div 400)
    BY DEF NewYear
  <1> QED
    BY <1>1, <1>2, <1>3

-----------------------------------------------------------------------------
(* The year of a date.                                                     *)

\* The candidates for a written day are whole years apart.
LEMMA CandidatesApart ==
    ASSUME NEW year \in Int, NEW y \in year - 1 .. year + 1,
           NEW m \in Months, NEW d \in 1 .. MonthLength(y, m)
    PROVE  LET all == Candidates([day |-> d, month |-> m], year)
               true == Ordinal(y, m, d)
           IN  /\ true \in all /\ true \in Int
               /\ \A e \in all : /\ e \in Int
                                 /\ e = true \/ e >= true + 365 \/ e <= true - 365
  <1> DEFINE written == [day |-> d, month |-> m]
             all == Candidates(written, year)
             true == Ordinal(y, m, d)
  <1>1. written.day = d /\ written.month = m
    OBVIOUS
  <1>2. y \in Int /\ d \in Int
    BY OrdinalFacts
  <1>3. all = {Ordinal(z, m, d) :
                 z \in {v \in year - 1 .. year + 1 : d \in 1 .. MonthLength(v, m)}}
    BY <1>1 DEF Candidates
  <1>4. true \in all /\ true \in Int
    BY <1>2, <1>3, OrdinalFacts
  <1>5. ASSUME NEW e \in all
        PROVE  e \in Int /\ (e = true \/ e >= true + 365 \/ e <= true - 365)
    <2>1. PICK z \in year - 1 .. year + 1 : e = Ordinal(z, m, d)
      BY <1>3, <1>5
    <2>2. ASSUME NEW v \in Int
          PROVE  /\ Ordinal(v, m, d) \in Int /\ Ordinal(v + 1, m, d) \in Int
                 /\ Ordinal(v + 1, m, d) >= Ordinal(v, m, d) + 365
      BY <1>2, OrdinalFacts, SameDayNextYear, ZenonT(30)
    <2>3. PICK a, b, c : /\ a = Ordinal(year - 1, m, d) /\ b = Ordinal(year, m, d)
                         /\ c = Ordinal(year + 1, m, d)
      OBVIOUS
    <2>4. a \in Int /\ b \in Int /\ c \in Int
      BY <2>2, <2>3
    <2>5. b >= a + 365 /\ c >= b + 365
      <3>1. year - 1 \in Int /\ year - 1 + 1 = year
        OBVIOUS
      <3> QED
        BY <2>2, <2>3, <3>1
    <2>6. true \in {a, b, c} /\ e \in {a, b, c}
      <3>1. ASSUME NEW v \in year - 1 .. year + 1
            PROVE  v = year - 1 \/ v = year \/ v = year + 1
        OBVIOUS
      <3> QED
        BY <2>1, <2>3, <3>1
    <2> QED
      BY <2>4, <2>5, <2>6
  <1> QED
    BY <1>4, <1>5

\* None is told from every date.
LEMMA WrittenIsADate ==
    ASSUME NEW y \in Int, NEW m \in Months, NEW d \in 1 .. MonthLength(y, m)
    PROVE  [day |-> d, month |-> m] # None
  <1>1. PICK n : n = MonthLength(y, m) /\ n \in 28 .. 31
    BY OrdinalFacts
  <1>2. d \in 1 .. 31 /\ m \in 1 .. 12
    BY <1>1 DEF Months
  <1>3. [day |-> d, month |-> m] \in [day : 1 .. 31, month : 1 .. 12]
    BY <1>2
  <1> QED
    BY <1>3, DatesAssumption

\* A date within half a year of today is read right in either direction.
LEMMA NearestIsRight ==
    ASSUME NEW year \in Int, NEW y \in year - 1 .. year + 1, NEW t \in Int,
           NEW m \in Months, NEW d \in 1 .. MonthLength(y, m),
           Gap(Ordinal(y, m, d), t) <= 182
    PROVE  parse_delivery_date([day |-> d, month |-> m], t, year, FALSE) = Ordinal(y, m, d)
  <1> DEFINE written == [day |-> d, month |-> m]
             all == Candidates(written, year)
             true == Ordinal(y, m, d)
             near == {a \in all : \A e \in all : Gap(a, t) <= Gap(e, t)}
  <1>1. /\ true \in all /\ true \in Int
        /\ \A e \in all : e \in Int /\ (e = true \/ e >= true + 365 \/ e <= true - 365)
    BY CandidatesApart
  <1>2. \A e \in all : e # true => Gap(e, t) > 182
    BY <1>1 DEF Gap
  <1>3. near = {true}
    BY <1>1, <1>2 DEF Gap
  <1>4. Min(near) = true
    BY <1>1, <1>3, LeastIs
  <1>5. written # None
    BY WrittenIsADate
  <1> QED
    BY <1>1, <1>4, <1>5 DEF parse_delivery_date

\* Rolled forward, so is one less than a year ahead.
LEMMA FirstToComeIsRight ==
    ASSUME NEW year \in Int, NEW y \in year - 1 .. year + 1, NEW t \in Int,
           NEW m \in Months, NEW d \in 1 .. MonthLength(y, m),
           Ordinal(y, m, d) \in t .. t + 364
    PROVE  parse_delivery_date([day |-> d, month |-> m], t, year, TRUE) = Ordinal(y, m, d)
  <1> DEFINE written == [day |-> d, month |-> m]
             all == Candidates(written, year)
             true == Ordinal(y, m, d)
             some == {e \in all : e >= t}
  <1>1. /\ true \in all /\ true \in Int
        /\ \A e \in all : e \in Int /\ (e = true \/ e >= true + 365 \/ e <= true - 365)
    BY CandidatesApart
  <1>2. /\ some \in SUBSET Int /\ true \in some
        /\ \A e \in some : true <= e
    BY <1>1
  <1>3. Min(some) = true
    BY <1>2, LeastIs
  <1>4. written # None
    BY WrittenIsADate
  <1> QED
    BY <1>2, <1>3, <1>4 DEF parse_delivery_date

-----------------------------------------------------------------------------
(* The specification.                                                      *)

\* Today is no day before year one.
LEMMA TodayAndItsYear ==
    ASSUME NEW c \in 0 .. MaxClock
    PROVE  /\ FirstDay + Day(c) \in Nat
           /\ FirstYear \in Int /\ FirstYear + 1 \in Int
  <1>1. NewYear(FirstYear) \in Nat /\ FirstDay \in Nat
    <2>1. NewYear(FirstYear) \in Nat
      BY CalendarAssumption, NotBeforeYearOne
    <2>2. NewYear(FirstYear + 1) \in Int
      BY CalendarAssumption, YearLength
    <2> QED
      BY <2>1, <2>2, CalendarAssumption
  <1>2. Day(c) \in Nat
    BY TimesAssumption DEF Day
  <1> QED
    BY <1>1, <1>2, CalendarAssumption

\* What ReadsRight says of a day, of whatever year.
LEMMA DayReadsRight ==
    ASSUME NEW t \in Nat, NEW year \in Int, NEW y \in year - 1 .. year + 1,
           NEW m \in Months, NEW d \in 1 .. MonthLength(y, m)
    PROVE  LET written == [day |-> d, month |-> m]
               true == Ordinal(y, m, d)
           IN  /\ Gap(true, t) <= 182 =>
                     parse_delivery_date(written, t, year, FALSE) = true
               /\ true \in t .. t + 364 => \A days \in {7, 30} :
                     Availability(TRUE, written, t, year, days) =
                         IF true > t + days THEN "early" ELSE "public"
  <1> DEFINE written == [day |-> d, month |-> m]
             true == Ordinal(y, m, d)
  <1>1. ASSUME Gap(true, t) <= 182
        PROVE  parse_delivery_date(written, t, year, FALSE) = true
    <2>1. t \in Int
      OBVIOUS
    <2> QED
      BY <1>1, <2>1, NearestIsRight
  <1>2. ASSUME true \in t .. t + 364, NEW days \in {7, 30}
        PROVE  Availability(TRUE, written, t, year, days) =
                   IF true > t + days THEN "early" ELSE "public"
    <2>1. PICK when : when = parse_delivery_date(written, t, year, TRUE)
      OBVIOUS
    <2>2. when = true
      <3>1. t \in Int
        OBVIOUS
      <3>2. parse_delivery_date(written, t, year, TRUE) = true
        BY <1>2, <3>1, FirstToComeIsRight
      <3> QED
        BY <2>1, <3>2
    <2>3. when \in Nat /\ when # None
      BY <1>2, <2>2, NullAssumption
    <2>4. Availability(TRUE, written, t, year, days) =
             IF when - t > days THEN "early" ELSE "public"
      BY <2>1, <2>3 DEF Availability
    <2>5. (when - t > days) <=> (true > t + days)
      <3>1. when \in Int /\ days \in Int /\ t \in Int
        BY <2>3
      <3>2. (when - t > days) <=> (when > t + days)
        BY <3>1
      <3> QED
        BY <2>2, <3>2
    <2> QED
      BY <2>4, <2>5, Zenon
  <1> QED
    BY <1>1, <1>2

\* Every day the specification can reach is read right.
LEMMA EveryDayReadsRight ==
    ASSUME NEW c \in 0 .. MaxClock
    PROVE  ReadsRight[FirstDay + Day(c)]
  <1> DEFINE t == FirstDay + Day(c)
             year == IF t >= NewYear(FirstYear + 1) THEN FirstYear + 1 ELSE FirstYear
  <1>1. t \in Nat /\ year \in Int
    BY TodayAndItsYear
  <1>2. \A y \in year - 1 .. year + 1, m \in Months :
          \A d \in 1 .. MonthLength(y, m) :
             LET written == [day |-> d, month |-> m]
                 true == Ordinal(y, m, d)
             IN  /\ Gap(true, t) <= 182 =>
                       parse_delivery_date(written, t, year, FALSE) = true
                 /\ true \in t .. t + 364 => \A days \in {7, 30} :
                       Availability(TRUE, written, t, year, days) =
                           IF true > t + days THEN "early" ELSE "public"
    BY <1>1, DayReadsRight
  <1> QED
    BY <1>2 DEF ReadsRight, Months

Clock == clock \in 0 .. MaxClock

\* The clock does not pass its bound.
LEMMA ClockStays ==
    OfferSpec => []Clock
  <1>1. OfferInit => Clock
    BY TimesAssumption, CalendarAssumption DEF OfferInit, Clock
  <1>2. Clock /\ [OfferNext]_offerVars => Clock'
    <2> SUFFICES ASSUME Clock, [OfferNext]_offerVars
                 PROVE  Clock'
      OBVIOUS
    <2>1. CASE \E listed \in Listings : Poll(listed)
      <3>1. clock < MaxClock /\ clock' = clock + 1
        BY <2>1 DEF Poll
      <3> QED
        BY <3>1, TimesAssumption DEF Clock
    <2>2. CASE MergeDuplicates
      BY <2>2 DEF MergeDuplicates, Clock
    <2>3. CASE PruneOldChanges
      BY <2>3 DEF PruneOldChanges, Clock
    <2>4. CASE UNCHANGED offerVars
      BY <2>4 DEF offerVars, Clock
    <2> QED
      BY <2>1, <2>2, <2>3, <2>4 DEF OfferNext
  <1> QED
    BY <1>1, <1>2, PTL DEF OfferSpec

\* Whatever the first day, each day and month is read as the true date, at the
\* turn of a year and in February too (dateparse.py:36).
THEOREM TrueYear == OfferSpec => []DatesAreRead
  <1>1. Clock => DatesAreRead
    BY EveryDayReadsRight DEF Clock, DatesAreRead, Today
  <1> QED
    BY <1>1, ClockStays, PTL
=============================================================================

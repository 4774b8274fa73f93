---------------------------- MODULE NoticeProofs ----------------------------
(***************************************************************************)
(* The notices for any pages, retries, weeks and bounds: one digest a day, *)
(* markers that are earned, and no recorded move between two digests that  *)
(* neither of them has shown.                                              *)
(*                                                                         *)
(* A digest is due only while nothing has been written for today, and      *)
(* nothing else is sent until its marker is; so at most one more copy than *)
(* slips can be out (CopiesAreKnown).  A digest covers the changes of its  *)
(* window, for a variant on sale has a block (OnSaleHasBlock), and still   *)
(* does when it is saved, although a merge may have given them to other    *)
(* rows since: neither their times nor what moved change (JobCovers).      *)
(***************************************************************************)
EXTENDS Notices, OfferProofs

\* The digest lists only products of which the page names a variant, and their
\* offers have an order when their prices are numbers.
PagesHaveVariants == \A p \in Pages : p.variant # ""

PagesAreTold == PagesHaveVariants /\ PagesAreWhole

JobFields == {"kind", "server", "tries", "took", "ok", "body", "left"}

-----------------------------------------------------------------------------
(* The inductive invariant, beside that of the rows.                       *)

TablesInv ==
    /\ Inv
    /\ RowsHaveIds
    /\ PagesAreWhole => RowsArePriced

\* Nothing is marked as sent without a server having taken it, or there is
\* none.
JobIsHonest ==
    /\ DOMAIN job = JobFields
    /\ job.kind \in {"none", "digest", "heartbeat", "plugins"}
    /\ job.kind = "none" => job = NoJob
    /\ job.ok => job.took \/ ~job.server
    /\ job.took => job.server

Unsent == digestSent = None \/ digestSent < Day(clock)

Unmarked == job.kind = "digest" /\ job.ok /\ job.took

CopiesAreKnown ==
    /\ copies \in Nat /\ slips \in Nat
    /\ digestSent = None \/ (digestSent \in Nat /\ digestSent <= Day(clock))
    /\ copies <= 1 + slips
    /\ Unsent /\ ~Unmarked => copies <= slips
    /\ job.kind = "digest" => Unsent

\* With variants, a digest lists what changed since its window began, or found
\* nothing of the variant on sale.
JobCovers ==
    PagesAreTold /\ job.kind = "digest" =>
        \A c \in changes : c.ts >= clock - 2 =>
            \E b \in job.body \cup job.left : Move(b) = Move(c)

DigestsFollow ==
    PagesAreTold => MovesAreDigested

NoticeInv ==
    /\ TablesInv
    /\ JobIsHonest
    /\ CopiesAreKnown
    /\ JobCovers
    /\ \A t \in sentAt : t \in Nat /\ t <= clock
    /\ DigestsFollow

-----------------------------------------------------------------------------
(* Days and labels.                                                        *)

\* Days do not run backwards.
LEMMA DayFacts ==
    ASSUME NEW now \in Nat
    PROVE  Day(now) \in Nat /\ Day(now) <= Day(now + 1)
  BY DEF Day

\* A digest looks back a day at least.
LEMMA WindowFacts ==
    ASSUME NEW at \in Nat, NEW now \in Nat, at >= now - 2
    PROVE  now - Window \in Int /\ at >= now - Window
  <1>1. 2 * Week \in Nat /\ 2 * Week >= 2
    BY NoticesAssumption
  <1>2. PICK window : window = Window
    OBVIOUS
  <1>3. window \in Nat /\ window >= 2
    BY <1>1, <1>2 DEF Window
  <1>4. now - window \in Int /\ at >= now - window
    BY <1>3
  <1>5. QED
    BY <1>2, <1>4

\* The variant of an offer on sale at a known price has a block.
LEMMA OnSaleHasBlock ==
    ASSUME Inv, RowsHaveIds, RowsArePriced,
           NEW i \in Ids, rows[i].stock, rows[i].price # None
    PROVE  rows[i].variant \in Blocks
  <1>1. PICK A, V : A = Available(Table, None, None) /\ V = Variants(A)
    OBVIOUS
  <1>2. A = Available({rows[j] : j \in Ids}, None, None)
    BY <1>1 DEF Table
  <1>3. VariantsOf(V, A)
    <2>1. IsFiniteSet(A)
      BY <1>2, OfferedRows
    <2>2. \A p \in A : p.id \in Int /\ p.first_seen \in Int
      BY <1>2, OfferedRows
    <2>3. \A p, q \in A : p.id = q.id => p = q
      BY <1>2, OfferedRows
    <2> QED
      BY <1>1, <2>1, <2>2, <2>3, VariantsOnce
  <1>4. rows[i] \in A
    BY <1>2, OfferedRows
  <1>5. PICK g \in DOMAIN V : V[g] = rows[i].variant
    BY <1>3, <1>4 DEF VariantsOf
  <1>6. PICK s, variant :
           /\ variant = V[g]
           /\ s = InOrder({offer_dict(p) : p \in {q \in A : q.variant = variant}}, Cheaper)
    OBVIOUS
  <1>7. OffersOf(s, variant)
    BY <1>2, <1>6, OffersOfVariant
  <1>8. PICK n \in DOMAIN s : s[n] = offer_dict(rows[i])
    BY <1>5, <1>6, <1>7 DEF OffersOf
  <1>9. s[n].price # None
    BY <1>8 DEF offer_dict
  <1>10. PICK groups, h : groups = group_offers(Table, None, None) /\ h = groups[g]
    OBVIOUS
  <1>11. g \in DOMAIN groups /\ h.variant = variant /\ h.offers = s
    BY <1>1, <1>5, <1>6, <1>10 DEF group_offers
  <1>12. h \in ToSet(groups)
    BY <1>10, <1>11, Zenon DEF ToSet
  <1> QED
    BY <1>5, <1>6, <1>9, <1>10, <1>11, <1>12, Zenon DEF Blocks

\* With variants, some row has one as soon as a change was recorded, so the
\* digest lists what it finds, but for what is not on sale.
LEMMA ReportCovers ==
    ASSUME TablesInv, PagesAreTold, NEW since \in Int,
           NEW c \in changes, c.ts >= since
    PROVE  c \in Report(since) \/ OffSale(c)
  <1> SUFFICES ASSUME ~OffSale(c)
               PROVE  c \in Report(since)
    OBVIOUS
  <1>1. PICK i \in Ids : rows[i].last_seen >= FirstPollAt
    BY DEF TablesInv, Inv, ChangesHaveRows
  <1>2. OldRow(rows[i], clock)
    BY DEF TablesInv, Inv, RowsAreOld
  <1>3. rows[i].variant # "" /\ rows[i].archived = FALSE
    BY <1>1, <1>2 DEF OldRow, PagesAreTold, PagesHaveVariants
  <1>4. has_variants(Table)
    BY <1>3 DEF has_variants, Table
  <1>5. c \in recent_changes(changes, Ids, since)
    BY DEF recent_changes, TablesInv, Inv, ChangesHaveRows
  <1>6. enabled /\ \E p \in Table : /\ p.variant = rows[c.product].variant
                                  /\ p.stock /\ p.price # None
    BY Zenon DEF OffSale
  <1>7. PICK j \in Ids : /\ rows[j].variant = rows[c.product].variant
                        /\ rows[j].stock /\ rows[j].price # None
    BY <1>6, Zenon DEF Table
  <1>8. rows[j].variant \in Blocks
    BY <1>7, OnSaleHasBlock DEF TablesInv, PagesAreTold
  <1>9. QED
    BY <1>4, <1>5, <1>6, <1>7, <1>8 DEF Report, InBlock

\* What is not in the tables moves on its own.
LEMMA TablesFrame ==
    ASSUME UNCHANGED offerVars
    PROVE  /\ UNCHANGED <<clock, rows, changes, events, shows>>
           /\ TablesInv => TablesInv'
  <1>1. UNCHANGED <<clock, rows, changes, events, shows>>
    BY DEF offerVars, tables
  <1>2. Inv => Inv'
    BY StutterKeepsInv
  <1>3. RowsHaveIds => RowsHaveIds'
    BY <1>1 DEF RowsHaveIds, Ids
  <1>4. RowsArePriced => RowsArePriced'
    BY <1>1 DEF RowsArePriced, Ids
  <1>5. QED
    BY <1>1, <1>2, <1>3, <1>4 DEF TablesInv

-----------------------------------------------------------------------------
(* The steps of a job.                                                     *)

\* A job that starts keeps the invariant.
LEMMA StartKeepsInv ==
    ASSUME NoticeInv, DigestStarts \/ BeatStarts \/ PluginAlert
    PROVE  NoticeInv'
  <1>1. PICK kind, body, left :
           /\ kind \in {"digest", "heartbeat", "plugins"}
           /\ Starts(kind, body, left)
           /\ kind = "digest" => /\ DigestDue /\ body = Report(clock - Window)
                                 /\ left = {c \in changes : OffSale(c)}
    BY DEF DigestStarts, BeatStarts, PluginAlert
  <1>2. /\ UNCHANGED <<clock, rows, changes, events, shows>> /\ TablesInv'
        /\ UNCHANGED <<digestSent, beatSent, shown, leftOut, sentAt, copies, slips>>
        /\ job = NoJob /\ job' = NewJob(kind, body, left)
    BY <1>1, TablesFrame DEF Starts, NoticeInv, history
  <1>3. job.kind = "none"
    BY <1>2 DEF NoJob
  <1>4. /\ DOMAIN job' = JobFields /\ job'.kind = kind /\ job'.body = body
        /\ job'.left = left
        /\ job'.ok = FALSE
    BY <1>2 DEF NewJob, NoJob, JobFields
  <1>5. JobIsHonest'
    <2>1. job'.took = FALSE
      BY <1>2 DEF NewJob, NoJob
    <2>2. kind \in {"digest", "heartbeat", "plugins"}
      BY <1>1
    <2>3. QED
      BY <1>4, <2>1, <2>2 DEF JobIsHonest
  <1>6. CopiesAreKnown'
    <2>1. kind = "digest" => Unsent
      BY <1>1 DEF DigestDue, Unsent
    <2>2. Unsent' = Unsent /\ ~Unmarked' /\ ~Unmarked
      BY <1>2, <1>3, <1>4 DEF Unsent, Unmarked, Day
    <2>3. QED
      BY <1>2, <1>4, <2>1, <2>2 DEF NoticeInv, CopiesAreKnown, Day
  <1>7. JobCovers'
    <2> SUFFICES ASSUME PagesAreTold, kind = "digest",
                        NEW c \in changes, c.ts >= clock - 2
                 PROVE  \E b \in body \cup left : Move(b) = Move(c)
      BY <1>2, <1>4 DEF JobCovers
    <2>1. clock - Window \in Int /\ c.ts >= clock - Window
      <3>1. PICK at : at = c.ts
        OBVIOUS
      <3>2. clock \in Nat /\ at \in Nat /\ at >= clock - 2
        BY <3>1 DEF NoticeInv, TablesInv, Inv, ChangesHaveRows
      <3>3. clock - Window \in Int /\ at >= clock - Window
        BY <3>2, WindowFacts
      <3>4. QED
        BY <3>1, <3>3
    <2>2. c \in Report(clock - Window) \/ OffSale(c)
      BY <2>1, ReportCovers DEF NoticeInv
    <2>3. QED
      BY <1>1, <2>2
  <1>8. (\A t \in sentAt : t \in Nat /\ t <= clock)' /\ DigestsFollow'
    BY <1>2 DEF NoticeInv, DigestsFollow, MovesAreDigested
  <1>9. QED
    BY <1>2, <1>5, <1>6, <1>7, <1>8 DEF NoticeInv

\* Without a server a send is over at once and nobody has a copy.
LEMMA UnconfiguredKeepsInv ==
    ASSUME NoticeInv, Unconfigured
    PROVE  NoticeInv'
  <1>1. /\ UNCHANGED <<clock, rows, changes, events, shows>> /\ TablesInv'
        /\ UNCHANGED <<digestSent, shown, leftOut, sentAt, copies, slips>>
        /\ ~job.ok /\ ~job.server /\ job # NoJob
    BY TablesFrame DEF Unconfigured, Sending, NoticeInv, history
  <1>2. /\ DOMAIN job' = JobFields /\ job'.kind = job.kind
        /\ job'.body = job.body /\ job'.left = job.left
        /\ job'.took = job.took /\ job'.server = job.server
    BY DEF Unconfigured, NoticeInv, JobIsHonest, JobFields
  <1>3. JobIsHonest'
    BY <1>1, <1>2 DEF NoticeInv, JobIsHonest
  <1>4. CopiesAreKnown'
    <2>1. Unsent' = Unsent
      BY <1>1 DEF Unsent, Day
    <2>2. ~Unmarked' /\ ~Unmarked
      BY <1>1, <1>2 DEF Unmarked, NoticeInv, JobIsHonest
    <2>3. QED
      BY <1>1, <1>2, <2>1, <2>2 DEF NoticeInv, CopiesAreKnown, Day
  <1>5. JobCovers'
    BY <1>1, <1>2 DEF NoticeInv, JobCovers
  <1>6. (\A t \in sentAt : t \in Nat /\ t <= clock)' /\ DigestsFollow'
    BY <1>1 DEF NoticeInv, DigestsFollow, MovesAreDigested
  <1>7. QED
    BY <1>1, <1>3, <1>4, <1>5, <1>6 DEF NoticeInv

\* An attempt: the server takes a copy of a digest only while no marker has
\* been written today and every copy before it is a slip.
LEMMA AttemptKeepsInv ==
    ASSUME NoticeInv, NEW answer \in Answers, Attempt(answer)
    PROVE  NoticeInv'
  <1> DEFINE took == answer \in {"2xx", "lost"}
             over == ~Acknowledged(answer) /\ GivesUp(answer)
  <1>1. /\ UNCHANGED <<clock, rows, changes, events, shows>> /\ TablesInv'
        /\ UNCHANGED <<digestSent, shown, leftOut, sentAt>>
        /\ ~job.ok /\ job.server /\ job # NoJob
    BY TablesFrame DEF Attempt, Sending, NoticeInv
  <1>2. /\ copies' \in Nat /\ slips' \in Nat /\ copies' <= 1 + slips'
        /\ Unsent => (answer # "2xx" \/ job.kind # "digest" => copies' <= slips')
    <2>1. PICK c \in Nat, s \in Nat : c = copies /\ s = slips
      BY DEF NoticeInv, CopiesAreKnown
    <2>2. (job.kind = "digest" => c <= s) /\ (Unsent => c <= s) /\ c <= 1 + s
      BY <1>1, <2>1 DEF NoticeInv, CopiesAreKnown, Unmarked
    <2>3. CASE job.kind # "digest"
      <3>1. copies' = c /\ slips' = s
        BY <2>1, <2>3 DEF Attempt
      <3>2. QED
        BY <2>2, <3>1
    <2>4. CASE job.kind = "digest" /\ answer = "2xx"
      <3>1. copies' = c + 1 /\ slips' = s
        BY <2>1, <2>4 DEF Attempt
      <3>2. QED
        BY <2>2, <2>4, <3>1
    <2>5. CASE job.kind = "digest" /\ answer = "lost"
      <3>1. copies' = c + 1 /\ slips' = s + 1
        BY <2>1, <2>5 DEF Attempt
      <3>2. QED
        BY <2>2, <2>5, <3>1
    <2>6. CASE job.kind = "digest" /\ answer \notin {"2xx", "lost"}
      <3>1. copies' = c /\ slips' = s
        BY <2>1, <2>6 DEF Attempt
      <3>2. QED
        BY <2>2, <2>6, <3>1
    <2>7. QED
      BY <2>3, <2>4, <2>5, <2>6
  <1>3. Unsent' = Unsent /\ Day(clock') = Day(clock)
    BY <1>1 DEF Unsent, Day
  <1>4. (\A t \in sentAt : t \in Nat /\ t <= clock)' /\ DigestsFollow'
    BY <1>1 DEF NoticeInv, DigestsFollow, MovesAreDigested
  <1>5. CASE over
    <2>1. job' = NoJob /\ job'.kind = "none" /\ job'.ok = FALSE
          /\ job'.took = FALSE /\ DOMAIN job' = JobFields
      BY <1>5 DEF Attempt, NoJob, JobFields
    <2>2. JobIsHonest'
      BY <2>1 DEF JobIsHonest
    <2>3. CopiesAreKnown'
      <3>1. answer # "2xx"
        BY <1>5 DEF Acknowledged
      <3>2. QED
        BY <1>1, <1>2, <1>3, <2>1, <3>1 DEF NoticeInv, CopiesAreKnown
    <2>4. JobCovers'
      BY <2>1 DEF JobCovers
    <2>5. QED
      BY <1>1, <2>2, <2>3, <2>4, <1>4 DEF NoticeInv
  <1>6. CASE ~over
    <2>1. /\ DOMAIN job' = JobFields /\ job'.kind = job.kind
          /\ job'.body = job.body /\ job'.left = job.left
          /\ job'.server = job.server
          /\ job'.took = (job.took \/ took)
          /\ job'.ok = Acknowledged(answer)
      BY <1>6 DEF Attempt, NoticeInv, JobIsHonest, JobFields
    <2>2. JobIsHonest'
      BY <1>1, <2>1 DEF NoticeInv, JobIsHonest, Acknowledged
    <2>3. CopiesAreKnown'
      <3>1. answer = "2xx" /\ job.kind = "digest" => Unmarked'
        BY <2>1 DEF Unmarked, Acknowledged
      <3>2. job.kind = "digest" => Unsent
        BY DEF NoticeInv, CopiesAreKnown
      <3>3. QED
        BY <1>1, <1>2, <1>3, <2>1, <3>1, <3>2 DEF NoticeInv, CopiesAreKnown
    <2>4. JobCovers'
      BY <1>1, <2>1 DEF NoticeInv, JobCovers
    <2>5. QED
      BY <1>1, <2>2, <2>3, <2>4, <1>4 DEF NoticeInv
  <1>7. QED
    BY <1>5, <1>6

\* Saving the marker of a digest ends the day's sending, and its report
\* covers what was recorded since any digest less than a day before.
LEMMA SaveKeepsInv ==
    ASSUME NoticeInv, Saves
    PROVE  NoticeInv'
  <1>1. /\ UNCHANGED <<clock, rows, changes, events, shows>> /\ TablesInv'
        /\ UNCHANGED <<copies, slips>>
        /\ job' = NoJob /\ job.ok
    BY TablesFrame DEF Saves, NoticeInv
  <1>2. /\ DOMAIN job' = JobFields /\ job'.kind = "none" /\ job'.ok = FALSE
        /\ job'.took = FALSE
    BY <1>1 DEF NoJob, JobFields
  <1>3. JobIsHonest' /\ JobCovers'
    BY <1>1, <1>2 DEF JobIsHonest, JobCovers
  <1>4. CopiesAreKnown'
    <2>1. Day(clock) \in Nat /\ Day(clock') = Day(clock) /\ None \notin Nat
      BY <1>1, NullAssumption DEF NoticeInv, TablesInv, Inv, Day
    <2>2. CASE job.kind = "digest"
      <3>1. digestSent' = Day(clock)
        BY <2>2 DEF Saves
      <3>2. ~Unsent'
        BY <2>1, <3>1 DEF Unsent
      <3>3. QED
        BY <1>1, <1>2, <2>1, <3>1, <3>2 DEF NoticeInv, CopiesAreKnown
    <2>3. CASE job.kind # "digest"
      <3>1. digestSent' = digestSent /\ ~Unmarked /\ Unsent' = Unsent
        BY <2>1, <2>3 DEF Saves, Unmarked, Unsent
      <3>2. QED
        BY <1>1, <1>2, <2>1, <3>1 DEF NoticeInv, CopiesAreKnown
    <2>4. QED
      BY <2>2, <2>3
  <1>5. PICK new : /\ new => job.kind = "digest"
                   /\ new => sentAt' = sentAt \cup {clock}
                   /\ new => shown' = shown \cup {Move(c) : c \in job.body}
                   /\ new => leftOut' = leftOut \cup {Move(c) : c \in job.left}
                   /\ ~new => UNCHANGED <<shown, leftOut, sentAt>>
    <2>1. CASE job.kind = "digest" /\ job.took
      BY <2>1 DEF Saves
    <2>2. CASE ~(job.kind = "digest" /\ job.took)
      BY <2>2 DEF Saves
    <2>3. QED
      BY <2>1, <2>2
  <1>6. \A t \in sentAt' : t \in Nat /\ t <= clock'
    BY <1>1, <1>5 DEF NoticeInv, TablesInv, Inv
  <1>7. DigestsFollow'
    <2> SUFFICES ASSUME PagesAreTold,
                        NEW t \in sentAt', NEW u \in sentAt', t < u, u - t <= 2,
                        NEW c \in changes, c.ts \in t .. u - 1
                 PROVE  Move(c) \in shown' \cup leftOut'
      BY <1>1 DEF DigestsFollow, MovesAreDigested
    <2>1. /\ t \in Nat /\ u \in Nat /\ t <= clock /\ u <= clock /\ clock \in Nat
      BY <1>1, <1>6 DEF NoticeInv, TablesInv, Inv
    <2>2. CASE t \in sentAt /\ u \in sentAt
      <3>1. Move(c) \in shown \cup leftOut
        BY <2>2 DEF NoticeInv, DigestsFollow, MovesAreDigested
      <3>2. QED
        BY <1>5, <3>1
    <2>3. CASE ~(t \in sentAt /\ u \in sentAt)
      <3>1. sentAt' = sentAt \cup {clock} /\ job.kind = "digest"
            /\ shown' = shown \cup {Move(b) : b \in job.body}
            /\ leftOut' = leftOut \cup {Move(b) : b \in job.left}
        BY <1>5, <2>3
      <3>2. t # clock
        BY <2>1
      <3>3. u = clock
        BY <2>3, <3>1, <3>2
      <3>4. PICK at : at = c.ts
        OBVIOUS
      <3>5. at >= clock - 2
        BY <2>1, <3>3, <3>4
      <3>6. PICK b \in job.body \cup job.left : Move(b) = Move(c)
        BY <3>1, <3>4, <3>5 DEF NoticeInv, JobCovers
      <3>7. QED
        BY <3>1, <3>6
    <2>4. QED
      BY <2>2, <2>3
  <1>8. QED
    BY <1>1, <1>3, <1>4, <1>6, <1>7 DEF NoticeInv

\* A copy whose marker is lost is a slip.
LEMMA LossKeepsInv ==
    ASSUME NoticeInv, Loses
    PROVE  NoticeInv'
  <1>1. /\ UNCHANGED <<clock, rows, changes, events, shows>> /\ TablesInv'
        /\ UNCHANGED <<digestSent, shown, leftOut, sentAt, copies>>
        /\ job' = NoJob
    BY TablesFrame DEF Loses, NoticeInv
  <1>2. /\ DOMAIN job' = JobFields /\ job'.kind = "none" /\ job'.ok = FALSE
        /\ job'.took = FALSE
    BY <1>1 DEF NoJob, JobFields
  <1>3. JobIsHonest' /\ JobCovers'
    BY <1>1, <1>2 DEF JobIsHonest, JobCovers
  <1>4. CopiesAreKnown'
    <2>1. slips' = IF Unmarked THEN slips + 1 ELSE slips
      BY DEF Loses, Unmarked
    <2>2. Unsent' = Unsent /\ Day(clock') = Day(clock) /\ ~Unmarked'
      BY <1>1, <1>2 DEF Unsent, Unmarked, Day
    <2>3. QED
      BY <1>1, <1>2, <2>1, <2>2 DEF NoticeInv, CopiesAreKnown
  <1>5. (\A t \in sentAt : t \in Nat /\ t <= clock)' /\ DigestsFollow'
    BY <1>1 DEF NoticeInv, DigestsFollow, MovesAreDigested
  <1>6. QED
    BY <1>1, <1>3, <1>4, <1>5 DEF NoticeInv

-----------------------------------------------------------------------------
(* Everything beside the jobs.                                             *)

\* Time passes, with a poll or without.  What a poll records is later than
\* every digest saved so far; a new day has no copies and no slips yet.
LEMMA AdvanceKeepsInv ==
    ASSUME NoticeInv, Advances
    PROVE  NoticeInv'
  <1>1. /\ UNCHANGED <<digestSent, job, shown, leftOut, sentAt>> /\ job = NoJob
        /\ copies' = IF NewDay THEN 0 ELSE copies
        /\ slips' = IF NewDay THEN 0 ELSE slips
    BY DEF Advances
  <1>2. /\ TablesInv' /\ clock' = clock + 1 /\ clock \in Nat
        /\ \A c \in changes' : c \in changes \/ c.ts = clock
    <2>1. CASE UNCHANGED tables /\ clock' = clock + 1
      <3>1. UNCHANGED <<rows, changes, events, shows>>
        BY <2>1 DEF tables
      <3>2. clock \in Nat /\ clock' \in Nat /\ clock <= clock' /\ clock >= FirstPollAt
        BY <2>1 DEF NoticeInv, TablesInv, Inv
      <3>3. Ids' = Ids
        BY <3>1 DEF Ids
      <3>4. RowsAreOld'
        BY <3>1, <3>2, <3>3, OldRowsAge DEF NoticeInv, TablesInv, Inv, RowsAreOld
      <3>5. EventsHaveRows'
        BY <3>1, <3>3 DEF NoticeInv, TablesInv, Inv, EventsHaveRows
      <3>6. ChangesHaveRows'
        BY <2>1, <3>1, <3>2, <3>3 DEF NoticeInv, TablesInv, Inv, ChangesHaveRows
      <3>7. clock' >= FirstPollAt
        BY <3>2, <2>1 DEF FirstPollAt
      <3>8. Inv'
        BY <3>2, <3>4, <3>5, <3>6, <3>7 DEF Inv
      <3>9. RowsHaveIds' /\ (PagesAreWhole => RowsArePriced')
        BY <3>1, <3>3 DEF NoticeInv, TablesInv, RowsHaveIds, RowsArePriced
      <3>10. QED
        BY <2>1, <3>1, <3>2, <3>8, <3>9 DEF TablesInv
    <2>2. ASSUME NEW listed \in Listings, Poll(listed)
          PROVE  /\ TablesInv' /\ clock' = clock + 1 /\ clock \in Nat
                 /\ \A c \in changes' : c \in changes \/ c.ts = clock
      <3>1. TablesInv'
        BY <2>2, PollKeepsInv, PollKeepsIds, PollKeepsPriced DEF NoticeInv, TablesInv
      <3>2. clock' = clock + 1
        BY <2>2, PollShape
      <3>3. \A c \in changes' : c \in changes \/ c.ts = clock
        BY <2>2, PollRecords
      <3>4. QED
        BY <3>1, <3>2, <3>3 DEF NoticeInv, TablesInv, Inv
    <2>3. QED
      BY <2>1, <2>2 DEF Advances
  <1>3. /\ job'.kind = "none" /\ JobIsHonest' /\ JobCovers'
        /\ ~Unmarked /\ ~Unmarked'
    BY <1>1 DEF NoticeInv, JobIsHonest, JobCovers, Unmarked, NoJob
  <1>4. CopiesAreKnown'
    <2>1. /\ Day(clock) \in Nat /\ Day(clock') \in Nat
          /\ Day(clock) <= Day(clock')
      BY <1>2, DayFacts
    <2>2. CASE NewDay
      BY <1>1, <1>3, <2>1, <2>2 DEF NoticeInv, CopiesAreKnown
    <2>3. CASE ~NewDay
      <3>1. Unsent' = Unsent
        BY <1>1, <2>3 DEF NewDay, Unsent
      <3>2. QED
        BY <1>1, <1>3, <2>1, <2>3, <3>1 DEF NoticeInv, CopiesAreKnown
    <2>4. QED
      BY <2>2, <2>3
  <1>5. \A t \in sentAt' : t \in Nat /\ t <= clock'
    BY <1>1, <1>2 DEF NoticeInv
  <1>6. DigestsFollow'
    <2> SUFFICES ASSUME PagesAreTold,
                        NEW t \in sentAt, NEW u \in sentAt, t < u, u - t <= 2,
                        NEW c \in changes', c.ts \in t .. u - 1
                 PROVE  Move(c) \in shown \cup leftOut
      BY <1>1 DEF DigestsFollow, MovesAreDigested
    <2>1. t \in Nat /\ u \in Nat /\ u <= clock /\ clock \in Nat
      BY <1>2 DEF NoticeInv
    <2>2. c \in changes
      BY <1>2, <2>1
    <2>3. QED
      BY <2>2 DEF NoticeInv, DigestsFollow, MovesAreDigested
  <1>7. QED
    BY <1>2, <1>3, <1>4, <1>5, <1>6 DEF NoticeInv

\* A merge gives changes to other rows and leaves their labels alone.
LEMMA MergesKeepInv ==
    ASSUME NoticeInv, Merges
    PROVE  NoticeInv'
  <1>1. /\ UNCHANGED <<clock, digestSent, job, shown, leftOut, sentAt, copies, slips>>
        /\ TablesInv'
    BY MergeKeepsInv, MergeKeepsIds, MergeKeepsPriced
       DEF Merges, MergeDuplicates, history, NoticeInv, TablesInv
  <1>2. \A r \in changes' : \E c \in changes : r.ts = c.ts /\ Move(r) = Move(c)
    BY ReassignedShape DEF Merges, NoticeInv, TablesInv, Move
  <1>3. JobIsHonest' /\ CopiesAreKnown'
    BY <1>1 DEF NoticeInv, JobIsHonest, CopiesAreKnown, Unsent, Unmarked, Day
  <1>4. JobCovers'
    BY <1>1, <1>2 DEF NoticeInv, JobCovers
  <1>5. DigestsFollow'
    BY <1>1, <1>2 DEF NoticeInv, DigestsFollow, MovesAreDigested
  <1>6. QED
    BY <1>1, <1>3, <1>4, <1>5 DEF NoticeInv

\* An edit of the settings touches nothing of a job in progress.
LEMMA SettingsKeepInv ==
    ASSUME NoticeInv, PutSettings \/ PutWatch \/ UNCHANGED noticeVars
    PROVE  NoticeInv'
  <1>1. /\ UNCHANGED <<clock, rows, changes, events, shows>> /\ TablesInv'
        /\ UNCHANGED <<digestSent, job, shown, leftOut, sentAt, copies, slips>>
    BY TablesFrame DEF PutSettings, PutWatch, noticeVars, history, NoticeInv
  <1>2. JobIsHonest' /\ CopiesAreKnown' /\ JobCovers' /\ DigestsFollow'
    BY <1>1 DEF NoticeInv, JobIsHonest, CopiesAreKnown, Unsent, Unmarked, Day,
                JobCovers, DigestsFollow, MovesAreDigested
  <1>3. QED
    BY <1>1, <1>2 DEF NoticeInv

\* Nothing has been sent and no job runs.
LEMMA InitNoticeInv == NoticeInit => NoticeInv
  <1> SUFFICES ASSUME NoticeInit
               PROVE  NoticeInv
    OBVIOUS
  <1>1. /\ TablesInv /\ digestSent = None /\ job = NoJob /\ sentAt = {}
        /\ copies = 0 /\ slips = 0
    BY InitInv, InitIds, InitPriced DEF NoticeInit, TablesInv
  <1>2. JobIsHonest /\ JobCovers /\ job.kind = "none"
    BY <1>1 DEF JobIsHonest, JobCovers, NoJob, JobFields
  <1>3. CopiesAreKnown /\ DigestsFollow
    BY <1>1, <1>2 DEF CopiesAreKnown, DigestsFollow, MovesAreDigested
  <1>4. QED
    BY <1>1, <1>2, <1>3 DEF NoticeInv

\* Every step keeps the invariant.
LEMMA StepKeepsNoticeInv == NoticeInv /\ [NoticeNext]_noticeVars => NoticeInv'
  BY StartKeepsInv, AttemptKeepsInv, UnconfiguredKeepsInv, SaveKeepsInv,
     LossKeepsInv, AdvanceKeepsInv, MergesKeepInv, SettingsKeepInv
     DEF NoticeNext

-----------------------------------------------------------------------------
(* The theorems.                                                           *)

\* All of the above is invariant.
THEOREM NoticeInvariance == NoticeSpec => []NoticeInv
  BY InitNoticeInv, StepKeepsNoticeInv, PTL DEF NoticeSpec

\* A digest is sent once a day, save for copies nobody could know of, however
\* often the job runs and whatever becomes of it (digest.py, digest_tick).
THEOREM DigestOnce == NoticeSpec => []OneDigestADay
  <1>1. NoticeInv => OneDigestADay
    BY DEF NoticeInv, CopiesAreKnown, OneDigestADay
  <1>2. QED
    BY <1>1, NoticeInvariance, PTL

\* The markers of digest and heartbeat move only for a push the server took,
\* through all of a send's retries, or when there is no server.
THEOREM EarnedMarkers == NoticeSpec => MarkerIsEarned
  <1>1. NoticeInv /\ [NoticeNext]_noticeVars
          => [digestSent' # digestSent \/ beatSent' # beatSent =>
                 job.took \/ ~job.server]_noticeVars
    <2> SUFFICES ASSUME NoticeInv, NoticeNext,
                        digestSent' # digestSent \/ beatSent' # beatSent
                 PROVE  job.took \/ ~job.server
      OBVIOUS
    <2>1. Saves
      BY DEF NoticeNext, DigestStarts, BeatStarts, PluginAlert, Starts, Attempt,
             Unconfigured, Loses, Advances, Merges, PutSettings, PutWatch
    <2>2. QED
      BY <2>1 DEF Saves, NoticeInv, JobIsHonest
  <1>2. QED
    BY <1>1, NoticeInvariance, PTL DEF NoticeSpec, MarkerIsEarned

\* When every page names a variant and no discount needs rounding, each
\* recorded move is in some digest as long as the digests follow each other
\* within a day, but for those of variants of which that digest found nothing
\* on sale at a known price, or of a disabled watch (digest.py, digest_tick and
\* _offer_blocks).
THEOREM NoMoveSkipped ==
    ASSUME PagesAreTold
    PROVE  NoticeSpec => []MovesAreDigested
  <1>1. NoticeInv => MovesAreDigested
    BY DEF NoticeInv, DigestsFollow
  <1>2. QED
    BY <1>1, NoticeInvariance, PTL
=============================================================================

# StockTrack in TLA+

StockTrack polls shop pages on a schedule, notices when a product comes into
stock, goes out, or changes its price, pushes an alert to a Gotify server and
keeps a history of what happened. Its promise is *delivery-safety*: an event is
recorded when, and only when, its push was accepted, and a failed push is
tried again by a later poll. The promise must hold while a scheduler tick and
"Check now" requests overlap, pushes fail, products are muted, watches are
deleted and the process restarts. These modules state that promise and those of
what surrounds it (the history, the digest, the offers, the sign-in), check
them on small instances with TLC, and prove most of them for every instance
with TLAPS.

Paths below are relative to the repository; `poller.py` is
`backend/stocktrack/services/poller.py` and `main.py` is
`backend/stocktrack/main.py`.

## The system

One asyncio process runs a FastAPI application and an APScheduler. SQLite is
the only store, one session per job or request, and blocking calls (fetches,
pushes, password hashes) run in threads, so every `await` is a place where
another coroutine may move. SQLite has one write lock; a session takes it with
its first flush and keeps it until it commits or rolls back. A reader takes
none, so what a session has read may be old by the time it writes.

| component | state it keeps | operations | what makes it correct | module |
| --- | --- | --- | --- | --- |
| poller, stock side (`poller.py`) | `Product` rows, `Event` rows, `_watch_locks` | `check_watch`: fetch, load, stage, `_dispatch`, commit | one event per transition; row and history agree; failed pushes are retried; durations are true | `Poller` |
| poller, price side (`poller.py`, `offers.py`) | `current_price`, `price_ref`, `lowest_price`, `ProductChange` rows | the same poll | slow creeps are noticed; what was told is not repeated; recorded moves form a chain | `PriceAlerts` |
| poll tick (`main.py`) | `consecutive_failures`, `_failure_alerted` | `poll_tick` | one warning per outage, a lasting outage warned of, no failure undone by another's bookkeeping | `WatchHealth` |
| watch and product routes | `Watch` rows, `muted_until` | create, update, delete, "Check now", mute | no orphans; edits do not corrupt a check in flight | `Poller`, `WatchHealth` |
| archival | `archived_at` | select, then write | does not disturb the history | `Poller` |
| gotify sender | none | `send` with retries | never raises; reports acceptance | `Notices`; the others see accepted or not |
| lead time, `dateparse.py` | `delivery` | a push when an estimate moves far | the year is the true one; a failed push is owed | `Dates`, `OfferRows` |
| history, retention | `Event`, `ProductChange` rows | `build_episodes`, `prune_old_events`, `prune_old_changes` | episodes are the spells there were; pruning takes whole episodes | `Episodes`, `Records`, `OfferRows` |
| offers | `ProductChange` rows | list and audience prices, grouping, change summaries | what is shown is what the shop asks | `Offers`, `OfferRows` |
| dedupe (CLI) | `Product`, `Event`, `ProductChange` rows | `merge_duplicate_products` | idempotent, loses no event, keeps the summary | `OfferRows` |
| digest, heartbeat, plugin alert | `digest_last_sent`, `heartbeat_last_sent` | due-ness test, push, record | at most once per period, retried on failure, nothing skipped that can be shown | `Notices` |
| sessions, setup, tokens | `User`, `ApiToken` rows, cookies | setup, login, logout, create, revoke, verify | one user; a sign-out ends all cookies; live names unique; revoked stays revoked | `Access` |
| login throttle | in-memory table | check, record, reset, prune, evict | a lock lasts as long as promised, attempts and table bounded | `Throttle`, `Access` |
| settings | `Setting` rows | `PUT /settings` | an edit between a job's read and write does no harm | `Records`, `Notices` (some keys) |
| plugin registry, fetch layer, site handlers, formatting, read-only routes, migration, frontend, containers | see Not modelled | I/O, parsing, rendering | | `ao.py`'s phase in `Dates` |

How they interact: `poll_tick` (every interval) and `POST /watches/{id}/check`
both call `check_watch`, which serialises itself per watch id with an
`asyncio.Lock`. The other routes and jobs take no such lock; they meet a check
only through SQLite. The merge of duplicates runs in a process of its own, also
through SQLite only. `poll_tick` wraps `check_watch` and keeps the failure
counter around it. History, restock, digest and the dashboard read the rows
and events that the poller leaves.

What is hard here, and listed with its line under `hazards` in `PROJECT.json`:

* a check reads rows before its flush and pushes, and writes them after:
  deletion, re-creation, muting and archiving happen in between;
* each push of a check may fail on its own, or one grouped push for all, and
  each failure puts back a different set of columns;
* a crash after a push and before the commit repeats the push;
* the tick uses a counter that it read before waiting for the lock, and writes
  it to a database that another watch's check may hold for longer than it waits;
* an authenticated request reads a row, waits for a database call or an argon2
  slot, and goes on with what it read;
* a job pushes and then writes its marker, and may die in between, or have been
  heard by a server whose reply was lost;
* an id that SQLite hands out twice, and process-wide state keyed by it;
* time: gaps in polling, durations across retries, thresholds measured from a
  remembered peak, windows that cut an episode in two, dates without a year.

## Modules

### Poller

One watch, its products `Codes`, and the coroutines `Checkers` that may run
`check_watch` on it. The state is the committed rows (`db`), the history of
each product (`log`: its stock events, led by an entry for the insertion of the
row), the two locks, and for each check what it has in memory: the watch it was
started with (`asked`), its `now` (`at`), the parsed page (`page`), the rows it
loaded (`rows`) and the outcome of each push (`sent`).

A check goes through `idle`, `wait`, `fetch`, `staged`, `push`. `Begin` loads
the watch, `Acquire` takes the lock and reads the clock, `Load` parses a page
and selects the rows, `Flush` takes SQLite's write lock, `Push` or `PushGroup`
settles alerts, `Commit` writes. `FetchFails`, `FlushFails` and `CommitFails`
are the exceptions, after which the session is rolled back; `CommitFails`
happens exactly when an UPDATE would find no row. `Commit` computes the rows
and entries with `RowAfter` and `LogAfter`, which stand for the branches of the
poll loop and their closures. Staging and reverting in memory is folded into
that: what a branch writes optimistically and its failure closure puts back
never reaches the database in between.

Beside the checks: `CreateWatch`, `DeleteWatch`, `UpdateWatch`, `Mute`, the two
steps of the archival sweep, `Pass` (time without a check) and `Restart`.

Abstractions. A page lists any subset of the products in any phase, so filters
and parsers are covered. Phases stand for `availability` and
`current_in_stock` together, which the code always writes together. Price and
lead-time alerts are not in this module; they share the grouped push, which
here groups stock alerts only. An alert is grouped or not by the number of
stock alerts alone, and ungrouped outcomes are independent, so every outcome
of a mixed group is among those of `Push`. The flush is one step for all rows,
although a check that inserts several products flushes at each: the lock is
held from the first. An entry has two times: `at` is the check's `now`, by which
durations and `available_since` go; `ts` is `Event.ts`, which no check sets. Its
default is the time of the flush that writes the row, and the event of an alert
is added when its push is answered, so the model takes the time of the commit.
A product id handed out twice is not modelled, a watch id is (`ReuseIds`).

### PriceAlerts

One known product; a poll is one step, since `Poller` already covers what
overlaps it. `Staged` is the set of pushes a quote gives rise to and a poll
picks any subset of them as accepted; `PriceAfter`, `RefAfter`, `LowAfter` are
what the closures leave, `ChangeAfter` the row `apply_offer_fields` adds.
Silenced alerts count as accepted, as in the code. The settings of the watch
(`track`) may change between polls.

### WatchHealth

The counter, the threshold, `_failure_alerted`, one tick and some manual
checks. The tick's read of `prev_failures`, the check, the alert and the commit
are separate steps; the write lock that the flushed counter takes is
`DatabaseIsFree`. Whether the page can be read, whether Gotify accepts a push
and whether a write goes through are variables of the environment (`store`,
`gotify`, `writable`). The last is false while a check of another watch holds
the write lock across its pushes, when a writer gives up after five seconds.
The `except` block of `poll_tick` writes too, and is not guarded: `FlushFails`
and `CountFails` are its own two failures, after which nothing is counted and
what the push has already told stays told.

History variables the properties compare with: `streak`, the failures in a row;
`lost`, those of them whose bookkeeping was rolled back; `warned` and `open`,
the warnings delivered; `stranded`, whether the id stands in `_failure_alerted`
although the outage it was put there for is over (a manual success, a deletion,
a tick that read a counter of zero).

### StockLedger, the abstract specification

What the stock side promises, without checks, locks, pushes or failures: a
history per product and a row that is a function of it (`Shown`). `Settle`
appends to any products one line each, all seen at one time, after every line
before was written, and written at a later one; `Forget` removes a watch's
products at once. A line is the insertion of a product or a move to another
phase, and an `oos` line that closes a spell of availability carries the
spell's length.

`Poller` refines it by `Ledger == INSTANCE StockLedger WITH hist <- Book,
row <- Sheet`: `Book` is `log` without the mark of how each entry was told,
`Sheet` the columns of `db` a reader of the product sees. A `Commit` that
stands is a `Settle` or a stutter, `DeleteWatch` is `Forget`, time is `Tick`,
and every other step (acquire, load, flush, push, each failure, the archival
sweep, mute, restart) stutters. `Records` starts from the ledger instead of
from `Poller`, which is how history and retention get every history a poller
can produce at the price of a small state.

### Episodes and Records

`Episodes` is `services/history.py` as operators: `build_episodes` folds the
events of a product into episodes, `availability_stats` measures them in the
trailing window, `HistoryOf` is what `build_history` shows of a product. Prices
and rounding are left out; a mean is kept as its sum and count.

`Records` puts the ledger, the Event table and the retention sweep together.
`hist` keeps every line ever settled and `gone` those whose row was deleted, so
the table (`Table`) can be compared with what was. The sweep is two steps,
`SweepSelects` (read, reconstruct, choose) and `SweepDeletes` (by id, later);
checks commit in between, `SetDays` changes the setting, `SweepFails` rolls
back.

`Ordering` is Python's `sorted()` of a set, by the rank of each element. Both
components use it instead of the library's `SetToSortSeq` and `SortSeq`, which
choose among all sequences of the set and give a proof nothing to count with;
a rank is the cardinality of a set. (`MedianOf` keeps `SortSeq`: no property is
about the median.) For the same reason `discounts_to_json` picks by position
where the code filters a list.

### Offers, Dates and OfferRows

`Offers` is `services/offers.py` without its database calls: what a discount
saves, the list price behind a price quoted to one audience, what each audience
pays, the grouping and order of offers, the counts of changes. `Dates` is
`dateparse.py` over day numbers (counted as Python's `date.toordinal` does):
the nearest of three years or, rolled forward, the next date; the lead-time
filter of the poller and the phase of `ao.py` use it. What the regular
expression finds in a text is given as day and month.

`OfferRows` keeps one watch's rows with their ProductChange and Event rows.
`Poll` does what `apply_offer_fields` and the lead-time branch do to every
listed row, with any subset of the lead-time pushes accepted and any subset of
the rows whose price moved held back by a failed price push: those keep the old
price beside the new page's discounts and audience (`PriceAfter`). A code is
looked up by its folded form, as in the code. `MergeDuplicates` joins the rows
an earlier version left for one product; `PruneOldChanges` is the other half of
the retention sweep. `shows` remembers the page a row was last copied from and
`priced` the one its price is of, so that what is shown can be compared with
what the shop asked. The two differ after a failed price push; where they also
disagree on discounts or audience (`Agrees` is false), the price shown for an
audience is one nobody was ever asked, and the two properties about prices say
nothing of that row.

### Notices

The digest, the heartbeat and the plugin alert on top of `OfferRows`, which
goes on underneath with polls, merges, and edits of the settings. A job is a
read (`DigestStarts`, `BeatStarts`, `PluginAlert`), attempts of `gotify.send`
one at a time (`Attempt`), and the marker (`Saves`). An attempt is answered by
2xx, 4xx, 5xx, refused, or *lost*: taken by the server, with a reply that never
arrives. `Loses` is a crash, or a marker that finds the database locked. The
clock is in half days and stands still during a job, which takes seconds.

A digest counts a change in the block of its variant (`Report`), and a variant
has one only while an offer of it is on sale at a known price (`Blocks`) and the
watch is enabled. `PutWatch` turns that switch; a disabled watch can still be
checked by hand, so its polls go on. `shown` collects the moves that saved
digests counted and `leftOut` those of variants with nothing on sale, or of a
watch that was off, when one was sent (`OffSale`, stated by the rows and not by
the grouping).

### Throttle and Access

`Throttle` is each method of `LoginThrottle` as an operator from table to table
(or to the set of tables, where the eviction has a choice). `Access` is the
user, the sessions, the API tokens and the failure table under requests of
several clients. A request is cut at its awaits: a login is `LoginStarts`
(throttle), `LoginLooks` (the row), the queue for an argon2 slot (`Acquire`),
`LoginFails` or `LoginSucceeds`; setup, logout and the token routes likewise.
What is read before an await travels in `req`. Cookies, their age, the CSRF
cookie and the middleware's tests are there; signatures and password hashes are
not, a password is right or wrong. The singleton column of `user` and the
partial unique index of `api_token` are `InsertAllowed` and `IndexAllows`.
`Restart` loses the failure table and the requests in flight. Left out: the
per-address limits of slowapi (any number of requests gets through, which
only makes the properties harder), the read-only routes, and requests refused
on sight.

## Runs

| run | question | instance |
| --- | --- | --- |
| `poller_one` | Do overlapping checks, failures, crashes, a quiet switch, deletion and a reused id leave one product's row, history and durations right, does `Poller` implement `StockLedger`, and does every check end? | 1 product, 2 checkers, 3 clock steps, 2 creations |
| `poller_listing` | Do grouped pushes, partial pages, muting and archiving record only what was told, and is the first poll silent? | 2 products, 1 checker, 3 clock steps |
| `price_alerts` | Are creeps noticed, failures owed, told alerts settled, lows descending, moves chained? | 4 prices including 0, both thresholds in play |
| `watch_health` | Is a failure lost only when its own bookkeeping is refused, one warning sent at a time, and a lasting outage warned of? | 1 manual check, thresholds 2 and 3, 4 failures, 2 creations, 1 restart, writes that may be refused |
| `records` | Does History show the spells that were, before and after sweeps that select, wait and delete? | 1 product, 5 clock steps, retention off or 2, window 2 |
| `offers` | Are the prices shown those asked by the page the price is of, dates the true ones, failed lead-time alerts owed, and does a merge lose nothing? | 8 pages of 2 products, one in two spellings; at most 2 on a page; 30 December 2023 on; a watch of its own or two rows to merge; changes kept one unit |
| `notices` | Is a digest sent once a day, with every move it can show, and a marker written only for a push that was taken? | 2 pages, one in stock and one out, 2 attempts, a week of 2 days, 1 unacknowledged digest a day, 1 save of the settings or of the watch |
| `access` | One user, bounded attempts, sign-outs and revocations that reach everything, locks that hold, no request left waiting? | 2 clients, 4 names of which 2 fold alike, 1 slot, table of 2, limit of 2 failures, 4 requests |
| `poller_reused_id`, `poller_grace`, `price_alerts_mixed`, `watch_health_manual` | Four statements of the documentation the code does not keep | see Findings |

Bounds. `MaxTime` counts fetches as well as pauses: three suffice for a
baseline, a failed or accepted transition and its retry or reversal, which is
the longest chain a property relates; and for a product to be unlisted for
`StaleAfter`. Two creations are the least in which an id is reused. Two
checkers are the least that overlap; a third would only wait. Two products are
the least with a group, a partial page and a mixed outcome. `Mutable` is empty in
`poller_one`, where the quiet switch silences a check in flight as a mute does,
and holds both products in `poller_listing`. The price grid has
a drop below and a drop above each threshold, a creep of two small drops that
is a drop in sum, and zero. `MaxFailures` lies above both thresholds, so the
counter passes them.

In `records` five steps of the clock let a history open, close and open again
while a window of two passes over it, and a sweep select before the last of
these and delete after. In `offers` the codes `A` and `a` fold together; the
pages have a price quoted to everyone, to new and to returning customers, a
discount in money, one in percent, one for nobody known, unreported ones and
none at all; a delivery text for each side of the New Year, one without a date
and none. The first day lies two days before a New Year, after which comes a
leap year; `DatesAreRead` looks at every day and month of three years. In
`notices` the bounds allow a failed digest and its retry on the same day, a
crash between push and marker, two digests with a poll between that takes the
only offer off sale or brings it back, a watch switched off or on between two
digests, and a merge between a digest's read and its push. In `access` four
requests allow a failed, a locked and an evicting login and one more, a login
overlapping a sign-out, two creates and a revocation racing a use; `Mixes`
keeps the sign-in and the token routes in separate behaviours, joined by
`logout`, since they share only the session. A table of two entries is the
least in which an eviction has a choice, and the clock outlasts a window and a
lock.

Every property has a mutant in `PROJECT.json`, a plausible
slip in the code under which the same instance refutes it.

Deadlock is not checked where the clock is bounded or the watch may be gone for
good: the instance really stops there.

Fairness. In `Poller`: `asyncio.Lock` wakes its waiters in order (strong
fairness of `Acquire`); fetches and pushes have timeouts and bounded retries,
a flush that cannot get the database fails after five seconds, and a commit
returns (weak fairness of those steps). No fairness is assumed of users, of
time, or of a push being accepted. In `WatchHealth`: the scheduler fires
`poll_tick` at every interval and each await in it ends, as above; a write that
is refused ends too, and nothing says one is accepted. In `Access`:
`asyncio.Semaphore` hands its slots to waiters in turn and threads end (weak
fairness of `Acquire` on a FIFO queue), and a coroutine whose await is over is
scheduled (weak fairness of `GoesOn(c)`); no client has to ask for anything,
and the clock need not move. `Records`, `OfferRows` and `Notices` state no
liveness and assume no fairness.

## Properties

`Poller`: `OneEventPerTransition` (neighbouring entries of a history differ in
phase), `HistoryMatchesRows` (a row's phase is the one its history ends in),
`EventsWereTold`, `SinceOpensSpell` and `DurationSpansSpell` (the availability
clock survives early to public, failures and retries), `SilentBaseline`,
`NoOrphans`, and `EveryCheckEnds` (liveness). `PriceAlerts`:
`DropIffFarBelowPeak` relates an alert to the highest quote since the last drop
told, `FailedIsOwed` and `SettledWhenAllTold` are the two halves of
delivery-safety, `NewLowsDescend` and `MovesFollowQuotes` relate an event to
the one before. `WatchHealth`: `NoFailureUncounted` compares the stored counter
with the polls that really failed in a row: it is short by those whose own
bookkeeping was refused, and by no other; `OneWarningUntilRecovery` forbids a
second warning. `OutageIsAlerted` (liveness) says that a lasting outage is
warned of in fact, not only marked so, provided pushes and writes go through
from some time on, the watch stays, and no mark of an earlier outage is
stranded; what a stranded mark does is the finding about manual successes.

`Poller` against `StockLedger`: `ImplementsLedger`. `Records`:
`RetentionKeepsEpisodes` (what is left of the table reconstructs to what the
whole would, less episodes that ended before the cutoff), `EpisodesAreSpells`
(the fold over events against a definition by phases), `UptimeIsTimeBuyable`
(the overlap arithmetic against counting instants). `OfferRows`:
`OfferPricesAreReal` and `CheapestFirst` compare what is shown, after the
quoted audience's discount has been undone and another applied, with the page
the price is of, where the last page agrees with it on discounts and audience;
`DatesAreRead` is a reference for the year; `LateTextIsOwed` is delivery-safety
of lead-time alerts; `MergeKeepsHistory` says a merge loses no event but of
kind new_product, some of which are false, leaves none without a product,
leaves nothing to merge and counts as many changes as before. `Notices`:
`OneDigestADay` (copies the server took, but for those nobody could know of),
`MarkerIsEarned`, `MovesAreDigested` (digests at most a day apart leave no gap
between them, but for moves of what was not on sale or of a watch that was
off). `Access`: `OneUser`, `LogoutEndsAll` (also for logins that read the nonce
before the sign-out and set their cookie after it), `TokensStayDistinct`,
`RevokeSticks`, `LocksHold` (evictions under a flood of names spare locked
ones), `AttemptsAreBounded` (parallel logins of one name), `EveryRequestEnds`
(liveness).

## Findings

* **Reused watch id** (`SilentBaseline`). A check that was started for a
  deleted watch and is still waiting or fetching when a new watch gets the same
  id stores the old page under the new watch; the new watch's first own poll
  finds rows and alerts. docs/architecture.md calls the first poll a silent
  baseline.
* **Two-tick grace** (`DelistedAfterTwoMisses`). A comment in `poller.py` says
  the grace avoids flapping on partial pages. It is measured in time since the
  product was last seen, so after a pause of two intervals the first partial
  page delists.
* **Mixed outcomes** (`ToldIsSettled`). When one price push of a poll fails and
  another is accepted, the failed one's revert of `current_price` makes the
  next poll push and record the accepted one again. docs/architecture.md
  promises at most one event per transition.
* **Manual success mid-outage** (`StreakIsWarned`). A "Check now" that succeeds
  resets `consecutive_failures` but not `_failure_alerted`: the user gets no
  recovery notice, and no warning of the next streak of failures.
  docs/deployment.md promises both.

Noticed while modelling and not stated as properties:

* Poller and tick: the text of a failure push counts failures from the value
  read before the check and may overstate them after a manual success; a manual
  check that loaded a zero counter does not write it (the ORM saw no change); a
  mute set while pages are fetched does not silence that check's push; an
  archival sweep can archive a product a check has just brought back; event ids
  have no AUTOINCREMENT either, so a retention sweep that waits for the database
  across the deletion of a watch may delete events that took over its ids.
* Bookkeeping: when the write of a failure finds the database locked, the
  exception leaves `poll_tick` (`main.py:88`, `main.py:105`): the failure is not
  counted, and the watches after it in that tick are not polled.
* Offers: a failed price push puts the old price back beside the new page's
  discounts and audience (`poller.py:503`), and until the retry is accepted the
  list price and the audiences' prices are of no page.
* Prices: the first recorded move is lost when a poll without a price hides it,
  and pruning the last recorded change has the same effect; "lowest price ever
  seen" may be false after a failed push of a lower price; a drop and a rise can
  be staged by one poll; a discount whose size is unknown is dropped, and the
  list price is then computed as if there were none.
* Lead time: a creep below `lead_time_min_change_days` at each poll never
  alerts, since each text replaces the last; delisting compares codes as they
  are spelled while rows are matched by their folded form.
* History: public to early gives a negative lead (`history.py:22`); a spell
  opened by the insertion of an in-stock row is no episode of its own;
  `restock_pattern` takes the median of times of day, which wraps at midnight.
* Digest: the window is fixed at a day or a week, so a digest later in its day
  than the last one leaves a gap, a retention shorter than the window prunes
  what should be reported, only the thirty newest events are listed, and the
  changes of a variant with nothing on sale are not counted anywhere, even when
  they are why. The heartbeat's
  unset default is 0 in `heartbeat.py` and 24 in the settings route.
* Dedupe: the survivor keeps its own `available_since` and `price_audience`
  (`dedupe.py:9-13`), though the docstring speaks of the newest state.
* Sign-in: the throttle's window starts with the first failure and does not
  roll, as its comment says it does; a second of two racing revocations writes
  `revoked_at` again, though `token_service.py:75` says the first is kept; a
  login that overlaps a sign-out sets a cookie that is already dead. In the
  frontend, a late 401 signs a new session out (`authStore.ts:104`).

## Proofs

`PollerProofs` proves, for every set of products and checkers and every value
of the other constants:

| theorem | statement |
| --- | --- |
| `TypeCorrectness` | `Spec => []TypeOK` |
| `Alternation` | `Spec => []OneEventPerTransition` |
| `Agreement` | `Spec => []HistoryMatchesRows` |
| `Delivery` | `Spec => []EventsWereTold` |
| `Cleanup` | `Spec => []NoOrphans` |

They rest on one inductive invariant, `Inv`. None of the properties is
inductive alone: whether a commit may append an entry depends on what the
check loaded long before. `LockHeld` and `WriterHeld` say who holds the two
locks; `RowsStillHold` says that what a check in `staged` or `push` loaded is
what the table holds, but for rows deleted since, and for listed products not
even those once it has flushed; `SinceIsPast` says that no spell of
availability opened after the check's `now`, which is why a duration is a
natural number. The argument for a commit: a product whose row was loaded has
its phase still in the table (`RowsStillHold`), so the entry appended differs
from the last (`HistoryMatchesRows`); a product without a row has an empty
history, so any entry may lead it. `CommitTypes` and `CommitHistory` say this
for one product, `CommitKeepsInv` for the whole step. No other step writes a
phase or an entry: `EndsKeepsInv`, `InFlightKeepsInv`, `RoutesKeepInv`,
`ArchivalKeepsInv` and `EnvironmentKeepsInv` cover them action by action.

Assumptions: `Nobody` is not a checker, `None` is not a number, the numeric
constants are natural numbers. Nothing is assumed about fairness.

On top of these it proves the times and the refinement:

| theorem | statement |
| --- | --- |
| `Clocked` | `Spec => []SinceOpensSpell` |
| `Durations` | `Spec => []DurationSpansSpell` |
| `Refinement` | `Spec => ImplementsLedger` |
| `Silence` | `Spec => []SilentBaseline`, if `~ReuseIds` |

`TimedInv` strengthens `Inv` by `Times` (each row's `since` is where its history
opened the running spell, each closing entry carries the spell's length),
`RowsKeepSince` (what a check loaded still has the table's `since`) and
`LogIsPast` (every entry is older than the `now` of whoever holds the lock).
`OneRunningSpell` shows that a history has at most one running spell, so the
row is a function of the history (`RowsShowHistory`), and
`CommitLine` that a commit leaves a product as it was or with one well-formed
line more; together they make each commit a `Settle`. A line carries both times:
what was seen at a check's `now` is after everything written before it, since
the check took the lock later (`LogIsPast`), and is written at the commit.

`Silence` needs `ReuseIds` to be false: the run `poller_reused_id` shows that
the statement fails otherwise (see Findings). Then a watch is created once, and
a check cannot meet a table it has read as empty and a history that another
check began (`OneWatch`); the first line any history gets is a baseline
(`Baselined`).

`AccessProofs` proves, for every number of clients, names, tokens and slots:

| theorem | statement |
| --- | --- |
| `SingleUser` | `AccessSpec => []OneUser` |
| `SignOut` | `AccessSpec => []LogoutEndsAll` |
| `LiveNames` | `AccessSpec => []TokensStayDistinct` |
| `Revocation` | `AccessSpec => RevokeSticks` |
| `Lockout` | `AccessSpec => LocksHold` |
| `Guesses` | `AccessSpec => []AttemptsAreBounded` |

The invariant says what a request in flight carries. `Nonces`: every nonce in a
cookie or read by a login was the user's, so it is no later than the user's
now; one given out before a sign-out is earlier, which is why it never matches
again. `InFlight`: a token about to be written is where it was found. `Tokens`:
live names differ. `Table`: the failure table is finite and within its limit;
so an eviction removes one entry at most (`WithFits`, `CountedFits`), and one
that finds no unlocked entry finds all locked (`FailureKeepsLocks`).
Assumptions: the limits are positive, a lock is at least as long as the window
(both are in the defaults of `login_throttle.py`), at least two failures make
a lock, `None` is no number.

For `Guesses` the table is not enough: an entry that has run out is dropped
although passwords tried under it may lie in the window asked about.
`Attempts` ties the tries of a name to its entry. While there is an entry,
the last tries are those it counts, and of those before at most
`MaxFailures - 2` are within a window of its first (`Spell`), since the entry
they belonged to would have locked the name for longer than a window; while
there is none, at most that many are recent (`Quiet`). So no window holds more
than `MaxFailures - 2` and `MaxFailures` together. The counts are cardinalities
of sets of positions, not lengths of a filtered sequence, which the provers
could not reason about.

`HealthProofs` proves, for every set of thresholds and any number of manual
checks, failures and re-creations:

| theorem | statement |
| --- | --- |
| `TypeCorrectness` | `Spec => []TypeOK` |
| `Counting` | `Spec => []NoFailureUncounted` |
| `SingleWarning` | `Spec => []OneWarningUntilRecovery` |
| `MarksAreWarnings` | `Spec => []MarkedWasWarned` |

The tick writes one more than a value it read before the check. That is enough
because nobody but the tick lengthens a streak, so what a tick in flight has
read is, with what was rolled back, still no less than the streak
(`ReadIsEnough`); a deleted watch has no streak (`GoneHasNone`), so a re-created
one starts right; and as long as a warning is open, `_failure_alerted` says so
(`OpenIsRemembered`). `MarkedWasWarned` is the safety side of `OutageIsAlerted`:
a mark that is not stranded stands for a warning delivered in this streak, so
no other mark keeps a due warning back.

`PriceProofs` proves, for every set of prices and every pair of thresholds:

| theorem | statement |
| --- | --- |
| `TypeCorrectness` | `Spec => []TypeOK` |
| `Creeps` | `Spec => []DropIffFarBelowPeak` |
| `Delivery` | `Spec => []FailedIsOwed` |
| `Settlement` | `Spec => []SettledWhenAllTold` |
| `Lows` | `Spec => []NewLowsDescend` |
| `Moves` | `Spec => MovesFollowQuotes` |

What is carried from poll to poll: `price_ref` is the highest quote since the
last drop told (`RefIsPeak`), `lowest_price` is no higher than the last
new_low (`LowIsCovered`), the last move ends at the last quote
(`MovesEndAtSeen`). Of the two thresholds only `NothingFromItself` is used: a
price is neither a drop nor a rise from itself.
Assumptions: prices and thresholds are natural numbers, `None` is none.

`OfferProofs` proves, for every finite set of pages and every folding of codes:

| theorem | statement |
| --- | --- |
| `LateText` | `OfferSpec => LateTextIsOwed` |
| `Merging` | `OfferSpec => MergeKeepsHistory` |
| `RealPrices` | `OfferSpec => []OfferPricesAreReal`, if `PagesAreWhole` |
| `CheapestFirstAlways` | `OfferSpec => []CheapestFirst`, if `PagesAreWhole` |
| `TrueYear` | `OfferSpec => []DatesAreRead`, for every first day from the year 1 on |
| `MonthsFollow` | the days of months and years follow one another without a gap |

The invariant: each row was last seen before now (`RowsAreOld`, which tells
rows that a poll has just written from the others), each event and each change
has a row (`EventsHaveRows`, `ChangesHaveRows`), and ids are bounded, so
inserted rows get new ones. For a merge, `Survivor` and `Newest` are well
defined because a group is finite and not empty, and two survivors of one code
are one row.

That the summary counts as many changes after a merge as before takes two
steps. Changes are recorded only of the row a check finds, the last of its code
(`ChangesAreOwned`): two changes that a merge makes equal were recorded of one
code, so of one row, and were equal before it. Rewriting them is a bijection,
and there are as many as before. And the summary counts each change once, in
whatever variants the rows lie now: every row has its id (`RowsHaveIds`), the
variants listed are those of the rows, each once (`VariantsOnce`), so the
changes of the variants are disjoint sets that make up all changes
(`CountedIs`). `SharesAddUp` is the sum: the function that gives the number of
changes in a set of variants satisfies the recursion of `MapThenSumSet`, and
any that does agrees with it on the smallest set on which it would not.

The prices come from `RowsAreCopies`: a row holds the discounts and audience of
the page last copied and the quote of the page its price is of, and a merge,
which may put the price of one row beside the audience of another, forgets the
pages of the rows it joins. Where the two pages agree, what is left is
arithmetic: a discount saves no more than the price (`SavingFacts`), undoing it
gives the price back or nothing (`UndoneFacts`), the best of one discount is
that discount (`BestFacts`), and those `discounts_to_json` drops, for an
audience it does not know or of no size, save nobody anything (`StoredFacts`).
`PagesAreWhole` asks that no amount exceeds the price and no percentage leaves
a fraction: prices are whole numbers in the model, and a rounded percentage,
undone, may be a unit off. All pages of `MCOffers` satisfy it.

For their order a row carries a price and discounts that are numbers or not
known (`RowsArePriced`), so `Cheaper` and `SeenBefore` are strict total orders.
`ByRank` (in `OrderProofs`) says that what is listed by rank in such an order
lists each element once and in order: the ranks of a finite set count from
nothing without a gap (`RanksCount`). With the prices just proved real, the
order of what is shown is the order of what a newcomer is asked.

A day is at least 365 days before the same day of the next year
(`SameDayNextYear`), leap days included. So two candidates are never
within 364 days of each other, and the true one is the nearest if within 182
days of today, the first to come if less than a year ahead.
Assumptions (`CalendarAssumption`): the first day is in the first year and the
last poll at most 365 days later; `None` is no date.

`RecordProofs` proves, for every set of products, every set of retentions and
every window:

| theorem | statement |
| --- | --- |
| `EpisodesAreSpellsAlways` | `RecordsSpec => []EpisodesAreSpells` |
| `RetentionKeepsEpisodesAlways` | `RecordsSpec => []RetentionKeepsEpisodes` |
| `UptimeIsTimeBuyableAlways` | `RecordsSpec => []UptimeIsTimeBuyable` |

These are about two loops over histories of any length, where induction is out
of reach. A loop is told from its *trace*, a function that gives what it has
after each line: a trace satisfies the recursion behind `FoldLeft`
(`IterationIsTrace`, by the smallest set of lines at which it would not), so it
is enough to say what the trace is. For the walk of `build_episodes` it is the
episodes of the spells told of that have ended by the line, and the open one
if there is one (`AlongLines`); at a *boundary*, a line after which nothing is
open, a walk may as well begin, and finds the episodes after it
(`EpisodesFrom`).

The invariant, `RecordInv`, has three parts. `HistoryInv`: lines come in the
order of time, neighbours differ in phase, a closing line carries the length of
its spell; from it follows `EpisodesAreSpells`. `Swept`: what was deleted of a
product is the rows before a boundary, which the last cutoff places: every
episode before it ended before the cutoff, every one after it did not.
Without the boundary, what is left of the table could begin within an episode.
`Armed` says the same of the rows a sweep has selected and not yet deleted,
joined to those deleted: checks commit between the two steps, but what they
append lies after the boundary (`CutGrows`), and a row appended at or after the
cutoff may close an episode but not one before it. For the uptime, the episodes
found are disjoint and in order, so what they overlap of the window adds up to
the number of instants they cover.

`NoticeProofs` proves, over the rows of `OfferProofs` and for any number of
retries, edits and days in the week:

| theorem | statement |
| --- | --- |
| `DigestOnce` | `NoticeSpec => []OneDigestADay` |
| `EarnedMarkers` | `NoticeSpec => MarkerIsEarned` |
| `NoMoveSkipped` | `NoticeSpec => []MovesAreDigested`, if `PagesAreTold` |

A digest is due only while nothing is written for today, so there is at most
one copy more than slips, counting the one in flight (`CopiesAreKnown`).
`JobCovers` says that what a digest has read still covers the moves since the
last one when it is saved: polls in between record later times, and a merge
gives changes to other rows but leaves their times and fields. What a digest
reads it either counts or leaves out by design (`ReportCovers`): when an offer
of the change's variant is on sale at a price, the grouping of the offers has
that variant and that price in it (`OnSaleHasBlock`, by the ranks of
`OrderProofs`). The digest counts changes only for a watch some product of which
has a variant (`has_variants`), so the theorem asks that every page names one,
and, for the order of the offers, that pages are whole (`PagesAreTold`), as
those of `MCNotices` are; a row that no poll has seen since may still have no
variant.

Only model-checked:

* `EveryCheckEnds`, `OutageIsAlerted`, `EveryRequestEnds`: liveness, where the
  provers handle neither fairness nor ENABLED.
* the four statements the code does not keep.

Every other property of a run is a theorem.

## Not modelled

* The plugin registry: imports Python files once at startup, before anything
  runs beside it.
* The fetch layer and the site handlers, but for `ao.py`'s phase: network I/O
  and parsing of third-party pages. A check sees a page or an exception, and a
  page may list anything.
* Encryption of settings, seeding from the environment, the additive migration:
  sequential, at startup. Settings are constants of the modules or change freely.
* Read-only routes, response schemas, message texts, `restock_pattern`: display.
* The rate limits per address, which are slowapi's.
* Duplicate codes on one page: what should happen is said nowhere.
* The frontend: its stores keep the last answer of one request. Late answers
  are listed as a hazard, no property says which answer should win.
* Containers, the proxy, a commit hook.

## Plan

Done: `Poller`, `PriceAlerts`, `WatchHealth`; `StockLedger` and the refinement;
`Episodes`, `Records`; `Offers`, `Dates`, `OfferRows`; `Notices`; `Throttle`,
`Access`; `Ordering` and `OrderProofs`; `PollerProofs`, `AccessProofs`,
`HealthProofs`, `PriceProofs`, `OfferProofs`, `NoticeProofs`, `RecordProofs`.

Left: the frontend stores, once something says which of two answers should win.

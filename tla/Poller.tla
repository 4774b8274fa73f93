------------------------------- MODULE Poller -------------------------------
(***************************************************************************)
(* The stock side of services/poller.py: what one watch's checks do to its *)
(* product rows and to the Event table.                                    *)
(*                                                                         *)
(* A check is the coroutine check_watch.  The scheduler's poll_tick and    *)
(* the "Check now" route both run it, so several are in flight at once;    *)
(* each await is a place where the others move, and is a step here:        *)
(*                                                                         *)
(*   idle -> wait -> fetch -> staged -> push -> idle                       *)
(*                                                                         *)
(* wait    the Watch row is loaded, the per-watch asyncio.Lock is not held *)
(* fetch   the lock is held, the page is being fetched                     *)
(* staged  the Product rows are loaded and the alerts staged, in memory    *)
(* push    the session has flushed, so it holds SQLite's write lock; the   *)
(*         alerts go to Gotify, then one commit ends the check             *)
(*                                                                         *)
(* Product rows are cascade-deleted by the delete-watch route, and SQLite  *)
(* hands a freed watch id out again when it was the highest (ReuseIds).    *)
(*                                                                         *)
(* log[k] is the history of product k: its Event rows of stock kinds, led  *)
(* by one entry for the insertion of the row itself ("baseline" on a first *)
(* poll, "unannounced" for a new product whose push failed), which writes  *)
(* no Event.  `at' is the check's `now'; `ts' is the column Event.ts,      *)
(* which no check sets: its default is the time of the flush, and that is  *)
(* the commit's, when all pushes have been answered.  `told' is how the    *)
(* alert was settled, `by' which creation of the watch the check was       *)
(* started for.  `at', `told' and `by' are read by the properties only.    *)
(***************************************************************************)
EXTENDS Naturals, FiniteSets, Sequences

CONSTANTS Codes,           \* product codes of the watch, casefolded
          Checkers,        \* coroutines that may run check_watch
          Nobody,          \* no checker: the lock is free
          None,            \* SQL NULL
          StaleAfter,      \* 2 * watch.interval_seconds, in clock units
          ArchiveAfter,    \* product_archive_days, in clock units
          GroupThreshold,  \* alert_group_threshold, 0 disables grouping
          Mutable,         \* bound: products the user mutes at times
          ReuseIds,        \* may a deleted watch's id be handed out again?
          MaxTime,         \* bound: the clock stops here
          MaxInc           \* bound: creations of the watch

ASSUME CheckersAssumption == Nobody \notin Checkers
ASSUME NoneAssumption == None \notin Nat
ASSUME NumbersAssumption ==
    /\ StaleAfter \in Nat /\ ArchiveAfter \in Nat /\ GroupThreshold \in Nat
    /\ MaxTime \in Nat /\ MaxInc \in Nat
    /\ ReuseIds \in BOOLEAN

VARIABLES
    clock,      \* datetime.now
    live, inc,  \* the Watch row exists; how often it was created
    quiet,      \* watch.quiet
    lastOk,     \* watch.last_ok_at
    db,         \* the committed Product row of each code
    log,        \* the history of each code, see above
    lock,       \* holder of _watch_locks[watch.id]
    writer,     \* holder of SQLite's write lock
    sweep,      \* rows archival_tick has selected and not yet written
    pc,         \* where each check is
    asked,      \* the Watch object each check was started with
    at,         \* each check's `now'
    page,       \* what each check parsed: the phase of each listed code
    rows,       \* the Product rows each check loaded
    sent        \* how each staged alert was settled

watchVars == <<live, inc, quiet>>
checkVars == <<pc, asked, at, page, rows, sent>>
vars == <<clock, watchVars, lastOk, db, log, lock, writer, sweep, checkVars>>

-----------------------------------------------------------------------------
Phases == {"oos", "early", "public"}

Absent == "absent"          \* the parse does not list the product

Row == [here: BOOLEAN, phase: Phases, since: Nat \cup {None}, seen: Nat,
        muted: BOOLEAN, archived: BOOLEAN]

NoRow == [here |-> FALSE, phase |-> "oos", since |-> None, seen |-> 0,
          muted |-> FALSE, archived |-> FALSE]

Kinds == {"baseline", "unannounced",                       \* no Event row
          "new_product", "early_access", "public", "oos"}  \* Event.kind

Told == {"unsent", "pushed", "failed", "silenced"}

Entry == [kind: Kinds, phase: Phases, at: Nat, ts: Nat, secs: Nat \cup {None},
          told: Told, by: Nat]

IsEvent(e) == e.kind \notin {"baseline", "unannounced"}

-----------------------------------------------------------------------------
(* What a check decides from the rows it loaded and the page it parsed.    *)

Listed(c, k) == page[c][k] # Absent

AnyListed(c) == \E k \in Codes : Listed(c, k)

\* mutant: every poll takes itself for a later one
NeverFirstPoll(c) == FALSE

FirstPoll(c) == \A k \in Codes : ~rows[c][k].here

\* mutant: a row already out of stock is delisted again
DelistedAnyPhase(c, k) ==
    /\ AnyListed(c)
    /\ rows[c][k].here /\ ~Listed(c, k)
    /\ at[c] - rows[c][k].seen >= StaleAfter

Delisted(c, k) ==
    /\ AnyListed(c)
    /\ rows[c][k].here /\ ~Listed(c, k)
    /\ rows[c][k].phase # "oos"
    /\ at[c] - rows[c][k].seen >= StaleAfter

Discovered(c, k) == ~FirstPoll(c) /\ ~rows[c][k].here /\ Listed(c, k)

Moved(c, k) ==
    /\ rows[c][k].here /\ Listed(c, k)
    /\ page[c][k] # rows[c][k].phase

Alerting(c) == {k \in Codes : Discovered(c, k) \/ Moved(c, k) \/ Delisted(c, k)}

\* _dispatch: a muted product, and every product of a quiet watch, is
\* recorded without a push.
Silenced(c, k) == asked[c].quiet \/ rows[c][k].muted

Sendable(c) == {k \in Alerting(c) : ~Silenced(c, k)}

Grouped(c) == GroupThreshold > 0 /\ Cardinality(Sendable(c)) >= GroupThreshold

\* mutant: the outcome of the push is not looked at
AcceptedAnyway(c, k) == sent[c][k] # "unsent"

Accepted(c, k) == sent[c][k] \in {"pushed", "silenced"}

NextPhase(c, k) == IF Listed(c, k) THEN page[c][k] ELSE "oos"

-----------------------------------------------------------------------------
(* The rows and the log entries a check leaves.                            *)

\* mutant: early -> public restarts the availability clock
SinceRestarted(c, k, old, new) == IF new = "oos" THEN None ELSE at[c]

\* mutant: available_since is taken when the event is written
SinceWritten(c, k, old, new) ==
    IF new = "oos" THEN None
    ELSE IF old = "oos" THEN clock ELSE rows[c][k].since

SinceAfter(c, k, old, new) ==
    IF new = "oos" THEN None
    ELSE IF old = "oos" THEN at[c] ELSE rows[c][k].since

Inserted(c, k) ==
    LET phase == IF FirstPoll(c) \/ Accepted(c, k) THEN page[c][k] ELSE "oos"
    IN  [here |-> TRUE, phase |-> phase,
         since |-> IF phase = "oos" THEN None ELSE at[c],
         seen |-> at[c], muted |-> FALSE, archived |-> FALSE]

\* mutant: a failed alert does not put available_since back
UpdatedOptimistically(c, k) ==
    LET changed == k \in Alerting(c) /\ Accepted(c, k)
    IN  [db[k] EXCEPT
           !.phase = IF changed THEN NextPhase(c, k) ELSE @,
           !.since = IF k \in Alerting(c)
                     THEN SinceAfter(c, k, rows[c][k].phase, NextPhase(c, k))
                     ELSE @,
           !.seen = IF Listed(c, k) THEN at[c] ELSE @,
           !.archived = IF Listed(c, k) /\ rows[c][k].archived THEN FALSE ELSE @]

\* Only the columns a check changes are written: muted_until never, and
\* archived_at only when the loaded row had it set, so both keep what others
\* committed since.  A failed alert puts back what it staged.
Updated(c, k) ==
    LET changed == k \in Alerting(c) /\ Accepted(c, k)
    IN  [db[k] EXCEPT
           !.phase = IF changed THEN NextPhase(c, k) ELSE @,
           !.since = IF changed
                     THEN SinceAfter(c, k, rows[c][k].phase, NextPhase(c, k))
                     ELSE @,
           !.seen = IF Listed(c, k) THEN at[c] ELSE @,
           !.archived = IF Listed(c, k) /\ rows[c][k].archived THEN FALSE ELSE @]

RowAfter(c, k) ==
    IF rows[c][k].here THEN Updated(c, k)
    ELSE IF Listed(c, k) THEN Inserted(c, k) ELSE db[k]

EventKind(c, k) ==
    IF ~rows[c][k].here THEN "new_product"
    ELSE CASE NextPhase(c, k) = "oos" -> "oos"
           [] NextPhase(c, k) = "early" -> "early_access"
           [] NextPhase(c, k) = "public" -> "public"

\* mutant: the operands of the subtraction swapped
SecondsReversed(c, k) ==
    LET since == rows[c][k].since
    IN  IF EventKind(c, k) # "oos" \/ since = None \/ since = at[c]
        THEN None ELSE since - at[c]

\* available_seconds: carried by oos events only, NULL when unknown or zero
Seconds(c, k) ==
    LET since == rows[c][k].since
    IN  IF EventKind(c, k) # "oos" \/ since = None \/ since = at[c]
        THEN None ELSE at[c] - since

\* What the commit's flush writes, stamped with its own time.
EntryOf(c, k, kind, phase) ==
    [kind |-> kind, phase |-> phase, at |-> at[c], ts |-> clock, secs |-> Seconds(c, k),
     told |-> sent[c][k], by |-> asked[c].inc]

\* mutant: the event is added when the alert is staged
LogWhenStaged(c, k) ==
    IF FirstPoll(c) /\ Listed(c, k)
    THEN Append(log[k], EntryOf(c, k, "baseline", page[c][k]))
    ELSE IF k \in Alerting(c)
    THEN Append(log[k], EntryOf(c, k, EventKind(c, k), NextPhase(c, k)))
    ELSE log[k]

LogAfter(c, k) ==
    IF FirstPoll(c) /\ Listed(c, k)
    THEN Append(log[k], EntryOf(c, k, "baseline", page[c][k]))
    ELSE IF k \in Alerting(c) /\ Accepted(c, k)
    THEN Append(log[k], EntryOf(c, k, EventKind(c, k), NextPhase(c, k)))
    ELSE IF Discovered(c, k)
    THEN Append(log[k], EntryOf(c, k, "unannounced", "oos"))
    ELSE log[k]

-----------------------------------------------------------------------------
NoAsk == [inc |-> 0, quiet |-> FALSE]
NoPage == [k \in Codes |-> Absent]
NoRows == [k \in Codes |-> NoRow]
NoneSent == [k \in Codes |-> "unsent"]
NoLog == [k \in Codes |-> <<>>]

Init ==
    /\ clock = 0
    /\ live = FALSE /\ inc = 0 /\ quiet = FALSE /\ lastOk = None
    /\ db = NoRows /\ log = NoLog
    /\ lock = Nobody /\ writer = Nobody
    /\ sweep = {}
    /\ pc = [c \in Checkers |-> "idle"]
    /\ asked = [c \in Checkers |-> NoAsk]
    /\ at = [c \in Checkers |-> 0]
    /\ page = [c \in Checkers |-> NoPage]
    /\ rows = [c \in Checkers |-> NoRows]
    /\ sent = [c \in Checkers |-> NoneSent]

\* The coroutine ends: its session is closed and `async with' frees the lock.
Ends(c) ==
    /\ lock' = Nobody
    /\ writer' = IF writer = c THEN Nobody ELSE writer
    /\ pc' = [pc EXCEPT ![c] = "idle"]
    /\ asked' = [asked EXCEPT ![c] = NoAsk]
    /\ at' = [at EXCEPT ![c] = 0]
    /\ page' = [page EXCEPT ![c] = NoPage]
    /\ rows' = [rows EXCEPT ![c] = NoRows]
    /\ sent' = [sent EXCEPT ![c] = NoneSent]

-----------------------------------------------------------------------------
(* One check.                                                              *)

\* poll_tick and check_watch_now load the Watch before check_watch takes the
\* lock, so `quiet' is as old as this step.
Begin(c) ==
    /\ pc[c] = "idle" /\ live
    /\ pc' = [pc EXCEPT ![c] = "wait"]
    /\ asked' = [asked EXCEPT ![c] = [inc |-> inc, quiet |-> quiet]]
    /\ UNCHANGED <<clock, watchVars, lastOk, db, log, lock, writer, sweep,
                   at, page, rows, sent>>

\* mutant: check_watch without its lock
AcquireUnlocked(c) ==
    /\ pc[c] = "wait" /\ clock < MaxTime
    /\ lock' = c
    /\ at' = [at EXCEPT ![c] = clock + 1]
    /\ clock' = clock + 1
    /\ pc' = [pc EXCEPT ![c] = "fetch"]
    /\ UNCHANGED <<watchVars, lastOk, db, log, writer, sweep,
                   asked, page, rows, sent>>

\* Checks of one watch are serialised around a fetch, so no two share a
\* `now': the clock moves on here.
Acquire(c) ==
    /\ pc[c] = "wait" /\ lock = Nobody /\ clock < MaxTime
    /\ lock' = c
    /\ at' = [at EXCEPT ![c] = clock + 1]
    /\ clock' = clock + 1
    /\ pc' = [pc EXCEPT ![c] = "fetch"]
    /\ UNCHANGED <<watchVars, lastOk, db, log, writer, sweep,
                   asked, page, rows, sent>>

\* mutant: the lock is not released by an exception
FetchFailsHoldingLock(c) ==
    /\ pc[c] = "fetch"
    /\ pc' = [pc EXCEPT ![c] = "idle"]
    /\ UNCHANGED <<clock, watchVars, lastOk, db, log, lock, writer, sweep,
                   asked, at, page, rows, sent>>

\* The fetch or the parse raises; poll_tick's bookkeeping is WatchHealth's.
FetchFails(c) ==
    /\ pc[c] = "fetch"
    /\ Ends(c)
    /\ UNCHANGED <<clock, watchVars, lastOk, db, log, sweep>>

\* The page is parsed (it may list any part of the products, or nothing),
\* the watch's rows are selected and the alerts staged.
Load(c) ==
    /\ pc[c] = "fetch"
    /\ \E parsed \in [Codes -> Phases \cup {Absent}] :
          page' = [page EXCEPT ![c] = parsed]
    /\ rows' = [rows EXCEPT ![c] = db]
    /\ pc' = [pc EXCEPT ![c] = "staged"]
    /\ UNCHANGED <<clock, watchVars, lastOk, db, log, lock, writer, sweep,
                   asked, at, sent>>

\* The flush's INSERTs meet no row of their code (uq_watch_code) and its
\* UPDATEs find the row they were loaded from (StaleDataError otherwise).
RowsStand(c) ==
    \A k \in Codes : Listed(c, k) => db[k].here = rows[c][k].here

Flush(c) ==
    /\ pc[c] = "staged" /\ writer = Nobody
    /\ RowsStand(c)
    /\ writer' = c
    /\ sent' = [sent EXCEPT ![c] =
                  [k \in Codes |-> IF k \in Alerting(c) /\ Silenced(c, k)
                                   THEN "silenced" ELSE "unsent"]]
    /\ pc' = [pc EXCEPT ![c] = "push"]
    /\ UNCHANGED <<clock, watchVars, lastOk, db, log, lock, sweep,
                   asked, at, page, rows>>

\* A row has gone, or another watch's check holds the database: the session
\* rolls back.
FlushFails(c) ==
    /\ pc[c] = "staged"
    /\ Ends(c)
    /\ UNCHANGED <<clock, watchVars, lastOk, db, log, sweep>>

Pending(c) == {k \in Sendable(c) : sent[c][k] = "unsent"}

\* gotify.send returns True when the push was accepted (or Gotify is not
\* configured) and False once its retries are spent.
Push(c) ==
    /\ pc[c] = "push" /\ ~Grouped(c)
    /\ \E k \in Pending(c), outcome \in {"pushed", "failed"} :
          sent' = [sent EXCEPT ![c][k] = outcome]
    /\ UNCHANGED <<clock, watchVars, lastOk, db, log, lock, writer, sweep,
                   pc, asked, at, page, rows>>

\* One push for the whole tick, one outcome for all of its alerts.
PushGroup(c) ==
    /\ pc[c] = "push" /\ Grouped(c) /\ Pending(c) # {}
    /\ \E outcome \in {"pushed", "failed"} :
          sent' = [sent EXCEPT ![c] = [k \in Codes |->
                     IF k \in Sendable(c) THEN outcome ELSE sent[c][k]]]
    /\ UNCHANGED <<clock, watchVars, lastOk, db, log, lock, writer, sweep,
                   pc, asked, at, page, rows>>

\* mutant: the Watch row is updated by a statement that may match nothing
CommitStandsUnwatched(c) ==
    \A k \in Codes : Delisted(c, k) /\ Accepted(c, k) => db[k].here

\* The last flush's UPDATEs, of the Watch row and of rows delisted by an
\* accepted alert, find their rows.
CommitStands(c) ==
    /\ live
    /\ \A k \in Codes : Delisted(c, k) /\ Accepted(c, k) => db[k].here

\* Rows, events and the watch's health commit at once.
Commit(c) ==
    /\ pc[c] = "push" /\ Pending(c) = {} /\ CommitStands(c)
    /\ db' = [k \in Codes |-> RowAfter(c, k)]
    /\ log' = [k \in Codes |-> LogAfter(c, k)]
    /\ lastOk' = at[c]
    /\ Ends(c)
    /\ UNCHANGED <<clock, watchVars, sweep>>

\* A row has gone: StaleDataError, and the whole check rolls back.
CommitFails(c) ==
    /\ pc[c] = "push" /\ Pending(c) = {} /\ ~CommitStands(c)
    /\ Ends(c)
    /\ UNCHANGED <<clock, watchVars, lastOk, db, log, sweep>>

Check(c) ==
    \/ Begin(c) \/ Acquire(c)
    \/ FetchFails(c) \/ Load(c)
    \/ Flush(c) \/ FlushFails(c)
    \/ Push(c) \/ PushGroup(c)
    \/ Commit(c) \/ CommitFails(c)

-----------------------------------------------------------------------------
(* Everything else that writes these rows.  Each waits for the write lock. *)

CreateWatch ==
    /\ ~live /\ writer = Nobody
    /\ inc < MaxInc /\ (inc = 0 \/ ReuseIds)
    /\ live' = TRUE /\ inc' = inc + 1 /\ quiet' \in BOOLEAN
    /\ lastOk' = None
    /\ UNCHANGED <<clock, db, log, lock, writer, sweep, checkVars>>

\* Events, changes, products and the watch go in one transaction.
DeleteWatch ==
    /\ live /\ writer = Nobody
    /\ live' = FALSE
    /\ db' = NoRows /\ log' = NoLog
    /\ UNCHANGED <<clock, inc, quiet, lastOk, lock, writer, sweep, checkVars>>

UpdateWatch ==
    /\ live /\ writer = Nobody
    /\ quiet' = ~quiet
    /\ UNCHANGED <<clock, live, inc, lastOk, db, log, lock, writer, sweep,
                   checkVars>>

\* mute_product, unmute_product, and a mute running out
Mute(k) ==
    /\ k \in Mutable
    /\ db[k].here /\ writer = Nobody
    /\ db' = [db EXCEPT ![k].muted = ~@]
    /\ UNCHANGED <<clock, watchVars, lastOk, log, lock, writer, sweep,
                   checkVars>>

\* archive_stale_products selects, then its commit waits for the write lock.
ArchivalSelect ==
    /\ sweep = {}
    /\ sweep' = {k \in Codes : /\ db[k].here /\ ~db[k].archived
                               /\ db[k].phase = "oos"
                               /\ clock - db[k].seen > ArchiveAfter}
    /\ sweep' # {}
    /\ UNCHANGED <<clock, watchVars, lastOk, db, log, lock, writer, checkVars>>

ArchivalWrite ==
    /\ sweep # {} /\ writer = Nobody
    /\ db' = IF \A k \in sweep : db[k].here
             THEN [k \in Codes |-> [db[k] EXCEPT !.archived = @ \/ k \in sweep]]
             ELSE db
    /\ sweep' = {}
    /\ UNCHANGED <<clock, watchVars, lastOk, log, lock, writer, checkVars>>

\* Time in which nothing is checked: an outage, a slow tick.
Pass ==
    /\ clock < MaxTime
    /\ clock' = clock + 1
    /\ UNCHANGED <<watchVars, lastOk, db, log, lock, writer, sweep, checkVars>>

\* The process dies: coroutines and locks are gone, SQLite rolls back.
Restart ==
    /\ \E c \in Checkers : pc[c] # "idle"
    /\ lock' = Nobody /\ writer' = Nobody /\ sweep' = {}
    /\ pc' = [c \in Checkers |-> "idle"]
    /\ asked' = [c \in Checkers |-> NoAsk]
    /\ at' = [c \in Checkers |-> 0]
    /\ page' = [c \in Checkers |-> NoPage]
    /\ rows' = [c \in Checkers |-> NoRows]
    /\ sent' = [c \in Checkers |-> NoneSent]
    /\ UNCHANGED <<clock, watchVars, lastOk, db, log>>

Others ==
    \/ CreateWatch \/ DeleteWatch \/ UpdateWatch
    \/ \E k \in Codes : Mute(k)
    \/ ArchivalSelect \/ ArchivalWrite
    \/ Pass \/ Restart

Next == (\E c \in Checkers : Check(c)) \/ Others

Spec == Init /\ [][Next]_vars

\* asyncio.Lock wakes its waiters in order; fetches and pushes time out; a
\* flush that cannot get the database fails after five seconds.
Fairness ==
    \A c \in Checkers :
        /\ SF_vars(Acquire(c))
        /\ WF_vars(FetchFails(c) \/ Load(c))
        /\ WF_vars(Flush(c) \/ FlushFails(c))
        /\ WF_vars(Push(c) \/ PushGroup(c))
        /\ WF_vars(Commit(c) \/ CommitFails(c))

FairSpec == Spec /\ Fairness

-----------------------------------------------------------------------------
(* Properties.                                                             *)

TypeOK ==
    /\ clock \in Nat
    /\ live \in BOOLEAN /\ inc \in Nat /\ quiet \in BOOLEAN
    /\ lastOk \in Nat \cup {None}
    /\ db \in [Codes -> Row]
    /\ log \in [Codes -> Seq(Entry)]
    /\ lock \in Checkers \cup {Nobody}
    /\ writer \in Checkers \cup {Nobody}
    /\ sweep \in SUBSET Codes
    /\ pc \in [Checkers -> {"idle", "wait", "fetch", "staged", "push"}]
    /\ asked \in [Checkers -> [inc: Nat, quiet: BOOLEAN]]
    /\ at \in [Checkers -> Nat]
    /\ page \in [Checkers -> [Codes -> Phases \cup {Absent}]]
    /\ rows \in [Checkers -> [Codes -> Row]]
    /\ sent \in [Checkers -> [Codes -> Told]]

\* At most one event per real transition (docs/architecture.md): no two
\* neighbours in a product's history report the same phase, whatever checks
\* overlap, fail, crash or retry.
OneEventPerTransition ==
    \A k \in Codes : \A n \in 1 .. Len(log[k]) - 1 :
        log[k][n].phase # log[k][n + 1].phase

\* A row's phase is the one its history ends in: no transition is stored
\* without its event and no event without its transition, so a failed push
\* leaves something to retry.
HistoryMatchesRows ==
    \A k \in Codes :
        /\ db[k].here <=> log[k] # <<>>
        /\ db[k].here => db[k].phase = log[k][Len(log[k])].phase

\* available_since is the `now' of the check that opened the current spell
\* of availability, and is NULL out of stock.
SpellOpens(k, m) ==
    /\ log[k][m].phase # "oos"
    /\ m > 1 => log[k][m - 1].phase = "oos"

SinceOpensSpell ==
    \A k \in Codes :
        IF db[k].phase = "oos" THEN db[k].since = None
        ELSE \E m \in 1 .. Len(log[k]) :
                /\ SpellOpens(k, m)
                /\ \A n \in m .. Len(log[k]) : log[k][n].phase # "oos"
                /\ db[k].since = log[k][m].at

\* The available_seconds of an oos event is the length of the spell it
\* closes, from the check that opened it, across early -> public and retries.
DurationSpansSpell ==
    \A k \in Codes : \A n \in 1 .. Len(log[k]) :
        log[k][n].kind = "oos" =>
            \E m \in 1 .. n - 1 :
                /\ SpellOpens(k, m)
                /\ \A j \in m .. n - 1 : log[k][j].phase # "oos"
                /\ log[k][n].secs = log[k][n].at - log[k][m].at

\* The history never shows a restock nobody was told about (docs/setup.md):
\* each event's push was accepted, or the product muted or the watch quiet.
EventsWereTold ==
    \A k \in Codes : \A n \in 1 .. Len(log[k]) :
        IsEvent(log[k][n]) => log[k][n].told \in {"pushed", "silenced"}

\* The first poll of a new watch is a silent baseline (docs/architecture.md):
\* no event without an earlier baseline laid by a check of that same watch.
SilentBaseline ==
    \A k \in Codes : \A n \in 1 .. Len(log[k]) :
        IsEvent(log[k][n]) =>
            \E j \in Codes : \E m \in 1 .. Len(log[j]) :
                /\ log[j][m].kind = "baseline"
                /\ log[j][m].by = log[k][n].by
                /\ log[j][m].at < log[k][n].at

\* A deleted watch leaves no product and no event behind, even when a check
\* of it was in flight.
NoOrphans == ~live => \A k \in Codes : ~db[k].here /\ log[k] = <<>>

\* The grace for unlisted products (poller.py:618-623): a product is taken
\* for delisted only when an earlier successful check already missed it.
DelistedAfterTwoMisses ==
    [][\A k \in Codes :
          /\ db[k].here /\ db'[k].here
          /\ db[k].phase # "oos" /\ db'[k].phase = "oos"
          /\ db'[k].seen = db[k].seen
          => db[k].seen < lastOk]_vars

\* A check that starts always ends, and lets the next one in: no outcome of
\* a fetch, a flush or a push leaves the lock taken.
EveryCheckEnds ==
    \A c \in Checkers : pc[c] # "idle" ~> (pc[c] = "idle" \/ clock = MaxTime)

-----------------------------------------------------------------------------
(* What all of it comes to.                                                *)

LineOf(e) ==
    [kind |-> e.kind, phase |-> e.phase, at |-> e.at, ts |-> e.ts, secs |-> e.secs]

Book == [k \in Codes |-> [n \in 1 .. Len(log[k]) |-> LineOf(log[k][n])]]

Sheet == [k \in Codes |-> [here |-> db[k].here, phase |-> db[k].phase,
                           since |-> db[k].since]]

Ledger == INSTANCE StockLedger WITH hist <- Book, row <- Sheet

\* However checks overlap, fail, crash and are retried, the table behaves as
\* a ledger: every commit settles moves seen after everything before was
\* written, the rows show what the history says (poller.py:411-473), and the
\* availability clock runs by the times seen, although the Event rows carry
\* the times written.
ImplementsLedger == Ledger!LedgerSpec
=============================================================================

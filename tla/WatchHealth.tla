---------------------------- MODULE WatchHealth ----------------------------
(***************************************************************************)
(* The failure bookkeeping of one watch: main.py's poll_tick around        *)
(* check_watch, the "Check now" route beside it, the failure threshold in  *)
(* the settings, and the process-wide set _failure_alerted.                *)
(*                                                                         *)
(* A tick reads consecutive_failures before check_watch takes the watch's  *)
(* lock and uses it after the check has ended:                             *)
(*                                                                         *)
(*   idle -> read -> checked -> idle                                       *)
(*                -> failed -> counted | refused -> idle                   *)
(*                                                                         *)
(* From failed on it has flushed the counter, so it holds SQLite's write   *)
(* lock until its commit.  A manual check goes  idle -> read -> idle.      *)
(*                                                                         *)
(* store, gotify and writable are the outside world: whether the page can  *)
(* be read, whether a push is accepted, and whether a write goes through.  *)
(* It does not while a check of another watch holds the write lock across  *)
(* its pushes ("database is locked" after five seconds), or on a full      *)
(* disk.  The bookkeeping of a failure is not guarded: when its own flush  *)
(* or commit raises, the exception leaves poll_tick and nothing is counted.*)
(*                                                                         *)
(* The others are history variables: streak, the polls that failed in a    *)
(* row since a check last succeeded; lost, those of them whose bookkeeping *)
(* was rolled back; warned, whether the user was warned in that streak;    *)
(* open, how many warnings are without their recovery; stranded, whether   *)
(* the mark in _failure_alerted has outlived the outage it was set in.     *)
(***************************************************************************)
EXTENDS Naturals

CONSTANTS Manuals,       \* "Check now" requests that may be in flight
          Thresholds,    \* values failure_alert_after is set to
          Contended,     \* may a write be refused?
          MaxFailures,   \* bound: consecutive_failures counts no further
          MaxInc,        \* bound: creations of the watch
          MaxBoots       \* bound: restarts of the process

ASSUME ThresholdsAssumption == Thresholds \subseteq Nat \ {0} /\ Thresholds # {}
ASSUME BoundsAssumption ==
    /\ MaxFailures \in Nat /\ MaxInc \in Nat /\ MaxBoots \in Nat
    /\ Contended \in BOOLEAN

VARIABLES
    store, gotify,  \* can the page be read, does Gotify accept pushes
    writable,       \* does a write to the database go through
    live, inc,      \* the Watch row exists; how often it was created
    failures,       \* watch.consecutive_failures
    threshold,      \* the failure_alert_after setting
    alerted,        \* the watch's id is in _failure_alerted
    tick,           \* where poll_tick is
    prev,           \* its prev_failures
    manual,         \* where each manual check is
    loaded,         \* consecutive_failures as each manual check loaded it
    boots,          \* restarts so far
    streak, lost, warned, open, stranded

world == <<store, gotify, writable>>
watch == <<live, inc, failures>>
ticker == <<tick, prev>>
manuals == <<manual, loaded>>
history == <<streak, lost, warned, open, stranded>>
vars == <<world, watch, threshold, alerted, ticker, manuals, boots, history>>

-----------------------------------------------------------------------------
Capped(n) == IF n > MaxFailures THEN MaxFailures ELSE n

Init ==
    /\ store \in BOOLEAN /\ gotify \in BOOLEAN /\ writable = TRUE
    /\ live = TRUE /\ inc = 1 /\ failures = 0
    /\ threshold \in Thresholds
    /\ alerted = FALSE
    /\ tick = "idle" /\ prev = 0
    /\ manual = [m \in Manuals |-> "idle"]
    /\ loaded = [m \in Manuals |-> 0]
    /\ boots = 0
    /\ streak = 0 /\ lost = 0 /\ warned = FALSE /\ open = 0
    /\ stranded = FALSE

\* A check has succeeded: there is no streak any more.
StreakEnds == streak' = 0 /\ lost' = 0 /\ warned' = FALSE

-----------------------------------------------------------------------------
(* poll_tick, for this watch.                                              *)

TickBegins ==
    /\ tick = "idle" /\ live
    /\ tick' = "read" /\ prev' = failures
    /\ UNCHANGED <<world, watch, threshold, alerted, manuals, boots, history>>

\* check_watch has committed.  The session writes the counter only when it
\* saw it change, and poll_tick looks further only after a failure.
TickSucceeds ==
    /\ tick = "read" /\ store /\ live /\ writable
    /\ failures' = IF prev # 0 THEN 0 ELSE failures
    /\ tick' = IF prev # 0 THEN "checked" ELSE "idle"
    /\ StreakEnds
    /\ stranded' = (stranded \/ (alerted /\ prev = 0))
    /\ UNCHANGED <<world, live, inc, threshold, alerted, prev, manuals, boots,
                   open>>

\* mutant: the recovery goes by the threshold alone
RecoversByThreshold ==
    /\ tick = "checked"
    /\ alerted' = FALSE
    /\ open' = IF prev >= threshold THEN 0 ELSE open
    /\ tick' = "idle" /\ stranded' = FALSE
    /\ UNCHANGED <<world, watch, threshold, prev, manuals, boots, streak, lost,
                   warned>>

\* The recovery push is tried once, whether or not it is accepted.
Recovers ==
    /\ tick = "checked"
    /\ alerted' = FALSE
    /\ open' = IF alerted \/ prev >= threshold THEN 0 ELSE open
    /\ tick' = "idle" /\ stranded' = FALSE
    /\ UNCHANGED <<world, watch, threshold, prev, manuals, boots, streak, lost,
                   warned>>

\* The fetch, the parse or the commit raised: the session rolls back, loads
\* the watch again and flushes its new counter.
TickFails ==
    /\ tick = "read" /\ live /\ writable
    /\ tick' = "failed"
    /\ streak' = Capped(streak + 1)
    /\ UNCHANGED <<world, watch, threshold, alerted, prev, manuals, boots, lost,
                   warned, open, stranded>>

\* The same, but the flush of the counter raises in its turn.
FlushFails ==
    /\ tick = "read" /\ live /\ ~writable
    /\ tick' = "idle"
    /\ streak' = Capped(streak + 1) /\ lost' = Capped(lost + 1)
    /\ UNCHANGED <<world, watch, threshold, alerted, prev, manuals, boots,
                   warned, open, stranded>>

\* The watch was deleted while the check was in flight.
TickOrphaned ==
    /\ tick = "read" /\ ~live
    /\ tick' = "idle"
    /\ UNCHANGED <<world, watch, threshold, alerted, prev, manuals, boots,
                   history>>

\* mutant: an alert only at the threshold itself
DueExactly(n) == n = threshold /\ ~alerted

Due(n) == n >= threshold /\ ~alerted

\* The failure push; the id is remembered only if it was accepted.
Warns ==
    /\ tick = "failed" /\ Due(Capped(prev + 1))
    /\ tick' = IF gotify THEN "counted" ELSE "refused"
    /\ alerted' = gotify
    /\ warned' = (warned \/ gotify)
    /\ open' = IF gotify /\ open < 2 THEN open + 1 ELSE open
    /\ UNCHANGED <<world, watch, threshold, prev, manuals, boots, streak, lost,
                   stranded>>

NotDue ==
    /\ tick = "failed" /\ ~Due(Capped(prev + 1))
    /\ tick' = "counted"
    /\ UNCHANGED <<world, watch, threshold, alerted, prev, manuals, boots,
                   history>>

\* mutant: the failure is written over the value the tick started from
CountsNothing ==
    /\ tick \in {"counted", "refused"} /\ writable
    /\ failures' = prev
    /\ tick' = "idle"
    /\ UNCHANGED <<world, live, inc, threshold, alerted, prev, manuals, boots,
                   history>>

\* The commit: prev is what the tick read before the check.
Counts ==
    /\ tick \in {"counted", "refused"} /\ writable
    /\ failures' = Capped(prev + 1)
    /\ tick' = "idle"
    /\ UNCHANGED <<world, live, inc, threshold, alerted, prev, manuals, boots,
                   history>>

\* The commit raises: the counter is as before, the mark stays.
CountFails ==
    /\ tick \in {"counted", "refused"} /\ ~writable
    /\ tick' = "idle"
    /\ lost' = Capped(lost + 1)
    /\ UNCHANGED <<world, watch, threshold, alerted, prev, manuals, boots,
                   streak, warned, open, stranded>>

Tick ==
    \/ TickBegins \/ TickSucceeds \/ Recovers
    \/ TickFails \/ FlushFails \/ TickOrphaned
    \/ Warns \/ NotDue \/ Counts \/ CountFails

-----------------------------------------------------------------------------
(* Everybody else.  A writer waits for the tick's transaction.             *)

DatabaseIsFree == tick \notin {"failed", "counted", "refused"}

ManualBegins(m) ==
    /\ manual[m] = "idle" /\ live
    /\ manual' = [manual EXCEPT ![m] = "read"]
    /\ loaded' = [loaded EXCEPT ![m] = failures]
    /\ UNCHANGED <<world, watch, threshold, alerted, ticker, boots, history>>

\* mutant: a success takes one failure back, from a counter read long ago
ManualTakesOneBack(m) ==
    /\ manual[m] = "read" /\ store /\ live /\ DatabaseIsFree /\ writable
    /\ failures' = IF loaded[m] # 0 THEN failures - 1 ELSE failures
    /\ manual' = [manual EXCEPT ![m] = "idle"]
    /\ StreakEnds /\ stranded' = (stranded \/ alerted)
    /\ UNCHANGED <<world, live, inc, threshold, alerted, ticker, loaded, boots,
                   open>>

\* check_watch_now resets the counter as the tick does, and leaves
\* _failure_alerted alone.
ManualSucceeds(m) ==
    /\ manual[m] = "read" /\ store /\ live /\ DatabaseIsFree /\ writable
    /\ failures' = IF loaded[m] # 0 THEN 0 ELSE failures
    /\ manual' = [manual EXCEPT ![m] = "idle"]
    /\ StreakEnds /\ stranded' = (stranded \/ alerted)
    /\ UNCHANGED <<world, live, inc, threshold, alerted, ticker, loaded, boots,
                   open>>

\* The route answers 500; no failure is counted.
ManualFails(m) ==
    /\ manual[m] = "read"
    /\ manual' = [manual EXCEPT ![m] = "idle"]
    /\ UNCHANGED <<world, watch, threshold, alerted, ticker, loaded, boots,
                   history>>

SetThreshold ==
    /\ DatabaseIsFree /\ writable
    /\ threshold' \in Thresholds
    /\ UNCHANGED <<world, watch, alerted, ticker, manuals, boots, history>>

\* Neither route looks at _failure_alerted.
DeleteWatch ==
    /\ live /\ DatabaseIsFree /\ writable
    /\ live' = FALSE
    /\ StreakEnds /\ open' = 0 /\ stranded' = (stranded \/ alerted)
    /\ UNCHANGED <<world, inc, failures, threshold, alerted, ticker, manuals,
                   boots>>

\* SQLite may hand the freed id out again.
CreateWatch ==
    /\ ~live /\ inc < MaxInc /\ DatabaseIsFree /\ writable
    /\ live' = TRUE /\ inc' = inc + 1 /\ failures' = 0
    /\ UNCHANGED <<world, threshold, alerted, ticker, manuals, boots, history>>

\* _failure_alerted is in memory only: a restart forgets it, and SQLite rolls
\* back a counter that was not committed.
Restart ==
    /\ boots < MaxBoots
    /\ boots' = boots + 1
    /\ alerted' = FALSE /\ open' = 0 /\ stranded' = FALSE
    /\ lost' = IF DatabaseIsFree THEN lost ELSE Capped(lost + 1)
    /\ tick' = "idle"
    /\ manual' = [m \in Manuals |-> "idle"]
    /\ UNCHANGED <<world, watch, threshold, prev, loaded, streak, warned>>

WorldTurns ==
    /\ \/ store' = ~store /\ UNCHANGED <<gotify, writable>>
       \/ gotify' = ~gotify /\ UNCHANGED <<store, writable>>
       \/ Contended /\ writable' = ~writable /\ UNCHANGED <<store, gotify>>
    /\ UNCHANGED <<watch, threshold, alerted, ticker, manuals, boots, history>>

Next ==
    \/ Tick
    \/ \E m \in Manuals : ManualBegins(m) \/ ManualSucceeds(m) \/ ManualFails(m)
    \/ SetThreshold \/ DeleteWatch \/ CreateWatch \/ Restart \/ WorldTurns

Spec == Init /\ [][Next]_vars

\* The scheduler runs poll_tick at every interval, and every await of it
\* ends: fetches, pushes and waits for the database time out.
Fairness ==
    /\ WF_vars(TickBegins)
    /\ WF_vars(TickSucceeds \/ TickFails \/ FlushFails \/ TickOrphaned)
    /\ WF_vars(Recovers)
    /\ WF_vars(Warns \/ NotDue)
    /\ WF_vars(Counts \/ CountFails)

FairSpec == Spec /\ Fairness

-----------------------------------------------------------------------------
(* Properties.                                                             *)

TypeOK ==
    /\ store \in BOOLEAN /\ gotify \in BOOLEAN /\ writable \in BOOLEAN
    /\ live \in BOOLEAN /\ inc \in Nat /\ failures \in 0 .. MaxFailures
    /\ threshold \in Thresholds
    /\ alerted \in BOOLEAN
    /\ tick \in {"idle", "read", "checked", "failed", "counted", "refused"}
    /\ prev \in 0 .. MaxFailures
    /\ manual \in [Manuals -> {"idle", "read"}]
    /\ loaded \in [Manuals -> 0 .. MaxFailures]
    /\ boots \in Nat
    /\ streak \in 0 .. MaxFailures /\ lost \in 0 .. MaxFailures
    /\ warned \in BOOLEAN /\ open \in 0 .. 2 /\ stranded \in BOOLEAN

\* The counter is short of the failures since a check last succeeded by those
\* whose bookkeeping was rolled back, by the one being written, and by no
\* other: the tick writes one more than it read before the check, manual
\* checks reset the counter in between, and no failure undoes another's.
NoFailureUncounted ==
    live => failures + lost + (IF DatabaseIsFree THEN 0 ELSE 1) >= streak

\* A single warning, not one per tick (docs/deployment.md): while one is
\* open no other is delivered; only a recovery or a restart closes it.
OneWarningUntilRecovery == open <= 1

\* After failure_alert_after failures in a row a warning is sent
\* (docs/deployment.md), to the user who has not had one in this streak.
StreakIsWarned ==
    tick = "counted" /\ streak >= threshold => warned

\* An outage is not missed: if from some time on the store cannot be read,
\* pushes are accepted, writes go through and the watch stays, its user is
\* warned of it, even when the threshold is lowered below the count and
\* whatever was lost before.  It holds short of a stranded mark, left by a
\* success or a deletion that did not clear _failure_alerted: what comes of
\* one is StreakIsWarned's run.
OutageIsAlerted ==
    <>[](~store /\ gotify /\ writable /\ live /\ ~stranded) => <>[]warned
=============================================================================

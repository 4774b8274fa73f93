------------------------------ MODULE Records ------------------------------
(***************************************************************************)
(* The Event table over the life of its products: checks write it, the     *)
(* retention sweep (services/retention.py) empties it from behind, the     *)
(* History view (Episodes) reads it.                                       *)
(*                                                                         *)
(* The checks are StockLedger's: Poller implements it.  hist keeps every   *)
(* line ever settled; gone[k] are those whose Event row was deleted, so    *)
(* the table is what is left, and properties may compare the two.          *)
(*                                                                         *)
(* The sweep reads the whole table, computes the doomed ids, and deletes   *)
(* them by a later statement; checks commit in between, and the process    *)
(* may die or the database stay locked.                                    *)
(***************************************************************************)
EXTENDS Integers, StockLedger, FiniteSetsExt, SequencesExt, Ordering

INSTANCE Episodes

CONSTANTS Retentions,   \* values of event_retention_days, in clock units
          Window,       \* availability_stats's window, in clock units
          MaxClock      \* bound: the clock stops here

ASSUME NullAssumption == None \notin Nat /\ None \notin Episode
ASSUME RetentionsAssumption == Retentions \subseteq Nat
ASSUME WindowAssumption == Window \in Nat \ {0} /\ MaxClock \in Nat

VARIABLES
    days,     \* the setting event_retention_days
    gone,     \* the lines of each product whose Event row was deleted
    doomed,   \* what a sweep has selected and not yet deleted
    cut       \* the latest cutoff a sweep has applied

recordVars == <<ledgerVars, days, gone, doomed, cut>>

-----------------------------------------------------------------------------
Idle == [rows |-> [k \in Codes |-> {}], cutoff |-> 0, busy |-> FALSE]

Written(k) ==
    {n \in 1 .. Len(hist[k]) : hist[k][n].kind \notin {"baseline", "unannounced"}}

\* The Event rows of the lines ns of product k, oldest first.
RowsOf(k, ns) ==
    LET order == Ascending(ns)
    IN  [i \in 1 .. Len(order) |->
            LET line == hist[k][order[i]]
            IN  [ts |-> line.ts, kind |-> line.kind, secs |-> line.secs]]

Table(k) == RowsOf(k, Written(k) \ gone[k])

\* An ongoing episode, and one that ended inside the window, is protected.
Protected(ep, cutoff) == ep.ongoing \/ ep.ended >= cutoff

\* mutant: an episode that ended inside the window is not protected
PrunedIfOngoingOnly(k, cutoff) ==
    LET starts == {ep.started : ep \in {e \in ToSet(build_episodes(Table(k), clock)) :
                                           e.ongoing}}
    IN  {n \in Written(k) \ gone[k] :
            /\ hist[k][n].ts < cutoff
            /\ starts # {} => hist[k][n].ts < Min(starts)}

Pruned(k, cutoff) ==
    LET starts == {ep.started : ep \in {e \in ToSet(build_episodes(Table(k), clock)) :
                                           Protected(e, cutoff)}}
    IN  {n \in Written(k) \ gone[k] :
            /\ hist[k][n].ts < cutoff
            /\ starts # {} => hist[k][n].ts < Min(starts)}

-----------------------------------------------------------------------------
RecordsInit ==
    /\ LedgerInit
    /\ days \in Retentions
    /\ gone = [k \in Codes |-> {}]
    /\ doomed = Idle
    /\ cut = 0

\* A check settles a move of one product, which it saw some time ago.
SettleOne(k) ==
    /\ \E t \in 1 .. clock :
          /\ \A n \in 1 .. Len(hist[k]) : hist[k][n].ts < t
          /\ \E line \in Lines(hist[k], t, clock, \A j \in Codes : hist[j] = <<>>) :
                /\ hist' = [hist EXCEPT ![k] = Append(@, line)]
                /\ row' = [row EXCEPT ![k] = Shown(hist'[k])]
    /\ UNCHANGED <<clock, days, gone, doomed, cut>>

Passes ==
    /\ clock < MaxClock
    /\ Tick
    /\ UNCHANGED <<days, gone, doomed, cut>>

\* PUT /settings
SetDays ==
    /\ days' \in Retentions \ {days}
    /\ UNCHANGED <<ledgerVars, gone, doomed, cut>>

\* retention_tick up to the DELETE: the daily job runs once at a time.
SweepSelects ==
    /\ ~doomed.busy /\ days > 0
    /\ LET cutoff == clock - days
       IN  doomed' = [rows |-> [k \in Codes |-> Pruned(k, cutoff)],
                      cutoff |-> cutoff, busy |-> TRUE]
    /\ UNCHANGED <<ledgerVars, days, gone, cut>>

SweepDeletes ==
    /\ doomed.busy
    /\ gone' = [k \in Codes |-> gone[k] \cup doomed.rows[k]]
    /\ cut' = Later(cut, doomed.cutoff)
    /\ doomed' = Idle
    /\ UNCHANGED <<ledgerVars, days>>

\* The process dies, or the DELETE finds the database locked: a rollback.
SweepFails ==
    /\ doomed.busy
    /\ doomed' = Idle
    /\ UNCHANGED <<ledgerVars, days, gone, cut>>

RecordsNext ==
    \/ \E k \in Codes : SettleOne(k)
    \/ Passes \/ SetDays
    \/ SweepSelects \/ SweepDeletes \/ SweepFails

RecordsSpec == RecordsInit /\ [][RecordsNext]_recordVars

-----------------------------------------------------------------------------
(* Properties.                                                             *)

\* The sweep preserves episode boundaries (retention.py:3-7): History shows
\* what it would show had nothing been deleted, less the episodes that ended
\* before the last cutoff, and those are gone altogether.
RetentionKeepsEpisodes ==
    \A k \in Codes :
        LET all == build_episodes(RowsOf(k, Written(k)), clock)
        IN  \E n \in 0 .. Len(all) :
               /\ build_episodes(Table(k), clock) = SubSeq(all, n + 1, Len(all))
               /\ \A i \in 1 .. Len(all) : Protected(all[i], cut) <=> i > n

\* The spells of availability in a history, by the phases alone: from a line
\* that leaves `oos' to the next that returns to it.
SpellsOf(h) ==
    {m \in 1 .. Len(h) : /\ h[m].phase # "oos"
                         /\ m > 1 => h[m - 1].phase = "oos"}

SpellEnd(h, m) == Min({n \in m .. Len(h) : h[n].phase = "oos"} \cup {Len(h) + 1})

ToldIn(h, m) ==
    {n \in m .. SpellEnd(h, m) - 1 : h[n].kind \in {"early_access", "public"}}

FirstOf(h, ns, kind) ==
    LET those == {n \in ns : h[n].kind = kind}
    IN  IF those = {} THEN None ELSE h[Min(those)].ts

EpisodeOfSpell(h, m) ==
    LET told == ToldIn(h, m)
        end == SpellEnd(h, m)
        early == FirstOf(h, told, "early_access")
        public == FirstOf(h, told, "public")
        ended == IF end > Len(h) THEN None ELSE h[end].ts
    IN  [started |-> h[Min(told)].ts, early |-> early, public |-> public,
         ended |-> ended, ongoing |-> ended = None,
         buyable |-> IF ended = None THEN clock - h[Min(told)].ts
                     ELSE h[end].at - h[m].at,
         lead |-> IF early = None \/ public = None THEN None ELSE public - early]

\* The episodes of the full table are the spells somebody was told about
\* (docs/architecture.md, "Episode reconstruction"), each once and in order.
\* It starts and ends at the times its events were written; the length of a
\* closed one is the whole spell's, from when it was seen to open, on a first
\* poll also, until it was seen to end.
EpisodesAreSpells ==
    \A k \in Codes :
        LET h == hist[k]
            spells == Ascending({m \in SpellsOf(h) : ToldIn(h, m) # {}})
        IN  build_episodes(RowsOf(k, Written(k)), clock) =
                [i \in 1 .. Len(spells) |-> EpisodeOfSpell(h, spells[i])]

\* uptime_pct is the share of the window in which the product was buyable,
\* whatever the window cuts off and whatever the sweep has deleted before it:
\* each instant counts once, and no more than all of them.
UptimeIsTimeBuyable ==
    \A k \in Codes :
        LET eps == build_episodes(Table(k), clock)
            covered == {t \in clock - Window .. clock - 1 :
                           \E ep \in ToSet(eps) :
                              ep.started <= t /\ t < EndOf(ep, clock)}
            shown == HistoryOf(Table(k), clock, Window)
        IN  IF eps = <<>> THEN shown = None /\ covered = {}
            ELSE /\ shown.stats.up = Cardinality(covered)
                 /\ shown.episodes[1].ongoing <=> \E ep \in ToSet(eps) : ep.ongoing
=============================================================================

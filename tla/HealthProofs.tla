---------------------------- MODULE HealthProofs ----------------------------
(***************************************************************************)
(* The safety of WatchHealth for any manual checks, thresholds and bounds: *)
(* no failing poll goes uncounted, and one warning is open at a time.      *)
(*                                                                         *)
(* A tick writes what it read before the check plus one.  That is enough   *)
(* because what a tick in flight has read and what was lost together cover *)
(* the streak (ReadIsEnough) and nobody but the tick lengthens it; a       *)
(* manual check only ends it, and a watch that was deleted has none        *)
(* (GoneHasNone), whatever becomes of its id.  A mark in _failure_alerted  *)
(* that is not stranded stands for a warning of this streak                *)
(* (MarkedWasWarned).                                                      *)
(***************************************************************************)
EXTENDS WatchHealth, TLAPS

-----------------------------------------------------------------------------
(* The inductive invariant.                                                *)

\* What a failing tick is about to write covers the streak, less what was
\* lost and the failure it is about.
ReadIsEnough ==
    /\ tick = "read" => prev + lost >= streak
    /\ ~DatabaseIsFree => prev + lost + 1 >= streak

\* Only a watch that exists is counted for.
GoneHasNone ==
    /\ ~live => streak = 0
    /\ ~DatabaseIsFree => live

\* _failure_alerted remembers the open warning.
OpenIsRemembered == open = 0 \/ (open = 1 /\ alerted)

\* A mark that is not stranded is of an outage its user was warned of; the
\* tick that saw it end is about to remove it.
MarkedWasWarned == alerted /\ ~stranded => warned \/ tick = "checked"

Inv ==
    /\ TypeOK
    /\ NoFailureUncounted
    /\ ReadIsEnough
    /\ GoneHasNone
    /\ OpenIsRemembered
    /\ MarkedWasWarned

-----------------------------------------------------------------------------
\* The counter stops at the bound, and no sooner than a sum that covers it.
LEMMA CappedFacts ==
    ASSUME NEW s \in 0 .. MaxFailures, NEW n \in 0 .. MaxFailures,
           NEW l \in 0 .. MaxFailures
    PROVE  /\ Capped(n + 1) \in 0 .. MaxFailures
           /\ n + l >= s => n + l + 1 >= Capped(s + 1)
           /\ n + l >= s => n + Capped(l + 1) >= Capped(s + 1)
           /\ n + l + 1 >= s => n + Capped(l + 1) >= s
           /\ n + l + 1 >= s => Capped(n + 1) + l >= s
  BY BoundsAssumption DEF Capped

\* A new watch has no failures and nobody has been warned.
LEMMA InitInv == Init => Inv
  <1> SUFFICES ASSUME Init
               PROVE  Inv
    OBVIOUS
  <1>1. /\ store \in BOOLEAN /\ gotify \in BOOLEAN /\ writable \in BOOLEAN
        /\ live \in BOOLEAN /\ alerted \in BOOLEAN /\ warned \in BOOLEAN
        /\ stranded \in BOOLEAN
    BY Zenon DEF Init
  <1>2. 0 \in 0 .. MaxFailures
    BY BoundsAssumption
  <1>3. TypeOK
    BY <1>1, <1>2 DEF Init, TypeOK
  <1>4. NoFailureUncounted /\ ReadIsEnough /\ OpenIsRemembered
    BY DEF Init, NoFailureUncounted, ReadIsEnough, OpenIsRemembered, DatabaseIsFree
  <1>5. GoneHasNone /\ MarkedWasWarned
    BY DEF Init, GoneHasNone, MarkedWasWarned, DatabaseIsFree
  <1>6. QED
    BY <1>3, <1>4, <1>5 DEF Inv

\* The variables that are true or false stay so.
Flags ==
    /\ store \in BOOLEAN /\ gotify \in BOOLEAN /\ writable \in BOOLEAN
    /\ live \in BOOLEAN /\ alerted \in BOOLEAN /\ warned \in BOOLEAN
    /\ stranded \in BOOLEAN

\* They are only ever assigned truth values.
LEMMA FlagsKept ==
    ASSUME TypeOK, [Next]_vars
    PROVE  Flags'
  <1>1. Flags
    BY DEF TypeOK, Flags
  <1>2. CASE Tick
    BY <1>1, <1>2, Zenon
    DEF Flags, Tick, TickBegins, TickSucceeds, Recovers, TickFails, FlushFails,
        TickOrphaned, Warns, NotDue, Counts, CountFails, StreakEnds, world,
        watch, history
  <1>3. ASSUME NEW m \in Manuals,
               ManualBegins(m) \/ ManualSucceeds(m) \/ ManualFails(m)
        PROVE  Flags'
    BY <1>1, <1>3, Zenon
    DEF Flags, ManualBegins, ManualSucceeds, ManualFails, StreakEnds, world,
        watch, history
  <1>4. CASE SetThreshold \/ DeleteWatch \/ CreateWatch \/ Restart \/ WorldTurns
             \/ UNCHANGED vars
    BY <1>1, <1>4, Zenon
    DEF Flags, SetThreshold, DeleteWatch, CreateWatch, Restart, WorldTurns,
        StreakEnds, vars, world, watch, history
  <1>5. QED
    BY <1>2, <1>3, <1>4 DEF Next

\* The steps of poll_tick: it reads, checks, warns or recovers, and counts.
LEMMA TickKeepsInv ==
    ASSUME Inv, Flags', Tick
    PROVE  Inv'
  <1> USE BoundsAssumption
          DEF Inv, Flags, TypeOK, NoFailureUncounted, ReadIsEnough, GoneHasNone,
              OpenIsRemembered, MarkedWasWarned, DatabaseIsFree, StreakEnds,
              world, watch, ticker, manuals, history
  <1>0. /\ \A n \in {failures, prev} :
              /\ Capped(n + 1) \in 0 .. MaxFailures
              /\ n + lost >= streak => n + lost + 1 >= Capped(streak + 1)
              /\ n + lost >= streak => n + Capped(lost + 1) >= Capped(streak + 1)
              /\ n + lost + 1 >= streak => n + Capped(lost + 1) >= streak
              /\ n + lost + 1 >= streak => Capped(n + 1) + lost >= streak
        /\ Capped(streak + 1) \in 0 .. MaxFailures
        /\ Capped(lost + 1) \in 0 .. MaxFailures
    BY CappedFacts
  <1>1. CASE TickBegins
    BY <1>1 DEF TickBegins
  <1>2. CASE TickSucceeds
    BY <1>2 DEF TickSucceeds
  <1>3. CASE Recovers
    BY <1>3 DEF Recovers
  <1>4. CASE TickFails
    BY <1>0, <1>4 DEF TickFails
  <1>5. CASE FlushFails
    BY <1>0, <1>5 DEF FlushFails
  <1>6. CASE TickOrphaned
    BY <1>6 DEF TickOrphaned
  <1>7. CASE Warns
    BY <1>7 DEF Warns, Due
  <1>8. CASE NotDue
    BY <1>8 DEF NotDue
  <1>9. CASE Counts
    BY <1>0, <1>9 DEF Counts
  <1>10. CASE CountFails
    BY <1>0, <1>10 DEF CountFails
  <1>11. QED
    BY <1>1, <1>2, <1>3, <1>4, <1>5, <1>6, <1>7, <1>8, <1>9, <1>10 DEF Tick

\* "Check now" beside the tick.
LEMMA ManualKeepsInv ==
    ASSUME Inv, Flags', NEW m \in Manuals,
           ManualBegins(m) \/ ManualSucceeds(m) \/ ManualFails(m)
    PROVE  Inv'
  <1> USE BoundsAssumption
          DEF Inv, Flags, TypeOK, NoFailureUncounted, ReadIsEnough, GoneHasNone,
              OpenIsRemembered, MarkedWasWarned, DatabaseIsFree, StreakEnds,
              world, watch, ticker, manuals, history
  <1>1. CASE ManualBegins(m)
    BY <1>1 DEF ManualBegins
  <1>2. CASE ManualSucceeds(m)
    BY <1>2 DEF ManualSucceeds
  <1>3. CASE ManualFails(m)
    BY <1>3 DEF ManualFails
  <1>4. QED
    BY <1>1, <1>2, <1>3

\* The other routes, a restart, and the world outside.
LEMMA OthersKeepInv ==
    ASSUME Inv, Flags',
           \/ SetThreshold \/ DeleteWatch \/ CreateWatch \/ Restart
           \/ WorldTurns
    PROVE  Inv'
  <1> USE BoundsAssumption
          DEF Inv, Flags, TypeOK, NoFailureUncounted, ReadIsEnough, GoneHasNone,
              OpenIsRemembered, MarkedWasWarned, DatabaseIsFree, StreakEnds,
              world, watch, ticker, manuals, history
  <1>0. /\ Capped(lost + 1) \in 0 .. MaxFailures
        /\ failures + lost + 1 >= streak => failures + Capped(lost + 1) >= streak
    BY CappedFacts
  <1>1. CASE SetThreshold
    BY <1>1 DEF SetThreshold
  <1>2. CASE DeleteWatch
    BY <1>2 DEF DeleteWatch
  <1>3. CASE CreateWatch
    BY <1>3 DEF CreateWatch
  <1>4. CASE Restart
    BY <1>0, <1>4 DEF Restart
  <1>5. CASE WorldTurns
    BY <1>5 DEF WorldTurns
  <1>6. QED
    BY <1>1, <1>2, <1>3, <1>4, <1>5

\* Every step keeps the invariant.
LEMMA StepKeepsInv == Inv /\ [Next]_vars => Inv'
  <1> SUFFICES ASSUME Inv, [Next]_vars
               PROVE  Inv'
    OBVIOUS
  <1>1. CASE UNCHANGED vars
    BY <1>1 DEF vars, world, watch, ticker, manuals, history, Inv, TypeOK,
                NoFailureUncounted, ReadIsEnough, GoneHasNone,
                OpenIsRemembered, MarkedWasWarned, DatabaseIsFree
  <1>2. Flags'
    BY FlagsKept DEF Inv
  <1>3. QED
    BY <1>1, <1>2, TickKeepsInv, ManualKeepsInv, OthersKeepInv DEF Next

-----------------------------------------------------------------------------
(* The theorems.                                                           *)

\* All of the above is invariant.
THEOREM Invariance == Spec => []Inv
  BY InitInv, StepKeepsInv, PTL DEF Spec

\* The counter, what the tick and the manual checks read of it, and the
\* stages of the tick stay in their ranges.
THEOREM TypeCorrectness == Spec => []TypeOK
  <1>1. Inv => TypeOK
    BY DEF Inv
  <1>2. QED
    BY <1>1, Invariance, PTL

\* consecutive_failures is short of the polls that failed since a check last
\* succeeded by those whose bookkeeping was rolled back, and by no other
\* (main.py, poll_tick beside check_watch_now).
THEOREM Counting == Spec => []NoFailureUncounted
  <1>1. Inv => NoFailureUncounted
    BY DEF Inv
  <1>2. QED
    BY <1>1, Invariance, PTL

\* No second warning is delivered while one is open.
THEOREM SingleWarning == Spec => []OneWarningUntilRecovery
  <1>1. Inv => OneWarningUntilRecovery
    BY DEF Inv, OpenIsRemembered, OneWarningUntilRecovery
  <1>2. QED
    BY <1>1, Invariance, PTL

\* A mark in _failure_alerted that was not stranded by a success or a deletion
\* that left it there stands for a warning its user has had.
THEOREM MarksAreWarnings == Spec => []MarkedWasWarned
  <1>1. Inv => MarkedWasWarned
    BY DEF Inv
  <1>2. QED
    BY <1>1, Invariance, PTL
=============================================================================

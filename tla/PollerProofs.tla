---------------------------- MODULE PollerProofs ----------------------------
(***************************************************************************)
(* Proofs about Poller, for every set of products and checkers and every   *)
(* value of the other constants.                                           *)
(*                                                                         *)
(* The safety of the history rests on two locks.  Between taking the       *)
(* watch's lock and ending, a check is the only one that inserts rows or   *)
(* moves phases (LockHeld), so what it loaded still stands (RowsStillHold) *)
(* unless the watch was deleted, which the flush notices; from the flush   *)
(* to the commit SQLite's lock (WriterHeld) keeps the deletion out.        *)
(***************************************************************************)
EXTENDS Poller, TLAPS

Inside == {"fetch", "staged", "push"}

\* A check that has got past `wait' holds the watch's lock.
LockHeld == \A c \in Checkers : pc[c] \in Inside => lock = c

\* A check that is pushing holds the database.
WriterHeld == \A c \in Checkers : pc[c] = "push" => writer = c

\* Every spell of availability opened before the check that now runs.
SinceIsPast ==
    /\ \A c \in Checkers : pc[c] \in Inside => at[c] <= clock
    /\ \A k \in Codes : db[k].since # None => db[k].since <= clock
    /\ \A c \in Checkers : pc[c] \in Inside =>
          \A k \in Codes : db[k].since # None => db[k].since <= at[c]
    /\ \A c \in Checkers : pc[c] \in {"staged", "push"} =>
          \A k \in Codes : rows[c][k].since # None => rows[c][k].since <= at[c]

\* What a check loaded is what the table holds, but for rows deleted since.
RowsStillHold ==
    \A c \in Checkers : pc[c] \in {"staged", "push"} =>
        \A k \in Codes :
            /\ db[k].here => rows[c][k].here
            /\ db[k].here => rows[c][k].phase = db[k].phase
            /\ pc[c] = "push" /\ Listed(c, k) => db[k].here = rows[c][k].here

\* The inductive invariant.
Inv ==
    /\ TypeOK
    /\ LockHeld /\ WriterHeld
    /\ SinceIsPast /\ RowsStillHold
    /\ HistoryMatchesRows /\ OneEventPerTransition
    /\ EventsWereTold /\ NoOrphans

-----------------------------------------------------------------------------
(* The steps that write no Product row and no Event.                       *)

History == HistoryMatchesRows /\ OneEventPerTransition /\ EventsWereTold

\* The properties of the history depend on the rows and the log alone.
LEMMA HistoryKept ==
    ASSUME History, UNCHANGED <<db, log>>
    PROVE  History'
  BY DEF History, HistoryMatchesRows, OneEventPerTransition, EventsWereTold,
         IsEvent

\* A check that ends without a commit, for whatever reason, leaves the
\* invariant standing.
LEMMA EndsKeepsInv ==
    ASSUME Inv, NEW c \in Checkers, pc[c] \in Inside, Ends(c),
           UNCHANGED <<clock, watchVars, lastOk, db, log, sweep>>
    PROVE  Inv'
  <1>1. TypeOK'
    BY DEF Inv, TypeOK, Ends, watchVars, NoAsk, NoPage, NoRows, NoRow, Row,
           NoneSent, Told, Phases, Absent
  <1>2. LockHeld' /\ WriterHeld'
    BY DEF Inv, TypeOK, Ends, LockHeld, WriterHeld, Inside
  <1>3. SinceIsPast'
    BY DEF Inv, TypeOK, Ends, SinceIsPast, Inside
  <1>4. RowsStillHold'
    BY DEF Inv, TypeOK, Ends, RowsStillHold, Listed
  <1>5. History'
    BY HistoryKept DEF Inv, History
  <1>6. NoOrphans'
    BY DEF Inv, NoOrphans, watchVars
  <1> QED
    BY <1>1, <1>2, <1>3, <1>4, <1>5, <1>6 DEF Inv, History

-----------------------------------------------------------------------------
(* The commit.                                                             *)

\* The kind of an event and the duration it carries are well-formed: the
\* spell it closes opened before the check's `now'.
LEMMA EntryTypes ==
    ASSUME Inv, NEW c \in Checkers, pc[c] = "push", NEW k \in Codes
    PROVE  /\ EventKind(c, k) \in Kinds
           /\ NextPhase(c, k) \in Phases
           /\ \A kind \in Kinds, phase \in Phases :
                 EntryOf(c, k, kind, phase) \in Entry
  <1> USE CheckersAssumption, NoneAssumption
  <1>1. /\ rows[c][k] \in Row /\ clock \in Nat
        /\ at[c] \in Nat /\ sent[c][k] \in Told /\ asked[c].inc \in Nat
        /\ page[c][k] \in Phases \cup {Absent}
    BY DEF Inv, TypeOK
  <1>2. NextPhase(c, k) \in Phases
    BY <1>1 DEF NextPhase, Listed, Phases, Absent
  <1>3. EventKind(c, k) \in Kinds
    BY <1>2 DEF EventKind, Kinds, Phases
  <1>4. rows[c][k].since # None => rows[c][k].since <= at[c]
    BY DEF Inv, SinceIsPast
  <1>5. Seconds(c, k) \in Nat \cup {None}
    BY <1>1, <1>4 DEF Seconds, Row
  <1> QED
    BY <1>1, <1>2, <1>3, <1>5 DEF EntryOf, Entry

\* The row and the history a commit leaves a product are well-typed, and no
\* spell of availability opens after the check's `now'.
LEMMA CommitTypes ==
    ASSUME Inv, NEW c \in Checkers, pc[c] = "push", NEW k \in Codes
    PROVE  /\ RowAfter(c, k) \in Row
           /\ LogAfter(c, k) \in Seq(Entry)
           /\ RowAfter(c, k).since # None => RowAfter(c, k).since <= at[c]
  <1> USE CheckersAssumption, NoneAssumption
  <1> DEFINE r == rows[c][k]
  <1>1. /\ r \in Row /\ db[k] \in Row /\ log[k] \in Seq(Entry)
        /\ at[c] \in Nat
        /\ page[c][k] \in Phases \cup {Absent}
    BY DEF Inv, TypeOK
  <1>2. /\ r.since # None => r.since <= at[c]
        /\ db[k].since # None => db[k].since <= at[c]
    BY DEF Inv, SinceIsPast, Inside
  <1>3. NextPhase(c, k) \in Phases /\ (Listed(c, k) => page[c][k] \in Phases)
    BY <1>1 DEF NextPhase, Listed, Phases, Absent
  <1>4. LogAfter(c, k) \in Seq(Entry)
    <2>1. "baseline" \in Kinds /\ "unannounced" \in Kinds /\ "oos" \in Phases
      BY DEF Kinds, Phases
    <2> QED
      BY <1>1, <1>3, <2>1, EntryTypes DEF LogAfter
  <1>5. SinceAfter(c, k, r.phase, NextPhase(c, k)) \in Nat \cup {None}
    BY <1>1 DEF SinceAfter, Row
  <1>6. RowAfter(c, k) \in Row
    <2>1. Updated(c, k) \in Row
      <3> DEFINE changed == k \in Alerting(c) /\ Accepted(c, k)
                 phase == IF changed THEN NextPhase(c, k) ELSE db[k].phase
                 since == IF changed THEN SinceAfter(c, k, r.phase, NextPhase(c, k))
                          ELSE db[k].since
                 seen == IF Listed(c, k) THEN at[c] ELSE db[k].seen
                 archived == IF Listed(c, k) /\ r.archived THEN FALSE
                             ELSE db[k].archived
      <3>1. /\ phase \in Phases /\ since \in Nat \cup {None}
            /\ seen \in Nat /\ archived \in BOOLEAN
        BY <1>1, <1>3, <1>5 DEF Row
      <3>2. Updated(c, k) = [db[k] EXCEPT !.phase = phase, !.since = since,
                                          !.seen = seen, !.archived = archived]
        BY Zenon DEF Updated
      <3> HIDE DEF phase, since, seen, archived
      <3> QED
        BY <1>1, <3>1, <3>2 DEF Row
    <2>2. Listed(c, k) => Inserted(c, k) \in Row
      BY <1>1, <1>3 DEF Inserted, Row, Phases
    <2> QED
      BY <1>1, <2>1, <2>2 DEF RowAfter
  <1>7. RowAfter(c, k).since # None => RowAfter(c, k).since <= at[c]
    <2>1. Updated(c, k).since # None => Updated(c, k).since <= at[c]
      BY <1>1, <1>2 DEF Updated, SinceAfter, Row
    <2>2. Inserted(c, k).since # None => Inserted(c, k).since <= at[c]
      BY <1>1 DEF Inserted
    <2> QED
      BY <1>1, <1>2, <2>1, <2>2 DEF RowAfter
  <1> QED
    BY <1>4, <1>6, <1>7

\* A commit leaves each product a history that ends in the phase of its row,
\* and that it lengthened, if at all, by one entry: another phase than the
\* last, told or silenced when it is an event.
LEMMA CommitHistory ==
    ASSUME Inv, NEW c \in Checkers, pc[c] = "push", CommitStands(c),
           NEW k \in Codes
    PROVE  \/ /\ RowAfter(c, k).here = db[k].here
              /\ RowAfter(c, k).phase = db[k].phase
              /\ LogAfter(c, k) = log[k]
           \/ \E e \in Entry :
                 /\ RowAfter(c, k).here
                 /\ RowAfter(c, k).phase = e.phase
                 /\ LogAfter(c, k) = Append(log[k], e)
                 /\ log[k] # <<>> => log[k][Len(log[k])].phase # e.phase
                 /\ IsEvent(e) => e.told \in {"pushed", "silenced"}
  <1> DEFINE r == rows[c][k]
             base == EntryOf(c, k, "baseline", page[c][k])
             plain == EntryOf(c, k, "unannounced", "oos")
             told == EntryOf(c, k, EventKind(c, k), NextPhase(c, k))
  <1>1. /\ r \in Row /\ db[k] \in Row /\ log[k] \in Seq(Entry)
        /\ page[c][k] \in Phases \cup {Absent}
    BY DEF Inv, TypeOK
  <1>2. /\ db[k].here => r.here
        /\ db[k].here => r.phase = db[k].phase
        /\ Listed(c, k) => db[k].here = r.here
    BY DEF Inv, RowsStillHold
  <1>3. /\ db[k].here <=> log[k] # <<>>
        /\ db[k].here => db[k].phase = log[k][Len(log[k])].phase
    BY DEF Inv, HistoryMatchesRows
  <1>4. "baseline" \in Kinds /\ "unannounced" \in Kinds /\ "oos" \in Phases
    BY DEF Kinds, Phases
  <1>5. CASE r.here
    <2>1. ~FirstPoll(c) /\ ~Discovered(c, k)
      BY <1>5 DEF FirstPoll, Discovered
    <2>2. RowAfter(c, k) = Updated(c, k) /\ Updated(c, k).here = db[k].here
      BY <1>1, <1>5 DEF RowAfter, Updated, Row
    <2>3. CASE k \in Alerting(c) /\ Accepted(c, k)
      <3>1. Moved(c, k) \/ Delisted(c, k)
        BY <2>1, <2>3 DEF Alerting
      <3>2. db[k].here /\ NextPhase(c, k) # db[k].phase
        <4>1. CASE Moved(c, k)
          BY <1>2, <4>1 DEF Moved, NextPhase
        <4>2. CASE Delisted(c, k)
          BY <1>2, <2>3, <4>2 DEF Delisted, NextPhase, CommitStands
        <4> QED
          BY <3>1, <4>1, <4>2
      <3>3. Updated(c, k).phase = NextPhase(c, k)
        BY <1>1, <2>3 DEF Updated, Row
      <3>4. LogAfter(c, k) = Append(log[k], told)
        BY <2>1, <2>3 DEF LogAfter
      <3>5. told.phase = NextPhase(c, k) /\ told.told = sent[c][k]
        BY DEF EntryOf
      <3>6. told \in Entry
        BY EntryTypes
      <3> QED
        BY <1>3, <2>2, <2>3, <3>2, <3>3, <3>4, <3>5, <3>6 DEF Accepted
    <2>4. CASE ~(k \in Alerting(c) /\ Accepted(c, k))
      <3>1. Updated(c, k).phase = db[k].phase
        BY <1>1, <2>4 DEF Updated, Row
      <3>2. LogAfter(c, k) = log[k]
        BY <2>1, <2>4 DEF LogAfter
      <3> QED
        BY <2>2, <3>1, <3>2
    <2> QED
      BY <2>3, <2>4
  <1>6. CASE ~r.here /\ Listed(c, k)
    <2>1. log[k] = <<>>
      BY <1>2, <1>3, <1>6
    <2>2. page[c][k] \in Phases /\ NextPhase(c, k) = page[c][k]
      BY <1>1, <1>6 DEF Listed, NextPhase
    <2>3. RowAfter(c, k) = Inserted(c, k) /\ Inserted(c, k).here
      BY <1>6 DEF RowAfter, Inserted
    <2>4. CASE FirstPoll(c)
      <3>1. Inserted(c, k).phase = page[c][k]
        BY <2>4 DEF Inserted
      <3>2. LogAfter(c, k) = Append(log[k], base)
        BY <1>6, <2>4 DEF LogAfter
      <3>3. base \in Entry /\ base.phase = page[c][k] /\ ~IsEvent(base)
        BY <1>4, <2>2, EntryTypes DEF EntryOf, IsEvent
      <3> QED
        BY <2>1, <2>3, <3>1, <3>2, <3>3
    <2>5. CASE ~FirstPoll(c) /\ Accepted(c, k)
      <3>1. Inserted(c, k).phase = NextPhase(c, k)
        BY <2>2, <2>5 DEF Inserted
      <3>2. LogAfter(c, k) = Append(log[k], told)
        BY <1>6, <2>5 DEF LogAfter, Alerting, Discovered
      <3>3. /\ told \in Entry /\ told.phase = NextPhase(c, k)
            /\ told.told = sent[c][k]
        BY EntryTypes DEF EntryOf
      <3> QED
        BY <2>1, <2>3, <2>5, <3>1, <3>2, <3>3 DEF Accepted
    <2>6. CASE ~FirstPoll(c) /\ ~Accepted(c, k)
      <3>1. Inserted(c, k).phase = "oos"
        BY <2>6 DEF Inserted
      <3>2. LogAfter(c, k) = Append(log[k], plain)
        BY <1>6, <2>6 DEF LogAfter, Discovered
      <3>3. plain \in Entry /\ plain.phase = "oos" /\ ~IsEvent(plain)
        BY <1>4, EntryTypes DEF EntryOf, IsEvent
      <3> QED
        BY <2>1, <2>3, <3>1, <3>2, <3>3
    <2> QED
      BY <2>4, <2>5, <2>6
  <1>7. CASE ~r.here /\ ~Listed(c, k)
    <2>1. RowAfter(c, k) = db[k]
      BY <1>7 DEF RowAfter
    <2>2. k \notin Alerting(c) /\ ~Discovered(c, k)
      BY <1>7 DEF Alerting, Discovered, Moved, Delisted
    <2>3. LogAfter(c, k) = log[k]
      BY <1>7, <2>2 DEF LogAfter
    <2> QED
      BY <2>1, <2>3
  <1> QED
    BY <1>5, <1>6, <1>7

\* A commit preserves the invariant.
LEMMA CommitKeepsInv ==
    ASSUME Inv, NEW c \in Checkers, Commit(c)
    PROVE  Inv'
  <1> USE CheckersAssumption, NoneAssumption
  <1>1. /\ pc[c] = "push" /\ CommitStands(c) /\ Ends(c) /\ live
        /\ at[c] \in Nat /\ at[c] <= clock
    BY DEF Inv, TypeOK, SinceIsPast, Inside, Commit, CommitStands
  <1>2. /\ db' = [k \in Codes |-> RowAfter(c, k)]
        /\ log' = [k \in Codes |-> LogAfter(c, k)]
        /\ lastOk' = at[c]
        /\ UNCHANGED <<clock, live, inc, quiet, sweep>>
    BY DEF Commit, watchVars
  <1>3. TypeOK'
    <2>1. db' \in [Codes -> Row] /\ log' \in [Codes -> Seq(Entry)]
      BY <1>1, <1>2, CommitTypes
    <2> QED
      BY <1>1, <1>2, <2>1
      DEF Inv, TypeOK, Ends, NoAsk, NoPage, NoRows, NoRow, Row,
          NoneSent, Told, Phases, Absent
  <1>4. \A d \in Checkers : pc'[d] \notin Inside
    BY <1>1 DEF Inv, TypeOK, LockHeld, Ends, Inside
  <1>5. LockHeld' /\ WriterHeld' /\ RowsStillHold'
    BY <1>4 DEF LockHeld, WriterHeld, RowsStillHold, Inside
  <1>6. SinceIsPast'
    <2>1. ASSUME NEW k \in Codes PROVE db'[k].since # None => db'[k].since <= clock'
      <3>1. RowAfter(c, k) \in Row
        BY <1>1, CommitTypes
      <3>2. RowAfter(c, k).since # None => RowAfter(c, k).since <= at[c]
        BY <1>1, CommitTypes
      <3>3. clock \in Nat /\ RowAfter(c, k).since \in Nat \cup {None}
        BY <3>1 DEF Inv, TypeOK, Row
      <3> QED
        BY <1>1, <1>2, <3>2, <3>3
    <2> QED
      BY <1>4, <2>1 DEF SinceIsPast, Inside
  <1>7. History'
    <2>1. ASSUME NEW k \in Codes
          PROVE  /\ db'[k].here <=> log'[k] # <<>>
                 /\ db'[k].here => db'[k].phase = log'[k][Len(log'[k])].phase
                 /\ \A n \in 1 .. Len(log'[k]) - 1 :
                       log'[k][n].phase # log'[k][n + 1].phase
                 /\ \A n \in 1 .. Len(log'[k]) : IsEvent(log'[k][n]) =>
                       log'[k][n].told \in {"pushed", "silenced"}
      <3>1. /\ db'[k] = RowAfter(c, k) /\ log'[k] = LogAfter(c, k)
            /\ log[k] \in Seq(Entry)
        BY <1>2 DEF Inv, TypeOK
      <3>2. /\ db[k].here <=> log[k] # <<>>
            /\ db[k].here => db[k].phase = log[k][Len(log[k])].phase
            /\ \A n \in 1 .. Len(log[k]) - 1 :
                  log[k][n].phase # log[k][n + 1].phase
            /\ \A n \in 1 .. Len(log[k]) : IsEvent(log[k][n]) =>
                  log[k][n].told \in {"pushed", "silenced"}
        BY DEF Inv, HistoryMatchesRows, OneEventPerTransition, EventsWereTold
      <3>3. CASE /\ RowAfter(c, k).here = db[k].here
                 /\ RowAfter(c, k).phase = db[k].phase
                 /\ LogAfter(c, k) = log[k]
        BY <3>1, <3>2, <3>3
      <3>4. ASSUME NEW e \in Entry,
                   RowAfter(c, k).here,
                   RowAfter(c, k).phase = e.phase,
                   LogAfter(c, k) = Append(log[k], e),
                   log[k] # <<>> => log[k][Len(log[k])].phase # e.phase,
                   IsEvent(e) => e.told \in {"pushed", "silenced"}
            PROVE  /\ db'[k].here <=> log'[k] # <<>>
                   /\ db'[k].here => db'[k].phase = log'[k][Len(log'[k])].phase
                   /\ \A n \in 1 .. Len(log'[k]) - 1 :
                         log'[k][n].phase # log'[k][n + 1].phase
                   /\ \A n \in 1 .. Len(log'[k]) : IsEvent(log'[k][n]) =>
                         log'[k][n].told \in {"pushed", "silenced"}
        <4> DEFINE N == Len(log[k])
        <4>1. /\ N \in Nat /\ Len(log'[k]) = N + 1 /\ log'[k] # <<>>
              /\ log'[k][N + 1] = e
              /\ \A n \in 1 .. N : log'[k][n] = log[k][n]
          BY <3>1, <3>4
        <4>2. ASSUME NEW n \in 1 .. N
              PROVE  log'[k][n].phase # log'[k][n + 1].phase
          <5>1. CASE n = N
            <6>1. log[k] # <<>>
              BY <3>1, <5>1
            <6> QED
              BY <3>4, <4>1, <5>1, <6>1
          <5>2. CASE n < N
            <6>1. n \in 1 .. N - 1 /\ n + 1 \in 1 .. N
              BY <4>1, <5>2
            <6> QED
              BY <3>2, <4>1, <6>1
          <5> QED
            BY <4>1, <5>1, <5>2
        <4>3. ASSUME NEW n \in 1 .. N + 1, IsEvent(log'[k][n])
              PROVE  log'[k][n].told \in {"pushed", "silenced"}
          <5>1. CASE n = N + 1
            BY <3>4, <4>1, <4>3, <5>1
          <5>2. CASE n \in 1 .. N
            BY <3>2, <4>1, <4>3, <5>2
          <5> QED
            BY <4>1, <5>1, <5>2
        <4> QED
          BY <3>1, <3>4, <4>1, <4>2, <4>3, SMTT(30)
      <3> QED
        BY <1>1, <3>3, <3>4, CommitHistory
    <2> QED
      BY <2>1 DEF History, HistoryMatchesRows, OneEventPerTransition,
                  EventsWereTold
  <1>8. NoOrphans'
    BY <1>1, <1>2 DEF NoOrphans
  <1> QED
    BY <1>3, <1>5, <1>6, <1>7, <1>8 DEF Inv, History

-----------------------------------------------------------------------------
(* The other steps of a check.                                             *)

\* Waiting for the lock, taking it, loading, flushing and pushing preserve
\* the invariant: they write nothing that is committed.
LEMMA InFlightKeepsInv ==
    ASSUME Inv, NEW c \in Checkers,
           Begin(c) \/ Acquire(c) \/ Load(c) \/ Flush(c) \/ Push(c) \/ PushGroup(c)
    PROVE  Inv'
  <1> USE CheckersAssumption, NoneAssumption
  <1>1. UNCHANGED <<live, db, log>>
    BY DEF Begin, Acquire, Load, Flush, Push, PushGroup, watchVars
  <1>2. History' /\ NoOrphans'
    BY <1>1, HistoryKept DEF Inv, History, NoOrphans
  <1>3. CASE Begin(c)
    <2>1. TypeOK'
      BY <1>3 DEF Inv, TypeOK, Begin, watchVars
    <2>2. LockHeld' /\ WriterHeld'
      BY <1>3 DEF Inv, TypeOK, LockHeld, WriterHeld, Inside, Begin
    <2>3. SinceIsPast' /\ RowsStillHold'
      BY <1>3 DEF Inv, TypeOK, SinceIsPast, RowsStillHold, Listed, Inside, Begin
    <2> QED
      BY <1>2, <2>1, <2>2, <2>3 DEF Inv, History
  <1>4. CASE Acquire(c)
    <2>1. TypeOK'
      BY <1>4 DEF Inv, TypeOK, Acquire, watchVars
    <2>2. LockHeld' /\ WriterHeld'
      BY <1>4 DEF Inv, TypeOK, LockHeld, WriterHeld, Inside, Acquire
    <2>3. SinceIsPast'
      BY <1>4 DEF Inv, TypeOK, SinceIsPast, LockHeld, Inside, Acquire, Row
    <2>4. RowsStillHold'
      BY <1>4, SMTT(30) DEF Inv, TypeOK, RowsStillHold, Listed, Acquire
    <2> QED
      BY <1>2, <2>1, <2>2, <2>3, <2>4 DEF Inv, History
  <1>5. CASE Load(c)
    <2>1. TypeOK'
      BY <1>5 DEF Inv, TypeOK, Load, watchVars
    <2>2. LockHeld' /\ WriterHeld'
      BY <1>5 DEF Inv, TypeOK, LockHeld, WriterHeld, Inside, Load
    <2>3. SinceIsPast'
      BY <1>5 DEF Inv, TypeOK, SinceIsPast, Inside, Load
    <2>4. RowsStillHold'
      BY <1>5 DEF Inv, TypeOK, RowsStillHold, Listed, Load
    <2> QED
      BY <1>2, <2>1, <2>2, <2>3, <2>4 DEF Inv, History
  <1>6. CASE Flush(c)
    <2>1. TypeOK'
      BY <1>6 DEF Inv, TypeOK, Flush, watchVars, Told
    <2>2. LockHeld' /\ WriterHeld'
      BY <1>6 DEF Inv, TypeOK, LockHeld, WriterHeld, Inside, Flush
    <2>3. SinceIsPast'
      BY <1>6 DEF Inv, TypeOK, SinceIsPast, Inside, Flush
    <2>4. RowsStillHold'
      BY <1>6 DEF Inv, TypeOK, RowsStillHold, RowsStand, Listed, Flush
    <2> QED
      BY <1>2, <2>1, <2>2, <2>3, <2>4 DEF Inv, History
  <1>7. CASE Push(c) \/ PushGroup(c)
    <2>1. sent' \in [Checkers -> [Codes -> Told]]
      <3>1. sent \in [Checkers -> [Codes -> Told]]
            /\ \A outcome \in {"pushed", "failed"} : outcome \in Told
        BY DEF Inv, TypeOK, Told
      <3>2. CASE Push(c)
        <4>1. PICK k \in Pending(c), outcome \in {"pushed", "failed"} :
                     sent' = [sent EXCEPT ![c][k] = outcome]
          BY <3>2 DEF Push
        <4> QED
          BY <3>1, <4>1
      <3>3. CASE PushGroup(c)
        <4>1. PICK outcome \in {"pushed", "failed"} :
                sent' = [sent EXCEPT ![c] = [k \in Codes |->
                           IF k \in Sendable(c) THEN outcome ELSE sent[c][k]]]
          BY <3>3 DEF PushGroup
        <4> QED
          BY <3>1, <4>1
      <3> QED
        BY <1>7, <3>2, <3>3
    <2>2. UNCHANGED <<clock, watchVars, lastOk, db, log, lock, writer, sweep,
                      pc, asked, at, page, rows>>
      BY <1>7 DEF Push, PushGroup
    <2>3. TypeOK'
      BY <2>1, <2>2 DEF Inv, TypeOK, watchVars
    <2>4. LockHeld' /\ WriterHeld' /\ SinceIsPast' /\ RowsStillHold'
      BY <2>2 DEF Inv, LockHeld, WriterHeld, SinceIsPast, RowsStillHold, Listed
    <2> QED
      BY <1>2, <2>3, <2>4 DEF Inv, History
  <1> QED
    BY <1>3, <1>4, <1>5, <1>6, <1>7

-----------------------------------------------------------------------------
(* The steps of everyone else.                                             *)

\* A step that changes no more than muted_until, archived_at or the sweep's
\* selection preserves the invariant.
LEMMA ColumnsKeepInv ==
    ASSUME Inv, UNCHANGED <<clock, watchVars, lastOk, log, lock, writer, checkVars>>,
           sweep' \in SUBSET Codes, db' \in [Codes -> Row],
           \A k \in Codes : /\ db'[k].here = db[k].here
                            /\ db'[k].phase = db[k].phase
                            /\ db'[k].since = db[k].since
    PROVE  Inv'
  <1>1. TypeOK' /\ LockHeld' /\ WriterHeld' /\ NoOrphans'
    BY DEF Inv, TypeOK, LockHeld, WriterHeld, NoOrphans, watchVars, checkVars
  <1>2. SinceIsPast' /\ RowsStillHold'
    BY DEF Inv, SinceIsPast, RowsStillHold, Listed, checkVars
  <1>3. HistoryMatchesRows'
    BY DEF Inv, HistoryMatchesRows
  <1>4. OneEventPerTransition' /\ EventsWereTold'
    BY DEF Inv, OneEventPerTransition, EventsWereTold, IsEvent
  <1> QED
    BY <1>1, <1>2, <1>3, <1>4 DEF Inv

\* Creating, deleting, editing and muting, which wait for the write lock,
\* preserve the invariant.
LEMMA RoutesKeepInv ==
    ASSUME Inv, CreateWatch \/ DeleteWatch \/ UpdateWatch
                \/ \E k \in Codes : Mute(k)
    PROVE  Inv'
  <1> USE CheckersAssumption, NoneAssumption
  <1>1. writer = Nobody /\ \A c \in Checkers : pc[c] # "push"
    BY DEF Inv, WriterHeld, CreateWatch, DeleteWatch, UpdateWatch, Mute
  <1>2. UNCHANGED <<clock, lock, writer, sweep, checkVars>>
    BY DEF CreateWatch, DeleteWatch, UpdateWatch, Mute
  <1>3. LockHeld' /\ WriterHeld'
    BY <1>2 DEF Inv, LockHeld, WriterHeld, checkVars
  <1>4. CASE CreateWatch \/ UpdateWatch
    <2>1. UNCHANGED <<db, log>>
      BY <1>4 DEF CreateWatch, UpdateWatch
    <2>2. TypeOK'
      <3>1. inc' \in Nat /\ lastOk' \in Nat \cup {None}
        BY <1>4 DEF Inv, TypeOK, CreateWatch, UpdateWatch
      <3>2. live' \in BOOLEAN
        BY <1>4 DEF Inv, TypeOK, CreateWatch, UpdateWatch
      <3>3. quiet' \in BOOLEAN
        BY <1>4 DEF Inv, TypeOK, CreateWatch, UpdateWatch
      <3> QED
        BY <1>2, <2>1, <3>1, <3>2, <3>3 DEF Inv, TypeOK, checkVars
    <2>3. SinceIsPast' /\ RowsStillHold'
      BY <1>2, <2>1 DEF Inv, SinceIsPast, RowsStillHold, Listed, checkVars
    <2>4. NoOrphans'
      BY <1>4, <2>1 DEF Inv, NoOrphans, CreateWatch, UpdateWatch
    <2> QED
      BY <1>3, <2>1, <2>2, <2>3, <2>4, HistoryKept DEF Inv, History
  <1>5. CASE DeleteWatch
    <2>1. TypeOK'
      <3>1. db' \in [Codes -> Row]
        BY <1>5 DEF DeleteWatch, NoRows, NoRow, Row, Phases
      <3>2. log' \in [Codes -> Seq(Entry)]
        <4>1. <<>> \in Seq(Entry)
          OBVIOUS
        <4> QED
          BY <1>5, <4>1 DEF DeleteWatch, NoLog
      <3> QED
        BY <1>2, <1>5, <3>1, <3>2 DEF Inv, TypeOK, DeleteWatch, checkVars
    <2>2. SinceIsPast' /\ RowsStillHold'
      BY <1>1, <1>2, <1>5 DEF Inv, SinceIsPast, RowsStillHold, DeleteWatch,
                              NoRows, NoRow, checkVars
    <2>3. History' /\ NoOrphans'
      BY <1>5 DEF History, HistoryMatchesRows, OneEventPerTransition,
                  EventsWereTold, NoOrphans, DeleteWatch, NoRows, NoRow, NoLog
    <2> QED
      BY <1>3, <2>1, <2>2, <2>3 DEF Inv, History
  <1>6. ASSUME NEW k \in Codes, Mute(k)
        PROVE  Inv'
    <2>1. db' = [db EXCEPT ![k].muted = ~@] /\ UNCHANGED <<watchVars, lastOk, log>>
      BY <1>6 DEF Mute
    <2>2. /\ db' \in [Codes -> Row]
          /\ \A j \in Codes : /\ db'[j].here = db[j].here
                              /\ db'[j].phase = db[j].phase
                              /\ db'[j].since = db[j].since
      <3>1. db \in [Codes -> Row] /\ db[k] \in Row
        BY DEF Inv, TypeOK
      <3>2. [db[k] EXCEPT !.muted = ~db[k].muted] \in Row
        BY <3>1 DEF Row
      <3> QED
        BY <2>1, <3>1, <3>2 DEF Row
    <2>3. sweep' \in SUBSET Codes
      BY <1>2 DEF Inv, TypeOK
    <2>4. UNCHANGED <<clock, watchVars, lastOk, log, lock, writer, checkVars>>
      BY <1>2, <2>1
    <2> QED
      BY <2>2, <2>3, <2>4, ColumnsKeepInv
  <1> QED
    BY <1>4, <1>5, <1>6

\* The archival sweep, which may write rows it selected long before,
\* preserves the invariant.
LEMMA ArchivalKeepsInv ==
    ASSUME Inv, ArchivalSelect \/ ArchivalWrite
    PROVE  Inv'
  <1>1. UNCHANGED <<clock, watchVars, lastOk, log, lock, writer, checkVars>>
    BY DEF ArchivalSelect, ArchivalWrite
  <1>2. sweep' \in SUBSET Codes
    BY DEF ArchivalSelect, ArchivalWrite
  <1>3. /\ db' \in [Codes -> Row]
        /\ \A j \in Codes : /\ db'[j].here = db[j].here
                            /\ db'[j].phase = db[j].phase
                            /\ db'[j].since = db[j].since
    <2>1. db \in [Codes -> Row]
      BY DEF Inv, TypeOK
    <2>2. CASE ArchivalSelect
      BY <2>1, <2>2 DEF ArchivalSelect
    <2>3. CASE ArchivalWrite
      <3>1. CASE \A k \in sweep : db[k].here
        <4>1. db' = [k \in Codes |->
                       [db[k] EXCEPT !.archived = db[k].archived \/ k \in sweep]]
          BY <2>3, <3>1 DEF ArchivalWrite
        <4> QED
          BY <2>1, <4>1 DEF Row
      <3>2. CASE ~ \A k \in sweep : db[k].here
        <4>1. db' = db
          BY <2>3, <3>2 DEF ArchivalWrite
        <4> QED
          BY <2>1, <4>1
      <3> QED
        BY <3>1, <3>2
    <2> QED
      BY <2>2, <2>3
  <1> QED
    BY <1>1, <1>2, <1>3, ColumnsKeepInv

\* Time passing and the death of the process preserve the invariant.
LEMMA EnvironmentKeepsInv ==
    ASSUME Inv, Pass \/ Restart
    PROVE  Inv'
  <1>1. UNCHANGED <<live, db, log>>
    BY DEF Pass, Restart, watchVars
  <1>2. History' /\ NoOrphans'
    BY <1>1, HistoryKept DEF Inv, History, NoOrphans
  <1>3. CASE Pass
    <2>1. TypeOK' /\ LockHeld' /\ WriterHeld'
      BY <1>3 DEF Inv, TypeOK, LockHeld, WriterHeld, Pass, watchVars, checkVars
    <2>2. SinceIsPast' /\ RowsStillHold'
      BY <1>3, NoneAssumption DEF Inv, TypeOK, SinceIsPast, RowsStillHold, Listed, Inside,
                  Row, Pass, checkVars
    <2> QED
      BY <1>2, <2>1, <2>2 DEF Inv, History
  <1>4. CASE Restart
    <2>1. TypeOK'
      BY <1>4 DEF Inv, TypeOK, Restart, watchVars, NoAsk, NoPage, NoRows, NoRow,
                  Row, NoneSent, Told, Phases, Absent
    <2>2. LockHeld' /\ WriterHeld' /\ SinceIsPast' /\ RowsStillHold'
      BY <1>4 DEF Inv, LockHeld, WriterHeld, SinceIsPast, RowsStillHold,
                  Inside, Restart
    <2> QED
      BY <1>2, <2>1, <2>2 DEF Inv, History
  <1> QED
    BY <1>3, <1>4

-----------------------------------------------------------------------------
(* The theorems.                                                           *)

\* The invariant holds at first.
LEMMA InitInv == Init => Inv
  <1> SUFFICES ASSUME Init PROVE Inv
    OBVIOUS
  <1>1. TypeOK
    <2>1. NoRows \in [Codes -> Row] /\ NoPage \in [Codes -> Phases \cup {Absent}]
      BY DEF NoRows, NoRow, Row, NoPage, Phases
    <2>2. NoLog \in [Codes -> Seq(Entry)]
      <3>1. <<>> \in Seq(Entry)
        OBVIOUS
      <3> QED
        BY <3>1 DEF NoLog
    <2>3. NoneSent \in [Codes -> Told] /\ NoAsk \in [inc: Nat, quiet: BOOLEAN]
      BY DEF NoneSent, Told, NoAsk
    <2> QED
      BY <2>1, <2>2, <2>3 DEF Init, TypeOK
  <1>2. LockHeld /\ WriterHeld /\ SinceIsPast /\ RowsStillHold
    BY DEF Init, LockHeld, WriterHeld, SinceIsPast, RowsStillHold, Inside,
           NoRows, NoRow
  <1>3. History /\ NoOrphans
    BY DEF Init, History, HistoryMatchesRows, OneEventPerTransition,
           EventsWereTold, NoOrphans, NoRows, NoRow, NoLog
  <1> QED
    BY <1>1, <1>2, <1>3 DEF Inv, History

\* Every step keeps it.
LEMMA StepKeepsInv ==
    ASSUME Inv, [Next]_vars
    PROVE  Inv'
  <1>1. ASSUME NEW c \in Checkers, Check(c)
        PROVE  Inv'
    <2>1. CASE FetchFails(c) \/ FlushFails(c) \/ CommitFails(c)
      BY <2>1, EndsKeepsInv DEF FetchFails, FlushFails, CommitFails, Inside
    <2>2. CASE Commit(c)
      BY <2>2, CommitKeepsInv
    <2>3. CASE Begin(c) \/ Acquire(c) \/ Load(c) \/ Flush(c)
               \/ Push(c) \/ PushGroup(c)
      BY <2>3, InFlightKeepsInv
    <2> QED
      BY <1>1, <2>1, <2>2, <2>3 DEF Check
  <1>2. CASE Others
    BY <1>2, RoutesKeepInv, ArchivalKeepsInv, EnvironmentKeepsInv DEF Others
  <1>3. CASE UNCHANGED vars
    <2>1. UNCHANGED <<clock, live, inc, quiet, lastOk, db, log, lock, writer,
                      sweep, pc, asked, at, page, rows, sent>>
      BY <1>3 DEF vars, watchVars, checkVars
    <2>2. TypeOK' /\ LockHeld' /\ WriterHeld'
      BY <2>1 DEF Inv, TypeOK, LockHeld, WriterHeld
    <2>3. SinceIsPast' /\ RowsStillHold' /\ NoOrphans'
      BY <2>1 DEF Inv, SinceIsPast, RowsStillHold, NoOrphans, Listed
    <2>4. History'
      BY <2>1, HistoryKept DEF Inv, History
    <2> QED
      BY <2>2, <2>3, <2>4 DEF Inv, History
  <1> QED
    BY <1>1, <1>2, <1>3 DEF Next

\* The inductive invariant holds in every reachable state: while a check is
\* between its load and its commit, the rows it loaded are the rows of the
\* table, but for those the delete-watch route removed.
THEOREM Invariance == Spec => []Inv
  BY InitInv, StepKeepsInv, PTL DEF Spec

\* Every variable keeps its type; a row's available_seconds is never
\* negative, because no spell of availability opens after the `now' of the
\* check that closes it.
THEOREM TypeCorrectness == Spec => []TypeOK
  BY Invariance, PTL DEF Inv

\* No two neighbouring entries of a product's history report the same phase,
\* whatever checks overlap, fail, are retried or die half-way.
THEOREM Alternation == Spec => []OneEventPerTransition
  BY Invariance, PTL DEF Inv

\* The phase a row stores is the one its history ends in.
THEOREM Agreement == Spec => []HistoryMatchesRows
  BY Invariance, PTL DEF Inv

\* An Event row is written only when its push was accepted or nobody was to
\* be told.
THEOREM Delivery == Spec => []EventsWereTold
  BY Invariance, PTL DEF Inv

\* A deleted watch leaves no product and no event, even when a check of it
\* was in flight.
THEOREM Cleanup == Spec => []NoOrphans
  BY Invariance, PTL DEF Inv

-----------------------------------------------------------------------------
(***************************************************************************)
(* Poller implements StockLedger.                                          *)
(*                                                                         *)
(* PollerProofs gives the phases; here come the times.  A row's            *)
(* available_since is the time of the line that opened the running spell   *)
(* (SinceOpensSpell), what a check loaded still has it (RowsKeepSince),    *)
(* and every settled line was written before the `now' of the check that   *)
(* holds the lock (LogIsPast).  Since a history has at most one running    *)
(* spell, the row is a function of the history.  The baseline of a first   *)
(* poll is silent as long as no id is handed out twice (Silence).          *)
(***************************************************************************)

\* The n-th line of k's history opens the spell still running.
Opening(k, m) ==
    /\ m \in 1 .. Len(log[k])
    /\ SpellOpens(k, m)
    /\ \A n \in m .. Len(log[k]) : log[k][n].phase # "oos"

RowsKeepSince ==
    \A c \in Checkers : pc[c] \in {"staged", "push"} =>
        \A k \in Codes : db[k].here => rows[c][k].since = db[k].since

LogIsPast ==
    /\ \A k \in Codes : \A n \in 1 .. Len(log[k]) :
          log[k][n].at <= log[k][n].ts /\ log[k][n].ts <= clock
    /\ \A c \in Checkers : pc[c] \in Inside =>
          /\ at[c] > 0
          /\ \A k \in Codes : \A n \in 1 .. Len(log[k]) : log[k][n].ts < at[c]

BlankRows == \A k \in Codes : ~db[k].here => db[k].phase = "oos"

Times == SinceOpensSpell /\ DurationSpansSpell /\ BlankRows

\* The inductive invariant.
TimedInv == Inv /\ Times /\ RowsKeepSince /\ LogIsPast

-----------------------------------------------------------------------------
(* The row is a function of the history.                                   *)

\* What the ledger takes for the start of the running spell is the time of
\* the only line that opens one.
LEMMA OneRunningSpell ==
    ASSUME TypeOK, NEW k \in Codes, NEW m, Opening(k, m)
    PROVE  Ledger!OpenSince(Book[k]) = log[k][m].at
  <1> DEFINE h == Book[k]
             o == CHOOSE j \in 1 .. Len(h) : Ledger!Running(h, j)
  <1>1. log[k] \in Seq(Entry)
    BY DEF TypeOK
  <1>2. /\ Len(h) = Len(log[k]) /\ Len(h) \in Nat
        /\ \A n \in 1 .. Len(h) : /\ h[n].phase = log[k][n].phase
                                  /\ h[n].at = log[k][n].at
    BY <1>1 DEF Book, LineOf
  <1>3. m \in 1 .. Len(h) /\ Ledger!Running(h, m)
    BY <1>2 DEF Opening, SpellOpens, Ledger!Running
  <1>4. o \in 1 .. Len(h) /\ Ledger!Running(h, o)
    BY <1>3
  <1> HIDE DEF o
  <1>5. ~ o < m
    <2>1. SUFFICES ASSUME o < m PROVE FALSE
      OBVIOUS
    <2>2. m > 1 /\ m - 1 \in o .. Len(h)
      BY <1>2, <1>3, <1>4, <2>1
    <2> QED
      BY <1>3, <1>4, <2>2 DEF Ledger!Running
  <1>6. ~ m < o
    <2>1. SUFFICES ASSUME m < o PROVE FALSE
      OBVIOUS
    <2>2. o > 1 /\ o - 1 \in m .. Len(h)
      BY <1>2, <1>3, <1>4, <2>1
    <2> QED
      BY <1>3, <1>4, <2>2 DEF Ledger!Running
  <1>7. o = m
    BY <1>2, <1>3, <1>4, <1>5, <1>6
  <1> QED
    BY <1>2, <1>3, <1>7 DEF Ledger!OpenSince, o

RowsShow == Sheet = [k \in Codes |-> Ledger!Shown(Book[k])]

\* Every row shows what its history says.
LEMMA RowsShowHistory == TimedInv => RowsShow
  <1> SUFFICES ASSUME TimedInv, NEW k \in Codes
               PROVE  Sheet[k] = Ledger!Shown(Book[k])
    BY DEF RowsShow, Sheet
  <1>1. log[k] \in Seq(Entry) /\ TypeOK
    BY DEF TimedInv, Inv, TypeOK
  <1>2. /\ Book[k] = <<>> <=> log[k] = <<>>
        /\ Len(Book[k]) = Len(log[k])
        /\ \A n \in 1 .. Len(log[k]) : Book[k][n].phase = log[k][n].phase
    BY <1>1 DEF Book, LineOf
  <1>3. /\ db[k].here <=> log[k] # <<>>
        /\ db[k].here => db[k].phase = log[k][Len(log[k])].phase
    BY DEF TimedInv, Inv, HistoryMatchesRows
  <1>4. CASE log[k] = <<>>
    <2>1. ~db[k].here /\ db[k].phase = "oos" /\ db[k].since = None
      BY <1>3, <1>4 DEF TimedInv, Times, BlankRows, SinceOpensSpell
    <2>2. Book[k] = <<>>
      BY <1>2, <1>4
    <2>3. Ledger!Shown(Book[k]) = [here |-> FALSE, phase |-> "oos", since |-> None]
      BY <2>2 DEF Ledger!Shown
    <2>4. Sheet[k] = [here |-> db[k].here, phase |-> "oos", since |-> None]
      BY <2>1 DEF Sheet
    <2>5. db[k].here = FALSE
      BY <2>1 DEF TimedInv, Inv, TypeOK, Row
    <2> QED
      BY <2>3, <2>4, <2>5
  <1>5. CASE log[k] # <<>>
    <2>1. /\ Len(log[k]) \in 1 .. Len(log[k]) /\ db[k].here
          /\ Book[k][Len(Book[k])].phase = db[k].phase
      BY <1>1, <1>2, <1>3, <1>5
    <2>2. db[k].since = IF db[k].phase = "oos" THEN None
                        ELSE Ledger!OpenSince(Book[k])
      <3>1. CASE db[k].phase = "oos"
        BY <3>1 DEF TimedInv, Times, SinceOpensSpell
      <3>2. CASE db[k].phase # "oos"
        <4>1. PICK m \in 1 .. Len(log[k]) :
                 Opening(k, m) /\ db[k].since = log[k][m].at
          BY <3>2 DEF TimedInv, Times, SinceOpensSpell, Opening
        <4> QED
          BY <1>1, <3>2, <4>1, OneRunningSpell
      <3> QED
        BY <3>1, <3>2
    <2>3. Book[k] # <<>> /\ db[k].here = TRUE
      BY <1>2, <1>5, <2>1 DEF TimedInv, Inv, TypeOK, Row
    <2> QED
      BY <2>1, <2>2, <2>3 DEF Sheet, Ledger!Shown
  <1> QED
    BY <1>4, <1>5

-----------------------------------------------------------------------------
(* The commit.                                                             *)

\* What a commit leaves a product: nothing new, or one line and the row that
\* goes with it.
Unmoved(c, k) ==
    /\ RowAfter(c, k).here = db[k].here
    /\ RowAfter(c, k).phase = db[k].phase
    /\ RowAfter(c, k).since = db[k].since
    /\ LogAfter(c, k) = log[k]

Moves(c, k, e) ==
    /\ LogAfter(c, k) = Append(log[k], e)
    /\ RowAfter(c, k).here
    /\ RowAfter(c, k).phase = e.phase
    /\ RowAfter(c, k).since = IF e.phase = "oos" THEN None
                              ELSE IF db[k].phase = "oos" THEN at[c]
                              ELSE db[k].since
    /\ e.at = at[c] /\ e.ts = clock
    /\ e.kind = "oos" => db[k].phase # "oos" /\ e.secs = at[c] - db[k].since
    /\ e.kind # "oos" => e.secs = None
    /\ \/ /\ log[k] = <<>> /\ e.kind \in {"baseline", "new_product", "unannounced"}
          /\ e.kind = "unannounced" => e.phase = "oos"
          /\ e.kind = "baseline" => \A j \in Codes : log[j] = <<>>
       \/ /\ log[k] # <<>> /\ e.phase # db[k].phase
          /\ e.kind = Ledger!KindOf(e.phase)

\* An out-of-stock row has no spell running, any other one has, and it opened
\* before the check's `now'.
LEMMA RunningSpell ==
    ASSUME TimedInv, NEW c \in Checkers, pc[c] = "push", NEW k \in Codes,
           db[k].phase # "oos"
    PROVE  db[k].since \in Nat /\ db[k].since < at[c]
  <1>1. PICK m \in 1 .. Len(log[k]) : db[k].since = log[k][m].at
    BY DEF TimedInv, Times, SinceOpensSpell
  <1>2. log[k][m] \in Entry
    BY DEF TimedInv, Inv, TypeOK
  <1>3. log[k][m].at <= log[k][m].ts /\ log[k][m].ts < at[c] /\ at[c] \in Nat
    BY DEF TimedInv, Inv, TypeOK, LogIsPast, Inside
  <1> QED
    BY <1>1, <1>2, <1>3 DEF Entry

\* A commit leaves a product as it was, or with one well-formed line more.
LEMMA CommitLine ==
    ASSUME TimedInv, NEW c \in Checkers, pc[c] = "push", CommitStands(c),
           NEW k \in Codes
    PROVE  Unmoved(c, k) \/ \E e \in Entry : Moves(c, k, e)
  <1> USE CheckersAssumption, NoneAssumption
  <1> DEFINE r == rows[c][k]
             base == EntryOf(c, k, "baseline", page[c][k])
             plain == EntryOf(c, k, "unannounced", "oos")
             told == EntryOf(c, k, EventKind(c, k), NextPhase(c, k))
  <1>1. /\ r \in Row /\ db[k] \in Row /\ log[k] \in Seq(Entry)
        /\ page[c][k] \in Phases \cup {Absent} /\ at[c] \in Nat
    BY DEF TimedInv, Inv, TypeOK
  <1>2. /\ db[k].here => r.here
        /\ db[k].here => r.phase = db[k].phase /\ r.since = db[k].since
        /\ Listed(c, k) => db[k].here = r.here
    BY DEF TimedInv, Inv, RowsStillHold, RowsKeepSince
  <1>3. /\ \A j \in Codes : db[j].here <=> log[j] # <<>>
        /\ db[k].here => db[k].phase = log[k][Len(log[k])].phase
        /\ ~db[k].here => db[k].phase = "oos"
        /\ db[k].phase = "oos" => db[k].since = None
    BY DEF TimedInv, Inv, HistoryMatchesRows, Times, BlankRows, SinceOpensSpell
  <1>4. "baseline" \in Kinds /\ "unannounced" \in Kinds /\ "oos" \in Phases
    BY DEF Kinds, Phases
  <1>5. /\ Inv /\ base.at = at[c] /\ plain.at = at[c] /\ told.at = at[c]
        /\ base.ts = clock /\ plain.ts = clock /\ told.ts = clock
    BY DEF TimedInv, EntryOf
  <1>6. CASE r.here
    <2>1. ~FirstPoll(c) /\ ~Discovered(c, k)
      BY <1>6 DEF FirstPoll, Discovered
    <2>2. RowAfter(c, k) = Updated(c, k) /\ Updated(c, k).here = db[k].here
      BY <1>1, <1>6 DEF RowAfter, Updated, Row
    <2>3. CASE k \in Alerting(c) /\ Accepted(c, k)
      <3>1. Moved(c, k) \/ Delisted(c, k)
        BY <2>1, <2>3 DEF Alerting
      <3>2. db[k].here /\ NextPhase(c, k) # db[k].phase
        <4>1. CASE Moved(c, k)
          BY <1>2, <4>1 DEF Moved, NextPhase
        <4>2. CASE Delisted(c, k)
          BY <1>2, <2>3, <4>2 DEF Delisted, NextPhase, CommitStands
        <4> QED
          BY <3>1, <4>1, <4>2
      <3>3. /\ Updated(c, k).phase = NextPhase(c, k)
            /\ Updated(c, k).since = IF NextPhase(c, k) = "oos" THEN None
                                     ELSE IF db[k].phase = "oos" THEN at[c]
                                     ELSE db[k].since
        BY <1>1, <1>2, <2>3, <3>2 DEF Updated, Row, SinceAfter
      <3>4. LogAfter(c, k) = Append(log[k], told)
        BY <2>1, <2>3 DEF LogAfter
      <3>5. /\ told.phase = NextPhase(c, k) /\ told \in Entry
            /\ told.kind = EventKind(c, k) /\ told.secs = Seconds(c, k)
            /\ NextPhase(c, k) \in Phases
        BY <1>5, EntryTypes DEF EntryOf
      <3>6. EventKind(c, k) = Ledger!KindOf(NextPhase(c, k))
        BY <1>6, <3>5 DEF EventKind, Ledger!KindOf, Phases
      <3>7. EventKind(c, k) = "oos" <=> NextPhase(c, k) = "oos"
        BY <1>6, <3>5 DEF EventKind, Phases
      <3>8. EventKind(c, k) = "oos" =>
                db[k].phase # "oos" /\ Seconds(c, k) = at[c] - db[k].since
        <4>1. SUFFICES ASSUME EventKind(c, k) = "oos"
                       PROVE  db[k].phase # "oos"
                              /\ Seconds(c, k) = at[c] - db[k].since
          OBVIOUS
        <4>2. db[k].phase # "oos"
          BY <3>2, <3>7, <4>1
        <4>3. db[k].since \in Nat /\ db[k].since < at[c]
          BY <4>2, RunningSpell
        <4> QED
          BY <1>1, <1>2, <3>2, <4>1, <4>2, <4>3 DEF Seconds
      <3>9. EventKind(c, k) # "oos" => Seconds(c, k) = None
        BY DEF Seconds
      <3>10. log[k] # <<>>
        BY <1>3, <3>2
      <3> HIDE DEF told
      <3>11. Moves(c, k, told)
        BY <1>5, <2>2, <3>2, <3>3, <3>4, <3>5, <3>6, <3>8, <3>9, <3>10
        DEF Moves
      <3> QED
        BY <3>5, <3>11
    <2>4. CASE ~(k \in Alerting(c) /\ Accepted(c, k))
      <3>1. Updated(c, k).phase = db[k].phase /\ Updated(c, k).since = db[k].since
        BY <1>1, <2>4 DEF Updated, Row
      <3>2. LogAfter(c, k) = log[k]
        BY <2>1, <2>4 DEF LogAfter
      <3> QED
        BY <2>2, <3>1, <3>2 DEF Unmoved
    <2> QED
      BY <2>3, <2>4
  <1>7. CASE ~r.here /\ Listed(c, k)
    <2>1. log[k] = <<>> /\ db[k].phase = "oos"
      BY <1>2, <1>3, <1>7
    <2>2. page[c][k] \in Phases /\ NextPhase(c, k) = page[c][k]
      BY <1>1, <1>7 DEF Listed, NextPhase
    <2>3. /\ RowAfter(c, k) = Inserted(c, k) /\ Inserted(c, k).here
          /\ Inserted(c, k).since = IF Inserted(c, k).phase = "oos"
                                    THEN None ELSE at[c]
      BY <1>7 DEF RowAfter, Inserted
    <2>4. EventKind(c, k) = "new_product" /\ Seconds(c, k) = None
      BY <1>7 DEF EventKind, Seconds
    <2>5. /\ base \in Entry /\ plain \in Entry /\ told \in Entry
          /\ base.kind = "baseline" /\ plain.kind = "unannounced"
          /\ told.kind = "new_product"
          /\ base.phase = page[c][k] /\ plain.phase = "oos"
          /\ told.phase = page[c][k]
          /\ base.secs = None /\ plain.secs = None /\ told.secs = None
      BY <1>4, <1>5, <2>2, <2>4, EntryTypes DEF EntryOf
    <2>6. FirstPoll(c) => \A j \in Codes : log[j] = <<>>
      BY <1>3 DEF FirstPoll, TimedInv, Inv, RowsStillHold
    <2>7. CASE FirstPoll(c)
      <3>1. Inserted(c, k).phase = page[c][k]
        BY <2>7 DEF Inserted
      <3>2. LogAfter(c, k) = Append(log[k], base)
        BY <1>7, <2>7 DEF LogAfter
      <3> HIDE DEF base
      <3>3. Moves(c, k, base)
        BY <1>5, <2>1, <2>3, <2>5, <2>6, <2>7, <3>1, <3>2 DEF Moves
      <3> QED
        BY <2>5, <3>3
    <2>8. CASE ~FirstPoll(c) /\ Accepted(c, k)
      <3>1. Inserted(c, k).phase = page[c][k]
        BY <2>8 DEF Inserted
      <3>2. LogAfter(c, k) = Append(log[k], told)
        BY <1>7, <2>8 DEF LogAfter, Alerting, Discovered
      <3> HIDE DEF told
      <3>3. Moves(c, k, told)
        BY <1>5, <2>1, <2>3, <2>5, <3>1, <3>2 DEF Moves
      <3> QED
        BY <2>5, <3>3
    <2>9. CASE ~FirstPoll(c) /\ ~Accepted(c, k)
      <3>1. Inserted(c, k).phase = "oos"
        BY <2>9 DEF Inserted
      <3>2. LogAfter(c, k) = Append(log[k], plain)
        BY <1>7, <2>9 DEF LogAfter, Discovered
      <3> HIDE DEF plain
      <3>3. Moves(c, k, plain)
        BY <1>5, <2>1, <2>3, <2>5, <3>1, <3>2 DEF Moves
      <3> QED
        BY <2>5, <3>3
    <2> QED
      BY <2>7, <2>8, <2>9
  <1>8. CASE ~r.here /\ ~Listed(c, k)
    <2>1. RowAfter(c, k) = db[k]
      BY <1>8 DEF RowAfter
    <2>2. LogAfter(c, k) = log[k]
      BY <1>8 DEF LogAfter, Alerting, Discovered, Moved, Delisted
    <2> QED
      BY <2>1, <2>2 DEF Unmoved
  <1> QED
    BY <1>6, <1>7, <1>8

\* The histories a commit leaves still tell when the running spell opened and
\* how long the closed ones were.
LEMMA CommitTimes ==
    ASSUME TimedInv, NEW c \in Checkers, Commit(c)
    PROVE  Times'
  <1>1. /\ pc[c] = "push" /\ CommitStands(c)
        /\ db' = [k \in Codes |-> RowAfter(c, k)]
        /\ log' = [k \in Codes |-> LogAfter(c, k)]
    BY DEF Commit
  <1>2. ASSUME NEW k \in Codes
        PROVE  /\ IF db'[k].phase = "oos" THEN db'[k].since = None
                  ELSE \E m \in 1 .. Len(log'[k]) :
                          /\ SpellOpens(k, m)'
                          /\ \A n \in m .. Len(log'[k]) : log'[k][n].phase # "oos"
                          /\ db'[k].since = log'[k][m].at
               /\ \A n \in 1 .. Len(log'[k]) : log'[k][n].kind = "oos" =>
                     \E m \in 1 .. n - 1 :
                        /\ SpellOpens(k, m)'
                        /\ \A j \in m .. n - 1 : log'[k][j].phase # "oos"
                        /\ log'[k][n].secs = log'[k][n].at - log'[k][m].at
               /\ ~db'[k].here => db'[k].phase = "oos"
    <2> DEFINE N == Len(log[k])
    <2>1. /\ log[k] \in Seq(Entry) /\ N \in Nat
          /\ db'[k] = RowAfter(c, k) /\ log'[k] = LogAfter(c, k)
      BY <1>1 DEF TimedInv, Inv, TypeOK
    <2>2. /\ db[k].here <=> log[k] # <<>>
          /\ db[k].here => db[k].phase = log[k][N].phase
          /\ ~db[k].here => db[k].phase = "oos"
      BY DEF TimedInv, Inv, HistoryMatchesRows, Times, BlankRows
    <2>3. IF db[k].phase = "oos" THEN db[k].since = None
          ELSE \E m \in 1 .. N :
                  /\ SpellOpens(k, m)
                  /\ \A n \in m .. N : log[k][n].phase # "oos"
                  /\ db[k].since = log[k][m].at
      BY DEF TimedInv, Times, SinceOpensSpell
    <2>4. \A n \in 1 .. N : log[k][n].kind = "oos" =>
             \E m \in 1 .. n - 1 :
                /\ SpellOpens(k, m)
                /\ \A j \in m .. n - 1 : log[k][j].phase # "oos"
                /\ log[k][n].secs = log[k][n].at - log[k][m].at
      BY DEF TimedInv, Times, DurationSpansSpell
    <2>5. CASE Unmoved(c, k)
      <3>1. /\ db'[k].here = db[k].here /\ db'[k].phase = db[k].phase
            /\ db'[k].since = db[k].since /\ log'[k] = log[k]
        BY <2>1, <2>5 DEF Unmoved
      <3> QED
        BY <2>2, <2>3, <2>4, <3>1 DEF SpellOpens
    <2>6. ASSUME NEW e \in Entry, Moves(c, k, e)
          PROVE  /\ IF db'[k].phase = "oos" THEN db'[k].since = None
                    ELSE \E m \in 1 .. Len(log'[k]) :
                            /\ SpellOpens(k, m)'
                            /\ \A n \in m .. Len(log'[k]) : log'[k][n].phase # "oos"
                            /\ db'[k].since = log'[k][m].at
                 /\ \A n \in 1 .. Len(log'[k]) : log'[k][n].kind = "oos" =>
                       \E m \in 1 .. n - 1 :
                          /\ SpellOpens(k, m)'
                          /\ \A j \in m .. n - 1 : log'[k][j].phase # "oos"
                          /\ log'[k][n].secs = log'[k][n].at - log'[k][m].at
                 /\ db'[k].here
      <3>1. /\ Len(log'[k]) = N + 1 /\ log'[k][N + 1] = e
            /\ \A n \in 1 .. N : log'[k][n] = log[k][n]
        BY <2>1, <2>6 DEF Moves
      <3>2. \A m \in 1 .. N : SpellOpens(k, m) => SpellOpens(k, m)'
        BY <2>1, <3>1 DEF SpellOpens
      <3>3. ASSUME db[k].phase # "oos"
            PROVE  \E m \in 1 .. N :
                      /\ SpellOpens(k, m)'
                      /\ \A n \in m .. N : log'[k][n].phase # "oos"
                      /\ db[k].since = log'[k][m].at
        <4>1. PICK m \in 1 .. N :
                  /\ SpellOpens(k, m)
                  /\ \A n \in m .. N : log[k][n].phase # "oos"
                  /\ db[k].since = log[k][m].at
          BY <2>3, <3>3
        <4> QED
          BY <2>1, <3>1, <3>2, <4>1, SMTT(30)
      <3>4. IF db'[k].phase = "oos" THEN db'[k].since = None
            ELSE \E m \in 1 .. N + 1 :
                    /\ SpellOpens(k, m)'
                    /\ \A n \in m .. N + 1 : log'[k][n].phase # "oos"
                    /\ db'[k].since = log'[k][m].at
        <4>1. CASE e.phase = "oos"
          BY <2>1, <2>6, <4>1 DEF Moves
        <4>2. CASE e.phase # "oos" /\ db[k].phase = "oos"
          <5>1. PICK m \in 1 .. N + 1 : m = N + 1
            BY <2>1
          <5>2. m > 1 => log'[k][m - 1].phase = "oos"
            BY <2>1, <2>2, <3>1, <4>2, <5>1
          <5>3. /\ db'[k].phase # "oos" /\ db'[k].since = log'[k][m].at
                /\ \A n \in m .. N + 1 : log'[k][n].phase # "oos"
                /\ log'[k][m].phase # "oos"
            BY <2>1, <2>6, <3>1, <4>2, <5>1 DEF Moves
          <5>4. SpellOpens(k, m)'
            BY <5>2, <5>3 DEF SpellOpens
          <5> QED
            BY <5>3, <5>4
        <4>3. CASE e.phase # "oos" /\ db[k].phase # "oos"
          <5>1. PICK m \in 1 .. N :
                    /\ SpellOpens(k, m)'
                    /\ \A n \in m .. N : log'[k][n].phase # "oos"
                    /\ db[k].since = log'[k][m].at
            BY <3>3, <4>3
          <5>2. db'[k].phase # "oos" /\ db'[k].since = db[k].since
            BY <2>1, <2>6, <4>3 DEF Moves
          <5>3. \A n \in m .. N + 1 : log'[k][n].phase # "oos"
            BY <2>1, <3>1, <4>3, <5>1
          <5>4. m \in 1 .. N + 1
            BY <2>1
          <5> QED
            BY <5>1, <5>2, <5>3, <5>4
        <4> QED
          BY <4>1, <4>2, <4>3
      <3>5. ASSUME NEW n \in 1 .. N + 1, log'[k][n].kind = "oos"
            PROVE  \E m \in 1 .. n - 1 :
                      /\ SpellOpens(k, m)'
                      /\ \A j \in m .. n - 1 : log'[k][j].phase # "oos"
                      /\ log'[k][n].secs = log'[k][n].at - log'[k][m].at
        <4>1. CASE n \in 1 .. N
          <5>1. PICK m \in 1 .. n - 1 :
                    /\ SpellOpens(k, m)
                    /\ \A j \in m .. n - 1 : log[k][j].phase # "oos"
                    /\ log[k][n].secs = log[k][n].at - log[k][m].at
            BY <2>4, <3>1, <3>5, <4>1
          <5>2. m \in 1 .. N /\ \A j \in m .. n - 1 : j \in 1 .. N
            BY <2>1, <4>1
          <5> QED
            BY <3>1, <3>2, <4>1, <5>1, <5>2
        <4>2. CASE n = N + 1
          <5>1. db[k].phase # "oos" /\ e.secs = at[c] - db[k].since /\ e.at = at[c]
            BY <2>6, <3>1, <3>5, <4>2 DEF Moves
          <5>2. n - 1 = N
            BY <2>1, <4>2
          <5> QED
            BY <3>1, <3>3, <4>2, <5>1, <5>2
        <4> QED
          BY <2>1, <4>1, <4>2
      <3> QED
        <4>1. Len(log'[k]) = N + 1
          BY <3>1
        <4>2. db'[k].here
          BY <2>1, <2>6 DEF Moves
        <4> QED
          BY <3>4, <3>5, <4>1, <4>2, Zenon
    <2> QED
      BY <1>1, <2>5, <2>6, CommitLine
  <1> QED
    BY <1>2 DEF Times, SinceOpensSpell, DurationSpansSpell, BlankRows

-----------------------------------------------------------------------------
(* The other steps.                                                        *)

\* The rows but for muted_until, archived_at and last_seen.
SameRows ==
    \A k \in Codes : /\ db'[k].here = db[k].here
                     /\ db'[k].phase = db[k].phase
                     /\ db'[k].since = db[k].since

\* The times depend on the rows and the history alone.
LEMMA TimesKept ==
    ASSUME Times, SameRows, log' = log
    PROVE  Times'
  BY DEF Times, SameRows, SinceOpensSpell, DurationSpansSpell, BlankRows,
         SpellOpens

\* Outside the checks only the deletion of the watch writes what Times reads.
LEMMA OthersKeepRows ==
    ASSUME TimedInv, (Others /\ ~DeleteWatch) \/ UNCHANGED vars
    PROVE  SameRows /\ log' = log
  <1>1. CASE CreateWatch \/ UpdateWatch \/ ArchivalSelect \/ Pass \/ Restart
    BY <1>1 DEF CreateWatch, UpdateWatch, ArchivalSelect, Pass, Restart, SameRows
  <1>2. ASSUME NEW k \in Codes, Mute(k)
        PROVE  SameRows /\ log' = log
    <2>1. db \in [Codes -> Row]
      BY DEF TimedInv, Inv, TypeOK
    <2> QED
      BY <1>2, <2>1 DEF Mute, SameRows, Row
  <1>3. CASE ArchivalWrite
    <2>1. db \in [Codes -> Row]
      BY DEF TimedInv, Inv, TypeOK
    <2>2. CASE \A k \in sweep : db[k].here
      <3>1. db' = [k \in Codes |->
                     [db[k] EXCEPT !.archived = db[k].archived \/ k \in sweep]]
        BY <1>3, <2>2 DEF ArchivalWrite
      <3> QED
        BY <1>3, <2>1, <3>1 DEF ArchivalWrite, SameRows, Row
    <2>3. CASE ~ \A k \in sweep : db[k].here
      BY <1>3, <2>3 DEF ArchivalWrite, SameRows
    <2> QED
      BY <2>2, <2>3
  <1>4. CASE UNCHANGED vars
    BY <1>4 DEF vars, SameRows
  <1> QED
    BY <1>1, <1>2, <1>3, <1>4 DEF Others

\* Of the checks' steps only the commit does.
LEMMA ChecksKeepRows ==
    ASSUME NEW c \in Checkers, Check(c), ~Commit(c)
    PROVE  SameRows /\ log' = log
  BY DEF Check, Begin, Acquire, FetchFails, Load, Flush, FlushFails, Push,
         PushGroup, CommitFails, SameRows

\* Every step keeps the times right.
LEMMA StepKeepsTimes ==
    ASSUME TimedInv, [Next]_vars
    PROVE  Times'
  <1>1. CASE DeleteWatch
    BY <1>1 DEF DeleteWatch, NoRows, NoRow, NoLog, Times, SinceOpensSpell,
                DurationSpansSpell, BlankRows
  <1>2. ASSUME NEW c \in Checkers, Check(c)
        PROVE  Times'
    BY <1>2, CommitTimes, ChecksKeepRows, TimesKept DEF TimedInv
  <1>3. CASE (Others /\ ~DeleteWatch) \/ UNCHANGED vars
    BY <1>3, OthersKeepRows, TimesKept DEF TimedInv
  <1> QED
    BY <1>1, <1>2, <1>3 DEF Next

\* Rows are loaded under the watch's lock, and nobody else moves them while
\* it is held.
LEMMA StepKeepsSince ==
    ASSUME TimedInv, [Next]_vars
    PROVE  RowsKeepSince'
  <1> USE CheckersAssumption
  <1>1. TypeOK /\ LockHeld /\ RowsKeepSince
    BY DEF TimedInv, Inv
  <1>2. ASSUME NEW c \in Checkers, Load(c)
        PROVE  RowsKeepSince'
    <2>1. \A d \in Checkers : d # c => pc[d] \notin Inside
      BY <1>1, <1>2 DEF LockHeld, Load, Inside
    <2> QED
      BY <1>1, <1>2, <2>1 DEF RowsKeepSince, Load, TypeOK, Inside
  <1>3. ASSUME NEW c \in Checkers,
               FetchFails(c) \/ FlushFails(c) \/ CommitFails(c) \/ Commit(c)
        PROVE  RowsKeepSince'
    <2>1. pc[c] \in Inside /\ Ends(c)
      BY <1>3 DEF FetchFails, FlushFails, CommitFails, Commit, Inside
    <2>2. \A d \in Checkers : pc'[d] \notin Inside
      BY <1>1, <2>1 DEF LockHeld, TypeOK, Ends, Inside
    <2> QED
      BY <2>2 DEF RowsKeepSince, Inside
  <1>4. ASSUME NEW c \in Checkers,
               Begin(c) \/ Acquire(c) \/ Flush(c) \/ Push(c) \/ PushGroup(c)
        PROVE  RowsKeepSince'
    <2>1. UNCHANGED <<db, rows>>
      BY <1>4 DEF Begin, Acquire, Flush, Push, PushGroup
    <2>2. \A d \in Checkers :
             pc'[d] \in {"staged", "push"} => pc[d] \in {"staged", "push"}
      BY <1>1, <1>4 DEF Begin, Acquire, Flush, Push, PushGroup, TypeOK
    <2> QED
      BY <1>1, <2>1, <2>2 DEF RowsKeepSince
  <1>5. CASE DeleteWatch
    BY <1>5 DEF RowsKeepSince, DeleteWatch, NoRows, NoRow
  <1>6. CASE (Others /\ ~DeleteWatch) \/ UNCHANGED vars
    <2>1. SameRows
      BY <1>6, OthersKeepRows
    <2>2. UNCHANGED <<pc, rows>> \/ \A c \in Checkers : pc'[c] = "idle"
      BY <1>6 DEF Others, CreateWatch, UpdateWatch, Mute, ArchivalSelect,
              ArchivalWrite, Pass, Restart, vars, checkVars
    <2> QED
      BY <1>1, <2>1, <2>2 DEF RowsKeepSince, SameRows
  <1> QED
    BY <1>2, <1>3, <1>4, <1>5, <1>6 DEF Next, Check

\* The clock moves on when the lock is taken, so what is settled was written
\* before the `now' of the check that holds it.
LEMMA StepKeepsPast ==
    ASSUME TimedInv, [Next]_vars
    PROVE  LogIsPast'
  <1> USE CheckersAssumption
  <1>1. /\ TypeOK /\ LockHeld /\ LogIsPast /\ clock \in Nat
        /\ \A k \in Codes : log[k] \in Seq(Entry)
    BY DEF TimedInv, Inv, TypeOK
  <1>2. ASSUME NEW k \in Codes, NEW n \in 1 .. Len(log[k])
        PROVE  log[k][n].at \in Nat /\ log[k][n].ts \in Nat
    <2>1. log[k][n] \in Entry
      BY <1>1
    <2> QED
      BY <2>1 DEF Entry
  <1>3. ASSUME NEW c \in Checkers, Commit(c)
        PROVE  LogIsPast'
    <2>1. /\ pc[c] = "push" /\ CommitStands(c) /\ Ends(c) /\ clock' = clock
          /\ log' = [k \in Codes |-> LogAfter(c, k)]
      BY <1>3 DEF Commit
    <2>2. at[c] <= clock
      BY <2>1 DEF TimedInv, Inv, SinceIsPast, Inside
    <2>3. \A d \in Checkers : pc'[d] \notin Inside
      BY <1>1, <2>1 DEF LockHeld, TypeOK, Ends, Inside
    <2>4. ASSUME NEW k \in Codes, NEW n \in 1 .. Len(log'[k])
          PROVE  log'[k][n].at <= log'[k][n].ts /\ log'[k][n].ts <= clock
      <3>1. log'[k] = LogAfter(c, k)
        BY <2>1
      <3>2. CASE Unmoved(c, k)
        BY <1>1, <3>1, <3>2 DEF Unmoved, LogIsPast
      <3>3. ASSUME NEW e \in Entry, Moves(c, k, e)
            PROVE  log'[k][n].at <= log'[k][n].ts /\ log'[k][n].ts <= clock
        <4>1. /\ log'[k] = Append(log[k], e) /\ log[k] \in Seq(Entry)
              /\ e.at = at[c] /\ e.ts = clock
          BY <1>1, <3>1, <3>3 DEF Moves
        <4>2. CASE n = Len(log[k]) + 1
          BY <1>1, <2>2, <4>1, <4>2
        <4>3. CASE n \in 1 .. Len(log[k])
          BY <1>1, <4>1, <4>3 DEF LogIsPast
        <4> QED
          BY <4>1, <4>2, <4>3
      <3> QED
        BY <2>1, <3>2, <3>3, CommitLine
    <2> QED
      BY <2>1, <2>3, <2>4 DEF LogIsPast
  <1>4. ASSUME NEW c \in Checkers, FetchFails(c) \/ FlushFails(c) \/ CommitFails(c)
        PROVE  LogIsPast'
    <2>1. pc[c] \in Inside /\ Ends(c) /\ UNCHANGED <<clock, log>>
      BY <1>4 DEF FetchFails, FlushFails, CommitFails, Inside
    <2>2. \A d \in Checkers : pc'[d] \notin Inside
      BY <1>1, <2>1 DEF LockHeld, TypeOK, Ends, Inside
    <2> QED
      BY <1>1, <2>1, <2>2 DEF LogIsPast
  <1>5. ASSUME NEW c \in Checkers, Acquire(c)
        PROVE  LogIsPast'
    <2>1. /\ clock' = clock + 1 /\ log' = log /\ at' = [at EXCEPT ![c] = clock + 1]
          /\ pc' = [pc EXCEPT ![c] = "fetch"] /\ lock = Nobody
      BY <1>5 DEF Acquire
    <2>2. \A d \in Checkers : pc'[d] \in Inside => d = c
      BY <1>1, <2>1 DEF LockHeld, TypeOK, Inside
    <2>3. at'[c] = clock + 1
      BY <1>1, <2>1 DEF TypeOK
    <2> QED
      BY <1>1, <1>2, <2>1, <2>2, <2>3 DEF LogIsPast
  <1>6. ASSUME NEW c \in Checkers,
               Begin(c) \/ Load(c) \/ Flush(c) \/ Push(c) \/ PushGroup(c)
        PROVE  LogIsPast'
    <2>1. UNCHANGED <<clock, at, log>>
      BY <1>6 DEF Begin, Load, Flush, Push, PushGroup
    <2>2. \A d \in Checkers : pc'[d] \in Inside => pc[d] \in Inside
      BY <1>1, <1>6 DEF Begin, Load, Flush, Push, PushGroup, TypeOK, Inside
    <2> QED
      BY <1>1, <2>1, <2>2 DEF LogIsPast
  <1>7. CASE DeleteWatch
    BY <1>1, <1>7 DEF DeleteWatch, NoLog, LogIsPast, checkVars
  <1>8. CASE (Others /\ ~DeleteWatch) \/ UNCHANGED vars
    <2>1. log' = log
      BY <1>8, OthersKeepRows
    <2>2. clock' = clock \/ clock' = clock + 1
      BY <1>8 DEF Others, CreateWatch, UpdateWatch, Mute, ArchivalSelect,
                  ArchivalWrite, Pass, Restart, vars
    <2>3. UNCHANGED <<pc, at>> \/ \A c \in Checkers : pc'[c] = "idle"
      BY <1>8 DEF Others, CreateWatch, UpdateWatch, Mute, ArchivalSelect,
                  ArchivalWrite, Pass, Restart, vars, checkVars
    <2> QED
      BY <1>1, <1>2, <2>1, <2>2, <2>3 DEF LogIsPast, Inside
  <1> QED
    BY <1>3, <1>4, <1>5, <1>6, <1>7, <1>8 DEF Next, Check

-----------------------------------------------------------------------------
(* Every step of Poller is a step of the ledger, or none.                  *)

\* A commit settles moves in the ledger.
LEMMA SettlesOnCommit ==
    ASSUME TimedInv, NEW c \in Checkers, Commit(c),
           RowsShow'
    PROVE  Ledger!Settle
  <1> USE CheckersAssumption, NoneAssumption
  <1>1. /\ pc[c] = "push" /\ CommitStands(c) /\ clock' = clock
        /\ log' = [k \in Codes |-> LogAfter(c, k)]
    BY DEF Commit
  <1>2. /\ TypeOK /\ at[c] \in Nat /\ at[c] <= clock /\ at[c] > 0
        /\ \A k \in Codes : /\ log[k] \in Seq(Entry)
                            /\ \A n \in 1 .. Len(log[k]) : log[k][n].ts < at[c]
    BY <1>1 DEF TimedInv, Inv, TypeOK, SinceIsPast, LogIsPast, Inside
  <1>3. ASSUME NEW k \in Codes
        PROVE  /\ Len(Book[k]) = Len(log[k])
               /\ \A n \in 1 .. Len(log[k]) : Book[k][n] = LineOf(log[k][n])
               /\ Book[k] = <<>> <=> log[k] = <<>>
    <2>1. log[k] \in Seq(Entry) /\ Len(log[k]) \in Nat
      BY <1>2
    <2>2. Book[k] = [n \in 1 .. Len(log[k]) |-> LineOf(log[k][n])]
      BY DEF Book
    <2> QED
      BY <2>1, <2>2
  <1>4. ASSUME NEW k \in Codes, NEW n \in 1 .. Len(Book[k])
        PROVE  Book[k][n].ts < at[c]
    <2>1. n \in 1 .. Len(log[k]) /\ Book[k][n] = LineOf(log[k][n])
      BY <1>3
    <2>2. Book[k][n].ts = log[k][n].ts
      BY <2>1 DEF LineOf
    <2> QED
      BY <1>2, <2>1, <2>2
  <1> DEFINE blank == \A j \in Codes : Book[j] = <<>>
  <1>5. ASSUME NEW k \in Codes
        PROVE  \/ Book'[k] = Book[k]
               \/ \E line \in Ledger!Lines(Book[k], at[c], clock, blank) :
                     Book'[k] = Append(Book[k], line)
    <2>1. log'[k] = LogAfter(c, k)
      BY <1>1
    <2>2. CASE Unmoved(c, k)
      BY <2>1, <2>2 DEF Unmoved, Book
    <2>3. ASSUME NEW e \in Entry, Moves(c, k, e)
          PROVE  \E line \in Ledger!Lines(Book[k], at[c], clock, blank) :
                     Book'[k] = Append(Book[k], line)
      <3>1. Book'[k] = Append(Book[k], LineOf(e))
        <4>1. log'[k] = Append(log[k], e) /\ log[k] \in Seq(Entry)
          BY <1>2, <2>1, <2>3 DEF Moves
        <4>2. /\ Len(log'[k]) = Len(log[k]) + 1 /\ log'[k][Len(log[k]) + 1] = e
              /\ \A n \in 1 .. Len(log[k]) : log'[k][n] = log[k][n]
          BY <4>1
        <4> QED
          BY <4>1, <4>2 DEF Book
      <3>2. e.phase \in Ledger!StockPhases
        BY DEF Entry, Phases, Ledger!StockPhases
      <3>3. LineOf(e) \in Ledger!Lines(Book[k], at[c], clock, blank)
        <4>1. CASE log[k] = <<>>
          <5>1. /\ e.kind \in {"baseline", "new_product", "unannounced"}
                /\ e.kind = "unannounced" => e.phase = "oos"
                /\ e.kind = "baseline" => blank
                /\ e.secs = None /\ e.at = at[c] /\ e.ts = clock
            BY <1>3, <2>3, <4>1 DEF Moves
          <5>2. LineOf(e) = [kind |-> e.kind, phase |-> e.phase, at |-> at[c],
                             ts |-> clock, secs |-> None]
            BY <5>1 DEF LineOf
          <5>3. LineOf(e) \in Ledger!FirstLines(at[c], clock, blank)
            BY <3>2, <5>1, <5>2 DEF Ledger!FirstLines
          <5> QED
            BY <1>3, <4>1, <5>3 DEF Ledger!Lines
        <4>2. CASE log[k] # <<>>
          <5>1. /\ e.phase # db[k].phase /\ e.kind = Ledger!KindOf(e.phase)
                /\ e.at = at[c] /\ e.ts = clock
                /\ e.kind = "oos" => db[k].phase # "oos"
                                     /\ e.secs = at[c] - db[k].since
                /\ e.kind # "oos" => e.secs = None
            BY <2>3, <4>2 DEF Moves
          <5>2. e.kind = "oos" <=> e.phase = "oos"
            BY <3>2, <5>1 DEF Ledger!KindOf, Ledger!StockPhases
          <5>3. /\ Ledger!Shown(Book[k]) = Sheet[k]
                /\ Sheet[k].phase = db[k].phase /\ Sheet[k].since = db[k].since
            BY RowsShowHistory DEF RowsShow, Sheet
          <5>4. db[k].phase # "oos" => Ledger!OpenSince(Book[k]) = db[k].since
            BY <1>3, <4>2, <5>3 DEF Ledger!Shown
          <5>5. LineOf(e) = [kind |-> Ledger!KindOf(e.phase), phase |-> e.phase,
                             at |-> at[c], ts |-> clock,
                             secs |-> IF e.phase = "oos"
                                      THEN at[c] - Ledger!OpenSince(Book[k])
                                      ELSE None]
            BY <5>1, <5>2, <5>4 DEF LineOf
          <5>6. LineOf(e) \in Ledger!MoveLines(Book[k], at[c], clock)
            BY <3>2, <5>1, <5>3, <5>5 DEF Ledger!MoveLines
          <5> QED
            BY <1>3, <4>2, <5>6 DEF Ledger!Lines
        <4> QED
          BY <4>1, <4>2
      <3> QED
        BY <3>1, <3>3
    <2> QED
      BY <1>1, <2>2, <2>3, CommitLine
  <1>6. DOMAIN Book' = Codes
    BY DEF Book
  <1>7. at[c] \in 1 .. clock
    BY <1>2 DEF TypeOK
  <1> QED
    BY <1>1, <1>4, <1>5, <1>6, <1>7 DEF Ledger!Settle, RowsShow

\* Book and Sheet are functions of the rows and the log.
LEMMA ProjectionsKept ==
    ASSUME SameRows, log' = log
    PROVE  UNCHANGED <<Book, Sheet>>
  BY DEF SameRows, Book, Sheet, LineOf

\* Each step is one of the ledger, or leaves it alone.
LEMMA StepRefines ==
    ASSUME TimedInv, [Next]_vars,
           RowsShow'
    PROVE  [Ledger!LedgerNext]_(Ledger!ledgerVars)
  <1>1. ASSUME NEW c \in Checkers, Commit(c)
        PROVE  Ledger!LedgerNext
    BY <1>1, SettlesOnCommit DEF Ledger!LedgerNext
  <1>2. ASSUME NEW c \in Checkers, Check(c), ~Commit(c)
        PROVE  [Ledger!LedgerNext]_(Ledger!ledgerVars)
    <2>1. UNCHANGED <<Book, Sheet>>
      BY <1>2, ChecksKeepRows, ProjectionsKept
    <2>2. clock' = clock \/ clock' = clock + 1
      BY <1>2 DEF Check, Begin, Acquire, FetchFails, Load, Flush, FlushFails,
                  Push, PushGroup, CommitFails
    <2> QED
      BY <2>1, <2>2 DEF Ledger!LedgerNext, Ledger!Tick, Ledger!ledgerVars
  <1>3. CASE DeleteWatch
    <2>1. Book' = [k \in Codes |-> <<>>]
      BY <1>3 DEF DeleteWatch, NoLog, Book
    <2>2. Sheet' = [k \in Codes |-> Ledger!Shown(<<>>)]
      BY <1>3 DEF DeleteWatch, NoRows, NoRow, Sheet, Ledger!Shown
    <2>3. clock' = clock
      BY <1>3 DEF DeleteWatch
    <2> QED
      BY <2>1, <2>2, <2>3 DEF Ledger!LedgerNext, Ledger!Forget
  <1>4. CASE (Others /\ ~DeleteWatch) \/ UNCHANGED vars
    <2>1. UNCHANGED <<Book, Sheet>>
      BY <1>4, OthersKeepRows, ProjectionsKept
    <2>2. clock' = clock \/ clock' = clock + 1
      BY <1>4 DEF Others, CreateWatch, UpdateWatch, Mute, ArchivalSelect,
                  ArchivalWrite, Pass, Restart, vars
    <2> QED
      BY <2>1, <2>2 DEF Ledger!LedgerNext, Ledger!Tick, Ledger!ledgerVars
  <1> QED
    BY <1>1, <1>2, <1>3, <1>4 DEF Next

-----------------------------------------------------------------------------
(* The silent baseline, when no id is handed out twice.                    *)

\* There is one watch: who checks it was started for it, and while it lives
\* nobody takes its rows away.
OneWatch ==
    /\ inc \in {0, 1}
    /\ inc = 0 => ~live /\ \A c \in Checkers : pc[c] = "idle"
    /\ \A c \in Checkers : pc[c] # "idle" => asked[c].inc = 1
    /\ \A c \in Checkers : live /\ pc[c] \in {"staged", "push"} =>
          \A k \in Codes : rows[c][k].here => db[k].here

\* Whatever history there is was led by the baseline of a first poll.
Baselined ==
    /\ \A k \in Codes : \A n \in 1 .. Len(log[k]) : log[k][n].by = 1
    /\ (\E k \in Codes : log[k] # <<>>) =>
          \E j \in Codes : \E m \in 1 .. Len(log[j]) : log[j][m].kind = "baseline"

BaselineInv == OneWatch /\ Baselined /\ SilentBaseline

\* Where ids are not reused, every step keeps OneWatch.
LEMMA StepKeepsOneWatch ==
    ASSUME TimedInv, OneWatch, ~ReuseIds, [Next]_vars
    PROVE  OneWatch'
  <1> USE CheckersAssumption
  <1>1. TypeOK /\ LockHeld /\ OneWatch
    BY DEF TimedInv, Inv
  <1>2. ASSUME NEW c \in Checkers, Begin(c)
        PROVE  OneWatch'
    <2>1. /\ live /\ pc[c] = "idle" /\ UNCHANGED <<live, inc, db, rows>>
          /\ pc' = [pc EXCEPT ![c] = "wait"]
          /\ asked' = [asked EXCEPT ![c] = [inc |-> inc, quiet |-> quiet]]
      BY <1>2 DEF Begin, watchVars
    <2>2. inc = 1
      BY <2>1 DEF OneWatch
    <2> QED
      BY <1>1, <2>1, <2>2 DEF OneWatch, TypeOK
  <1>3. ASSUME NEW c \in Checkers, Load(c)
        PROVE  OneWatch'
    <2>1. /\ UNCHANGED <<live, inc, db, asked>> /\ pc[c] = "fetch"
          /\ rows' = [rows EXCEPT ![c] = db] /\ pc' = [pc EXCEPT ![c] = "staged"]
      BY <1>3 DEF Load, watchVars
    <2> QED
      BY <1>1, <2>1 DEF OneWatch, TypeOK
  <1>4. ASSUME NEW c \in Checkers,
               Acquire(c) \/ Flush(c) \/ Push(c) \/ PushGroup(c)
        PROVE  OneWatch'
    <2>1. UNCHANGED <<live, inc, db, rows, asked>> /\ pc[c] # "idle"
      BY <1>4 DEF Acquire, Flush, Push, PushGroup, watchVars
    <2>2. \A d \in Checkers :
             /\ pc'[d] \in {"staged", "push"} => pc[d] \in {"staged", "push"}
             /\ pc'[d] # "idle" => pc[d] # "idle"
      BY <1>1, <1>4 DEF Acquire, Flush, Push, PushGroup, TypeOK
    <2> QED
      BY <1>1, <2>1, <2>2 DEF OneWatch
  <1>5. ASSUME NEW c \in Checkers,
               FetchFails(c) \/ FlushFails(c) \/ CommitFails(c) \/ Commit(c)
        PROVE  OneWatch'
    <2>1. pc[c] \in Inside /\ Ends(c) /\ UNCHANGED <<live, inc>>
      BY <1>5 DEF FetchFails, FlushFails, CommitFails, Commit, Inside, watchVars
    <2>2. \A d \in Checkers : pc'[d] \notin Inside
      BY <1>1, <2>1 DEF LockHeld, TypeOK, Ends, Inside
    <2>3. \A d \in Checkers : pc'[d] # "idle" => pc[d] # "idle" /\ asked'[d] = asked[d]
      BY <1>1, <2>1 DEF TypeOK, Ends
    <2>4. inc # 0
      BY <1>1, <2>1 DEF OneWatch, Inside
    <2> QED
      BY <1>1, <2>1, <2>2, <2>3, <2>4 DEF OneWatch, Inside
  <1>6. CASE CreateWatch
    <2>1. /\ inc = 0 /\ inc' = 1 /\ ~live /\ UNCHANGED <<pc, asked, rows, db>>
      BY <1>1, <1>6 DEF CreateWatch, OneWatch, checkVars
    <2> QED
      BY <1>1, <2>1 DEF OneWatch
  <1>7. CASE DeleteWatch
    BY <1>1, <1>7 DEF OneWatch, DeleteWatch, checkVars
  <1>8. CASE Restart
    BY <1>1, <1>8 DEF OneWatch, Restart, watchVars
  <1>9. CASE UpdateWatch \/ (\E k \in Codes : Mute(k)) \/ ArchivalSelect \/ ArchivalWrite
             \/ Pass \/ UNCHANGED vars
    <2>1. SameRows
      <3>1. live' = live
        BY <1>9 DEF UpdateWatch, Mute, ArchivalSelect, ArchivalWrite, Pass, vars, watchVars
      <3>2. ~DeleteWatch
        BY <3>1 DEF DeleteWatch
      <3>3. (Others /\ ~DeleteWatch) \/ UNCHANGED vars
        BY <1>9, <3>2 DEF Others
      <3> QED
        BY <3>3, OthersKeepRows
    <2>2. UNCHANGED <<live, inc, pc, asked, rows>>
      BY <1>9 DEF UpdateWatch, Mute, ArchivalSelect, ArchivalWrite, Pass, vars,
                  watchVars, checkVars
    <2> QED
      BY <1>1, <2>1, <2>2 DEF OneWatch, SameRows
  <1> QED
    BY <1>2, <1>3, <1>4, <1>5, <1>6, <1>7, <1>8, <1>9 DEF Next, Check, Others

\* A commit leaves a history as it was or with one entry more, the check's.
LEMMA CommitAppends ==
    ASSUME NEW c \in Checkers, NEW k \in Codes, NextPhase(c, k) \in Phases
    PROVE  \/ LogAfter(c, k) = log[k]
           \/ \E e : /\ LogAfter(c, k) = Append(log[k], e)
                     /\ e.by = asked[c].inc /\ e.at = at[c]
                     /\ e.kind = "baseline" <=> FirstPoll(c)
  <1>1. \A kind, phase : /\ EntryOf(c, k, kind, phase).kind = kind
                         /\ EntryOf(c, k, kind, phase).by = asked[c].inc
                         /\ EntryOf(c, k, kind, phase).at = at[c]
    BY DEF EntryOf
  <1>2. k \in Alerting(c) \/ Discovered(c, k) => ~FirstPoll(c)
    BY DEF Alerting, Discovered, Moved, Delisted, FirstPoll
  <1>3. EventKind(c, k) # "baseline"
    BY DEF EventKind, Phases
  <1>4. CASE FirstPoll(c) /\ Listed(c, k)
    BY <1>1, <1>4 DEF LogAfter
  <1>5. CASE ~(FirstPoll(c) /\ Listed(c, k)) /\ k \in Alerting(c) /\ Accepted(c, k)
    <2>1. LogAfter(c, k) = Append(log[k], EntryOf(c, k, EventKind(c, k), NextPhase(c, k)))
      BY <1>5 DEF LogAfter
    <2> QED
      BY <1>1, <1>2, <1>3, <1>5, <2>1
  <1>6. CASE /\ ~(FirstPoll(c) /\ Listed(c, k)) /\ ~(k \in Alerting(c) /\ Accepted(c, k))
             /\ Discovered(c, k)
    <2>1. LogAfter(c, k) = Append(log[k], EntryOf(c, k, "unannounced", "oos"))
      BY <1>6 DEF LogAfter
    <2> QED
      BY <1>1, <1>2, <1>6, <2>1
  <1>7. CASE /\ ~(FirstPoll(c) /\ Listed(c, k)) /\ ~(k \in Alerting(c) /\ Accepted(c, k))
             /\ ~Discovered(c, k)
    BY <1>7 DEF LogAfter
  <1> QED
    BY <1>4, <1>5, <1>6, <1>7

\* A commit writes baselines on an empty watch only, and in silence.
LEMMA CommitKeepsBaseline ==
    ASSUME TimedInv, BaselineInv, NEW c \in Checkers, Commit(c)
    PROVE  Baselined' /\ SilentBaseline'
  <1> USE DEF BaselineInv
  <1>1. /\ pc[c] = "push" /\ CommitStands(c)
        /\ log' = [k \in Codes |-> LogAfter(c, k)]
    BY DEF Commit
  <1>2. live /\ asked[c].inc = 1
    BY <1>1 DEF CommitStands, OneWatch
  <1>3. \A k \in Codes : log[k] \in Seq(Entry)
    BY DEF TimedInv, Inv, TypeOK
  <1>4. ASSUME NEW k \in Codes, NEW n \in 1 .. Len(log[k])
        PROVE  log[k][n].at < at[c]
    <2>1. log[k][n].at <= log[k][n].ts /\ log[k][n].ts < at[c]
      BY <1>1 DEF TimedInv, LogIsPast, Inside
    <2>2. log[k][n] \in Entry /\ at[c] \in Nat
      BY <1>3 DEF TimedInv, Inv, TypeOK
    <2> QED
      BY <2>1, <2>2 DEF Entry
  <1>5. ASSUME NEW k \in Codes
        PROVE  \/ log'[k] = log[k]
               \/ /\ Len(log'[k]) = Len(log[k]) + 1
                  /\ \A n \in 1 .. Len(log[k]) : log'[k][n] = log[k][n]
                  /\ log'[k][Len(log[k]) + 1].by = 1
                  /\ log'[k][Len(log[k]) + 1].at = at[c]
                  /\ log'[k][Len(log[k]) + 1].kind = "baseline" <=> FirstPoll(c)
    <2>1. CASE LogAfter(c, k) = log[k]
      BY <1>1, <2>1
    <2>2. ASSUME NEW e, LogAfter(c, k) = Append(log[k], e), e.by = asked[c].inc,
                 e.at = at[c], e.kind = "baseline" <=> FirstPoll(c)
          PROVE  /\ Len(log'[k]) = Len(log[k]) + 1
                 /\ \A n \in 1 .. Len(log[k]) : log'[k][n] = log[k][n]
                 /\ log'[k][Len(log[k]) + 1].by = 1
                 /\ log'[k][Len(log[k]) + 1].at = at[c]
                 /\ log'[k][Len(log[k]) + 1].kind = "baseline" <=> FirstPoll(c)
      <3>1. log'[k] = Append(log[k], e)
        BY <1>1, <2>2
      <3>2. /\ Len(log'[k]) = Len(log[k]) + 1 /\ log'[k][Len(log[k]) + 1] = e
            /\ \A n \in 1 .. Len(log[k]) : log'[k][n] = log[k][n]
        BY <1>3, <3>1
      <3> QED
        BY <1>2, <2>2, <3>2
    <2>3. NextPhase(c, k) \in Phases
      BY <1>1, EntryTypes DEF TimedInv
    <2> QED
      BY <2>1, <2>2, <2>3, CommitAppends
  \* An entry is an old one, or the new one at the end.
  <1>6. ASSUME NEW k \in Codes, NEW n \in 1 .. Len(log'[k])
        PROVE  \/ n \in 1 .. Len(log[k]) /\ log'[k][n] = log[k][n]
               \/ /\ log'[k][n].by = 1 /\ log'[k][n].at = at[c]
                  /\ log'[k][n].kind = "baseline" <=> FirstPoll(c)
    <2>1. Len(log[k]) \in Nat
      BY <1>3
    <2> QED
      BY <1>5, <2>1
  <1>7. ASSUME NEW k \in Codes, NEW n \in 1 .. Len(log[k])
        PROVE  n \in 1 .. Len(log'[k]) /\ log'[k][n] = log[k][n]
    <2>1. Len(log[k]) \in Nat
      BY <1>3
    <2> QED
      BY <1>5, <2>1
  <1>8. \A k \in Codes : \A n \in 1 .. Len(log'[k]) : log'[k][n].by = 1
    BY <1>6 DEF Baselined
  <1>9. CASE FirstPoll(c)
    <2>1. \A k \in Codes : log[k] = <<>>
      <3>1. \A k \in Codes : ~db[k].here
        BY <1>1, <1>9 DEF TimedInv, Inv, RowsStillHold, FirstPoll
      <3> QED
        BY <3>1 DEF TimedInv, Inv, HistoryMatchesRows
    <2>2. \A k \in Codes : \A n \in 1 .. Len(log'[k]) : log'[k][n].kind = "baseline"
      <3>1. \A k \in Codes : 1 .. Len(log[k]) = {}
        BY <2>1
      <3> QED
        BY <1>6, <1>9, <3>1
    <2>3. ASSUME NEW k \in Codes, log'[k] # <<>>
          PROVE  \E m \in 1 .. Len(log'[k]) : log'[k][m].kind = "baseline"
      <3>1. Len(log[k]) = 0 /\ log'[k] # log[k]
        BY <2>1, <2>3
      <3>2. Len(log'[k]) = 0 + 1
        BY <1>5, <3>1
      <3> QED
        BY <2>2, <3>2
    <2>4. Baselined'
      BY <1>8, <2>3 DEF Baselined
    <2>5. SilentBaseline'
      BY <2>2 DEF SilentBaseline, IsEvent
    <2> QED
      BY <2>4, <2>5
  <1>10. CASE ~FirstPoll(c)
    <2>1. PICK i \in Codes : log[i] # <<>>
      <3>1. PICK i \in Codes : rows[c][i].here
        BY <1>10 DEF FirstPoll
      <3>2. db[i].here
        BY <1>1, <1>2, <3>1 DEF OneWatch
      <3> QED
        BY <3>2 DEF TimedInv, Inv, HistoryMatchesRows
    <2>7. PICK j \in Codes : \E m \in 1 .. Len(log[j]) : log[j][m].kind = "baseline"
      BY <2>1 DEF Baselined
    <2>2. PICK m \in 1 .. Len(log[j]) : log[j][m].kind = "baseline"
      BY <2>7
    <2>3. /\ m \in 1 .. Len(log'[j]) /\ log'[j][m].kind = "baseline"
          /\ log'[j][m].by = 1 /\ log'[j][m].at < at[c]
      BY <1>4, <1>7, <1>8, <2>2
    <2>4. Baselined'
      BY <1>8, <2>3 DEF Baselined
    <2>5. ASSUME NEW k \in Codes, NEW n \in 1 .. Len(log'[k]), IsEvent(log'[k][n])
          PROVE  \E l \in Codes : \E o \in 1 .. Len(log'[l]) :
                    /\ log'[l][o].kind = "baseline"
                    /\ log'[l][o].by = log'[k][n].by
                    /\ log'[l][o].at < log'[k][n].at
      <3>1. CASE n \in 1 .. Len(log[k]) /\ log'[k][n] = log[k][n]
        <4>1. PICK l \in Codes : \E o \in 1 .. Len(log[l]) :
                 /\ log[l][o].kind = "baseline"
                 /\ log[l][o].by = log[k][n].by
                 /\ log[l][o].at < log[k][n].at
          BY <2>5, <3>1 DEF SilentBaseline
        <4> QED
          BY <1>7, <3>1, <4>1
      <3>2. CASE log'[k][n].by = 1 /\ log'[k][n].at = at[c]
        BY <2>3, <3>2
      <3> QED
        BY <1>6, <3>1, <3>2
    <2>6. SilentBaseline'
      BY <2>5 DEF SilentBaseline, IsEvent
    <2> QED
      BY <2>4, <2>6
  <1> QED
    BY <1>9, <1>10

\* Every step keeps the baseline.
LEMMA StepKeepsBaseline ==
    ASSUME TimedInv, BaselineInv, ~ReuseIds, [Next]_vars
    PROVE  BaselineInv'
  <1>1. OneWatch'
    BY StepKeepsOneWatch DEF BaselineInv
  <1>2. CASE UNCHANGED log
    BY <1>1, <1>2 DEF BaselineInv, Baselined, SilentBaseline, IsEvent
  <1>3. CASE DeleteWatch
    <2>1. \A k \in Codes : log'[k] = <<>>
      BY <1>3 DEF DeleteWatch, NoLog
    <2>2. Baselined' /\ SilentBaseline'
      BY <2>1 DEF Baselined, SilentBaseline
    <2> QED
      BY <1>1, <2>2 DEF BaselineInv
  <1>4. ASSUME NEW c \in Checkers, Commit(c)
        PROVE  BaselineInv'
    BY <1>1, <1>4, CommitKeepsBaseline DEF BaselineInv
  <1>5. \/ UNCHANGED log \/ DeleteWatch
        \/ \E c \in Checkers : Commit(c)
    BY OthersKeepRows, ChecksKeepRows DEF Next
  <1> QED
    BY <1>2, <1>3, <1>4, <1>5

-----------------------------------------------------------------------------
(* The theorems.                                                           *)

\* The first state has no history and no time in it.
LEMMA InitTimed == Init => TimedInv
  <1> SUFFICES ASSUME Init PROVE TimedInv
    OBVIOUS
  <1>1. Times
    BY DEF Init, Times, SinceOpensSpell, DurationSpansSpell, BlankRows,
           NoRows, NoRow, NoLog
  <1>2. RowsKeepSince /\ LogIsPast
    BY DEF Init, RowsKeepSince, LogIsPast, NoLog, Inside
  <1> QED
    BY <1>1, <1>2, InitInv DEF TimedInv

\* The inductive invariant is preserved by every step.
LEMMA StepKeepsTimedInv == TimedInv /\ [Next]_vars => TimedInv'
  <1> SUFFICES ASSUME TimedInv, [Next]_vars PROVE TimedInv'
    OBVIOUS
  <1> QED
    BY StepKeepsInv, StepKeepsTimes, StepKeepsSince, StepKeepsPast DEF TimedInv

\* The inductive invariant with the times holds in every reachable state.
THEOREM TimedInvariance == Spec => []TimedInv
  BY InitTimed, StepKeepsTimedInv, PTL DEF Spec

\* available_since is the time of the check that opened the running spell,
\* and NULL out of stock.
THEOREM Clocked == Spec => []SinceOpensSpell
  BY TimedInvariance, PTL DEF TimedInv, Times

\* The available_seconds of an oos event is the length of the spell it closes,
\* whatever failed or was retried in between.
THEOREM Durations == Spec => []DurationSpansSpell
  BY TimedInvariance, PTL DEF TimedInv, Times

\* Poller implements the ledger: every commit settles moves seen after all
\* before them were written, and rows show what the history says.
THEOREM Refinement == Spec => ImplementsLedger
  <1>1. Init => Ledger!LedgerInit
    BY DEF Init, Ledger!LedgerInit, Ledger!Shown, Book, Sheet, NoRows, NoRow, NoLog
  <1>2. TimedInv' => RowsShow'
    BY RowsShowHistory, PTL
  <1>3. TimedInv /\ TimedInv' /\ [Next]_vars => [Ledger!LedgerNext]_(Ledger!ledgerVars)
    BY <1>2, StepRefines
  <1> QED
    BY <1>1, <1>3, TimedInvariance, PTL
    DEF Spec, ImplementsLedger, Ledger!LedgerSpec

\* When the id of a deleted watch is not handed out again, the first poll is a
\* silent baseline: no event without an earlier baseline of the same watch.
THEOREM Silence ==
    ASSUME ~ReuseIds
    PROVE  Spec => []SilentBaseline
  <1>1. Init => BaselineInv
    BY DEF Init, BaselineInv, OneWatch, Baselined, SilentBaseline, NoLog
  <1>2. TimedInv /\ BaselineInv /\ [Next]_vars => BaselineInv'
    BY StepKeepsBaseline
  <1>3. BaselineInv => SilentBaseline
    BY DEF BaselineInv
  <1> QED
    BY <1>1, <1>2, <1>3, TimedInvariance, PTL DEF Spec
=============================================================================

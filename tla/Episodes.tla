------------------------------ MODULE Episodes ------------------------------
(***************************************************************************)
(* services/history.py: the buyable episodes read out of one product's     *)
(* Event rows, and the summaries built on them.  Pure, over the rows and   *)
(* a `now'.                                                                *)
(*                                                                         *)
(* A row is [ts, kind, secs]; prices are left out.  Times are whole units; *)
(* averages are kept as their [sum, of] and rounding is left out.          *)
(***************************************************************************)
EXTENDS Integers, Sequences, SequencesExt, Ordering

CONSTANT None    \* SQL NULL

Episode ==
    [started : Nat, early : Nat \cup {None}, public : Nat \cup {None},
     ended : Nat \cup {None}, ongoing : BOOLEAN, buyable : Nat \cup {None},
     lead : Int \cup {None}]

Fresh(ts) ==
    [started |-> ts, early |-> None, public |-> None, ended |-> None,
     ongoing |-> FALSE, buyable |-> None, lead |-> None]

Finalized(ep) ==
    IF ep.early = None \/ ep.public = None THEN ep
    ELSE [ep EXCEPT !.lead = ep.public - ep.early]

\* mutant: every restock event starts the episode anew
RestockedAnew(cur, e) ==
    [Fresh(e.ts) EXCEPT !.early = IF e.kind = "early_access" THEN e.ts ELSE None,
                        !.public = IF e.kind = "public" THEN e.ts ELSE None]

\* A restock opens an episode, or is the first of its phase within one.
Restocked(cur, e) ==
    [(IF cur = None THEN Fresh(e.ts) ELSE cur) EXCEPT
        !.early = IF e.kind = "early_access" /\ @ = None THEN e.ts ELSE @,
        !.public = IF e.kind = "public" /\ @ = None THEN e.ts ELSE @]

Closed(cur, e) ==
    Finalized([cur EXCEPT
        !.ended = e.ts,
        !.buyable = IF e.secs # None THEN e.secs ELSE e.ts - cur.started])

\* One event of the walk; acc is the episodes closed so far and the open one.
Walk(acc, e) ==
    CASE e.kind \in {"early_access", "public"} ->
            [acc EXCEPT !.cur = Restocked(@, e)]
      [] e.kind = "oos" /\ acc.cur # None ->
            [done |-> Append(acc.done, Closed(acc.cur, e)), cur |-> None]
      [] OTHER -> acc

StillOpen(cur, now) ==
    Finalized([cur EXCEPT !.ongoing = TRUE, !.buyable = now - cur.started])

build_episodes(events, now) ==
    LET acc == FoldLeft(Walk, [done |-> <<>>, cur |-> None], events)
    IN  IF acc.cur = None THEN acc.done
        ELSE Append(acc.done, StillOpen(acc.cur, now))

-----------------------------------------------------------------------------
Later(a, b) == IF a > b THEN a ELSE b
Sooner(a, b) == IF a < b THEN a ELSE b

EndOf(ep, now) == IF ep.ended = None THEN now ELSE ep.ended

\* mutant: an episode counts in full, also what lies before the window
OverlapUnclamped(ep, now, window) ==
    Sooner(EndOf(ep, now), now) - ep.started

\* How much of the episode lies in the trailing window; may be negative.
Overlap(ep, now, window) ==
    Sooner(EndOf(ep, now), now) - Later(ep.started, now - window)

\* int(statistics.median(...))
MedianOf(numbers) ==
    LET s == SortSeq(numbers, <)
        n == Len(s)
    IN  IF n % 2 = 1 THEN s[(n + 1) \div 2]
        ELSE (s[n \div 2] + s[n \div 2 + 1]) \div 2

\* One turn of the loop: an episode outside the window is passed over.
Tally(acc, ep, overlap) ==
    IF overlap <= 0 THEN acc
    ELSE [up |-> acc.up + overlap, durations |-> Append(acc.durations, ep.buyable)]

availability_stats(eps, now, window) ==
    LET acc == FoldLeft(LAMBDA a, ep : Tally(a, ep, Overlap(ep, now, window)),
                        [up |-> 0, durations |-> <<>>], eps)
    IN  [up |-> acc.up,
         typical |-> IF acc.durations = <<>> THEN None ELSE MedianOf(acc.durations),
         episodes |-> Len(acc.durations)]

-----------------------------------------------------------------------------
MeanOf(numbers) ==
    IF numbers = <<>> THEN None
    ELSE [sum |-> FoldLeft(+, 0, numbers), of |-> Len(numbers)]

\* Ongoing first, then the newest: a stable sort, reversed.
NewestFirst(eps) ==
    LET key(i) == <<eps[i].ongoing, eps[i].started>>
        before(i, j) == \/ key(i)[1] /\ ~key(j)[1]
                        \/ key(i)[1] = key(j)[1] /\ key(i)[2] > key(j)[2]
                        \/ key(i) = key(j) /\ i < j
        order == InOrder(DOMAIN eps, before)
    IN  [i \in DOMAIN eps |-> eps[order[i]]]

Completed(eps) == SelectSeq(eps, LAMBDA ep : ~ep.ongoing)

Led(eps) == SelectSeq(Completed(eps), LAMBDA ep : ep.lead # None)

\* What build_history shows of one product; None when it is left out.
HistoryOf(events, now, window) ==
    LET eps == NewestFirst(build_episodes(events, now))
    IN  IF eps = <<>> THEN None
        ELSE [count |-> Len(eps),
              buyable |-> MeanOf([n \in DOMAIN Completed(eps) |-> Completed(eps)[n].buyable]),
              lead |-> MeanOf([n \in DOMAIN Led(eps) |-> Led(eps)[n].lead]),
              stats |-> availability_stats(eps, now, window),
              episodes |-> eps]
=============================================================================

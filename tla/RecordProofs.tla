---------------------------- MODULE RecordProofs ----------------------------
(***************************************************************************)
(* What GET /history shows of a product, for every retention and every way *)
(* its checks and the daily sweep interleave (history.py, retention.py).   *)
(*                                                                         *)
(* The fold over the rows is told from its trace: w[i] is what the loop    *)
(* has after i lines, those without a row passed over (WalkIsTrace).       *)
(* Along a well-formed history the walk has closed the episodes of the     *)
(* spells told of that have ended, and holds that of the one that goes on  *)
(* (OneLine, AlongLines): so it may start at any line at which nothing is  *)
(* open, a boundary, and find the episodes after it (EpisodesFrom).        *)
(*                                                                         *)
(* The sweep spares every episode that goes on or ended at its cutoff or   *)
(* later, so what it has deleted, and what it has selected and is about to *)
(* delete, are the rows before a boundary that the cutoff places (Swept,   *)
(* Armed).  Checks meanwhile write later lines only, which move no         *)
(* boundary (CutGrows), and keep the lines well formed.                    *)
(***************************************************************************)
EXTENDS Records, OrderProofs

-----------------------------------------------------------------------------
(* The two loops of History: the walk over the rows of a product and the   *)
(* tally of its episodes.                                                  *)

Start == [done |-> <<>>, cur |-> None]

Begun(loop) == IF loop = "walk" THEN Start ELSE [up |-> 0, durations |-> <<>>]

Turn(loop, acc, e) ==
    IF loop = "walk" THEN Walk(acc, e) ELSE Tally(acc, e, Overlap(e, clock, Window))

\* w[i] is what the loop has after the first i rows, passing over those that
\* are not in s.
IsTrace(loop, w, rows, s, n) ==
    /\ DOMAIN w = 0 .. n
    /\ w[0] = Begun(loop)
    /\ \A i \in 1 .. n : w[i] = IF i \in s THEN Turn(loop, w[i - 1], rows[i]) ELSE w[i - 1]

\* What FoldLeft iterates: r[s] is what the loop has after the rows in s.
Iterates(loop, r, rows, n) ==
    r = [s \in SUBSET (1 .. n) |->
            IF s = {} THEN Begun(loop)
            ELSE Turn(loop, r[s \ {Max(s)}], rows[Max(s)])]

\* A loop over finitely many rows has a trace.
LEMMA TraceExists ==
    ASSUME NEW loop, NEW rows, NEW s, NEW n \in Nat
    PROVE  \E w : IsTrace(loop, w, rows, s, n)
  <1> DEFINE Bad == {m \in Nat : ~ \E w : IsTrace(loop, w, rows, s, m)}
  <1> SUFFICES ASSUME Bad # {} PROVE FALSE
    OBVIOUS
  <1>1. PICK m \in Bad : \A j \in Bad : m <= j
    BY LeastOf
  <1>2. CASE m = 0
    <2>1. IsTrace(loop, [i \in 0 .. 0 |-> Begun(loop)], rows, s, 0)
      BY DEF IsTrace
    <2>2. QED
      BY <1>2, <2>1
  <1>3. CASE m # 0
    <2>1. m - 1 \in Nat /\ m - 1 \notin Bad
      BY <1>1, <1>3
    <2>2. PICK v : IsTrace(loop, v, rows, s, m - 1)
      BY <2>1
    <2>3. PICK last : last = IF m \in s THEN Turn(loop, v[m - 1], rows[m]) ELSE v[m - 1]
      OBVIOUS
    <2> DEFINE w == [i \in 0 .. m |-> IF i < m THEN v[i] ELSE last]
    <2>4. IsTrace(loop, w, rows, s, m)
      <3>1. w[0] = Begun(loop)
        BY <1>3, <2>2 DEF IsTrace
      <3>2. ASSUME NEW i \in 1 .. m
            PROVE  w[i] = IF i \in s THEN Turn(loop, w[i - 1], rows[i]) ELSE w[i - 1]
        <4>1. w[i - 1] = v[i - 1]
          OBVIOUS
        <4>2. CASE i = m
          <5>1. w[i] = last
            BY <4>2
          <5>2. QED
            BY <2>3, <4>1, <4>2, <5>1
        <4>3. CASE i # m
          <5>1. w[i] = v[i] /\ i \in 1 .. m - 1
            BY <4>3
          <5>2. v[i] = IF i \in s THEN Turn(loop, v[i - 1], rows[i]) ELSE v[i - 1]
            BY <2>2, <5>1 DEF IsTrace
          <5>3. QED
            BY <4>1, <5>1, <5>2
        <4>4. QED
          BY <4>2, <4>3
      <3>3. QED
        BY <3>1, <3>2 DEF IsTrace
    <2>5. QED
      BY <2>4
  <1>4. QED
    BY <1>2, <1>3

\* Traces that pass over the same rows are the same.
LEMMA TracesAgree ==
    ASSUME NEW loop, NEW rows, NEW s, NEW t, NEW n \in Nat, NEW v, NEW w,
           IsTrace(loop, v, rows, s, n), IsTrace(loop, w, rows, t, n),
           NEW m \in 0 .. n, \A i \in 1 .. m : i \in s <=> i \in t
    PROVE  v[m] = w[m]
  <1> DEFINE Bad == {j \in 0 .. m : v[j] # w[j]}
  <1> SUFFICES ASSUME Bad # {} PROVE FALSE
    OBVIOUS
  <1>0. Bad \in SUBSET Nat
    OBVIOUS
  <1>1. PICK j \in Bad : \A i \in Bad : j <= i
    BY <1>0, LeastOf
  <1>2. j # 0
    BY DEF IsTrace
  <1>3. j - 1 \in 0 .. m /\ j - 1 \notin Bad /\ j \in 1 .. m /\ j \in 1 .. n
    BY <1>1, <1>2
  <1>4. v[j - 1] = w[j - 1]
    BY <1>3
  <1>5. /\ v[j] = IF j \in s THEN Turn(loop, v[j - 1], rows[j]) ELSE v[j - 1]
        /\ w[j] = IF j \in t THEN Turn(loop, w[j - 1], rows[j]) ELSE w[j - 1]
    BY <1>3 DEF IsTrace
  <1>6. QED
    BY <1>3, <1>4, <1>5

\* The iteration exists, and goes over the rows from the first to the last.
LEMMA IterationIsTrace ==
    ASSUME NEW n \in Nat, NEW loop, NEW rows,
           NEW w, IsTrace(loop, w, rows, 1 .. n, n)
    PROVE  /\ \E r : Iterates(loop, r, rows, n)
           /\ \A r : Iterates(loop, r, rows, n) => r[1 .. n] = w[n]
  <1> DEFINE T(s) == CHOOSE v : IsTrace(loop, v, rows, s, n)
             F == [s \in SUBSET (1 .. n) |-> T(s)[n]]
  <1>1. ASSUME NEW s \in SUBSET (1 .. n), s # {}
        PROVE  Max(s) \in s /\ \A y \in s : Max(s) >= y
    <2>1. s \in SUBSET (0 .. n)
      OBVIOUS
    <2>2. PICK x \in s : \A y \in s : x >= y
      BY <1>1, <2>1, GreatestOf
    <2>3. QED
      BY <2>2 DEF Max
  <1>2. \A s : IsTrace(loop, T(s), rows, s, n)
    BY TraceExists
  <1> HIDE DEF T
  <1>3. Iterates(loop, F, rows, n)
    <2> SUFFICES ASSUME NEW s \in SUBSET (1 .. n)
                 PROVE  F[s] = IF s = {} THEN Begun(loop)
                               ELSE Turn(loop, F[s \ {Max(s)}], rows[Max(s)])
      BY DEF Iterates
    <2>1. F[s] = T(s)[n]
      OBVIOUS
    <2>2. ASSUME NEW x \in 0 .. n, NEW t, NEW v, IsTrace(loop, v, rows, t, n),
                 \A y \in t : y \in 1 .. n => y <= x
          PROVE  v[n] = v[x]
      <3> DEFINE Bad == {j \in x .. n : v[j] # v[x]}
      <3> SUFFICES ASSUME Bad # {} PROVE FALSE
        OBVIOUS
      <3>0. Bad \in SUBSET Nat
        OBVIOUS
      <3>1. PICK j \in Bad : \A i \in Bad : j <= i
        BY <3>0, LeastOf
      <3>2. j # x /\ j - 1 \in x .. n /\ j - 1 \notin Bad /\ j \in 1 .. n
        BY <3>1
      <3>3. v[j - 1] = v[x] /\ j \notin t
        BY <2>2, <3>2
      <3>4. v[j] = v[j - 1]
        BY <2>2, <3>2, <3>3 DEF IsTrace
      <3>5. QED
        BY <3>3, <3>4
    <2>3. CASE s = {}
      <3>1. T(s)[n] = T(s)[0]
        BY <1>2, <2>2, <2>3
      <3>2. T(s)[0] = Begun(loop)
        BY <1>2 DEF IsTrace
      <3>3. QED
        BY <2>1, <2>3, <3>1, <3>2
    <2>4. CASE s # {}
      <3>1. PICK x \in s : x = Max(s) /\ \A y \in s : x >= y
        BY <1>1, <2>4
      <3>2. x \in 1 .. n /\ x - 1 \in 0 .. n /\ s \ {x} \in SUBSET (1 .. n)
        OBVIOUS
      <3>3. T(s)[n] = T(s)[x]
        BY <1>2, <2>2, <3>1, <3>2
      <3>4. T(s)[x] = Turn(loop, T(s)[x - 1], rows[x])
        BY <1>2, <3>2 DEF IsTrace
      <3>5. T(s)[x - 1] = T(s \ {x})[x - 1]
        <4>1. \A i \in 1 .. x - 1 : i \in s <=> i \in s \ {x}
          BY <3>2
        <4>2. IsTrace(loop, T(s), rows, s, n) /\ IsTrace(loop, T(s \ {x}), rows, s \ {x}, n)
          BY <1>2
        <4>3. QED
          BY <3>2, <4>1, <4>2, TracesAgree
      <3>6. T(s \ {x})[n] = T(s \ {x})[x - 1]
        <4>1. \A y \in s \ {x} : y \in 1 .. n => y <= x - 1
          BY <3>1, <3>2
        <4>2. IsTrace(loop, T(s \ {x}), rows, s \ {x}, n)
          BY <1>2
        <4>3. QED
          BY <2>2, <3>2, <4>1, <4>2
      <3>7. F[s \ {x}] = T(s \ {x})[n]
        BY <3>2
      <3>8. QED
        BY <2>1, <2>4, <3>1, <3>3, <3>4, <3>5, <3>6, <3>7
    <2>5. QED
      BY <2>3, <2>4
  <1> HIDE DEF F
  <1>4. ASSUME NEW r, Iterates(loop, r, rows, n), NEW m \in 0 .. n
        PROVE  r[1 .. m] = w[m]
    <2> DEFINE Bad == {j \in 0 .. n : r[1 .. j] # w[j]}
    <2> SUFFICES ASSUME Bad # {} PROVE FALSE
      OBVIOUS
    <2>0. Bad \in SUBSET Nat
      OBVIOUS
    <2>1. PICK j \in Bad : \A i \in Bad : j <= i
      BY <2>0, LeastOf
    <2>2. r[1 .. 0] = Begun(loop) /\ w[0] = Begun(loop)
      <3>1. 1 .. 0 = {} /\ {} \in SUBSET (1 .. n)
        OBVIOUS
      <3>2. QED
        BY <1>4, <3>1 DEF IsTrace, Iterates
    <2>3. j # 0 /\ j - 1 \in 0 .. n /\ j - 1 \notin Bad /\ j \in 1 .. n
      BY <2>1, <2>2
    <2>4. PICK s : s = 1 .. j
      OBVIOUS
    <2>5. s \in SUBSET (1 .. n) /\ s # {}
      <3>1. \A i \in 1 .. j : i \in 1 .. n
        BY <2>3
      <3>2. j \in s
        BY <2>3, <2>4
      <3>3. QED
        BY <2>4, <3>1, <3>2
    <2>6. Max(s) = j
      <3>1. Max(s) \in s /\ \A y \in s : Max(s) >= y
        BY <1>1, <2>5
      <3>2. QED
        BY <2>3, <2>4, <3>1
    <2>7. s \ {j} = 1 .. j - 1
      BY <2>3, <2>4
    <2>8. r[s] = Turn(loop, r[s \ {j}], rows[j])
      BY <1>4, <2>5, <2>6 DEF Iterates
    <2>9. r[s \ {j}] = w[j - 1]
      BY <2>3, <2>7
    <2>10. w[j] = Turn(loop, w[j - 1], rows[j])
      BY <2>3 DEF IsTrace
    <2>11. QED
      BY <2>1, <2>4, <2>8, <2>9, <2>10
  <1>5. QED
    BY <1>3, <1>4

\* FoldLeft(Walk, ...) goes over the rows from the first to the last.
LEMMA WalkIsTrace ==
    ASSUME NEW n \in Nat, NEW rows, DOMAIN rows = 1 .. n,
           NEW w, IsTrace("walk", w, rows, 1 .. n, n)
    PROVE  FoldLeft(Walk, Start, rows) = w[n]
  <1> DEFINE Rec(r) == r = [s \in SUBSET (1 .. n) |->
                               IF s = {} THEN Start ELSE Walk(r[s \ {Max(s)}], rows[Max(s)])]
             iter == CHOOSE r : Rec(r)
  <1>1. \A r : Rec(r) <=> Iterates("walk", r, rows, n)
    BY DEF Iterates, Begun, Turn
  <1>2. FoldLeft(Walk, Start, rows) = iter[1 .. n]
    BY DEF FoldLeft, MapThenFoldSet
  <1> HIDE DEF Rec
  <1>3. Rec(iter)
    BY <1>1, IterationIsTrace, Zenon
  <1>4. QED
    BY <1>1, <1>2, <1>3, IterationIsTrace

\* So does the loop of availability_stats over the episodes.
LEMMA TallyIsTrace ==
    ASSUME NEW n \in Nat, NEW eps, DOMAIN eps = 1 .. n,
           NEW w, IsTrace("tally", w, eps, 1 .. n, n)
    PROVE  FoldLeft(LAMBDA a, ep : Tally(a, ep, Overlap(ep, clock, Window)),
                    [up |-> 0, durations |-> <<>>], eps) = w[n]
  <1> DEFINE Rec(r) == r = [s \in SUBSET (1 .. n) |->
                               IF s = {} THEN [up |-> 0, durations |-> <<>>]
                               ELSE Tally(r[s \ {Max(s)}], eps[Max(s)],
                                          Overlap(eps[Max(s)], clock, Window))]
             iter == CHOOSE r : Rec(r)
  <1>1. \A r : Rec(r) <=> Iterates("tally", r, eps, n)
    BY DEF Iterates, Begun, Turn
  <1>2. FoldLeft(LAMBDA a, ep : Tally(a, ep, Overlap(ep, clock, Window)),
                 [up |-> 0, durations |-> <<>>], eps) = iter[1 .. n]
    BY DEF FoldLeft, MapThenFoldSet
  <1> HIDE DEF Rec
  <1>3. Rec(iter)
    BY <1>1, IterationIsTrace, Zenon
  <1>4. iter[1 .. n] = w[n]
    BY <1>1, <1>3, IterationIsTrace
  <1>5. QED
    BY <1>2, <1>4, Zenon
-----------------------------------------------------------------------------
(* Histories and their spells.                                             *)

FirstKinds == {"new_product", "unannounced", "baseline"}

Entry ==
    [kind : FirstKinds \cup {"early_access", "public", "oos"}, phase : StockPhases,
     at : Nat, ts : Nat, secs : Nat \cup {None}]

IsHistory(h) == h \in Seq(Entry)

\* What the ledger's lines are: each seen after those before it were written,
\* each but the first a move to another phase, and the one that closes a spell
\* carries its length.
WellFormed(h) ==
    /\ IsHistory(h)
    /\ \A i \in 1 .. Len(h) : h[i].at <= h[i].ts
    /\ \A i, j \in 1 .. Len(h) : i < j => h[i].ts < h[j].at /\ h[i].ts < h[j].ts
    /\ \A n \in 1 .. Len(h) :
          IF n = 1 THEN h[n].kind \in FirstKinds
          ELSE h[n].kind = KindOf(h[n].phase) /\ h[n].phase # h[n - 1].phase
    /\ \A n \in 1 .. Len(h) : \A m \in SpellsOf(h) :
          SpellEnd(h, m) = n => h[n].secs = h[n].at - h[m].at

\* A history is finite.
LEMMA LenType ==
    ASSUME NEW h, IsHistory(h)
    PROVE  Len(h) \in Nat
  BY DEF IsHistory

\* The fields of a line.
LEMMA LineTypes ==
    ASSUME NEW h, IsHistory(h), NEW n \in 1 .. Len(h)
    PROVE  /\ Len(h) \in Nat /\ n \in Nat
           /\ h[n].at \in Nat /\ h[n].ts \in Nat /\ h[n].phase \in StockPhases
           /\ h[n].kind \in FirstKinds \cup {"early_access", "public", "oos"}
  <1>1. h[n] \in Entry /\ Len(h) \in Nat /\ n \in Nat
    BY DEF IsHistory
  <1>2. QED
    BY <1>1 DEF Entry

\* A spell ends at the first `oos' line after its opening.
LEMMA SpellEndIs ==
    ASSUME NEW h, IsHistory(h), NEW m \in 1 .. Len(h)
    PROVE  /\ SpellEnd(h, m) \in m .. Len(h) + 1
           /\ \A n \in m .. SpellEnd(h, m) - 1 : n \in 1 .. Len(h) /\ h[n].phase # "oos"
           /\ SpellEnd(h, m) <= Len(h) => h[SpellEnd(h, m)].phase = "oos"
           /\ h[m].phase # "oos" => m < SpellEnd(h, m)
  <1> DEFINE T == {n \in m .. Len(h) : h[n].phase = "oos"} \cup {Len(h) + 1}
  <1>1. Len(h) \in Nat
    BY LenType
  <1>2. T \in SUBSET Nat /\ T # {}
    BY <1>1
  <1>3. PICK e \in T : \A n \in T : e <= n
    BY <1>2, LeastOf
  <1>4. SpellEnd(h, m) \in T /\ \A n \in T : SpellEnd(h, m) <= n
    BY <1>3 DEF SpellEnd, Min
  <1>5. PICK end : end = SpellEnd(h, m)
    OBVIOUS
  <1>6. end \in m .. Len(h) + 1
    BY <1>1, <1>4, <1>5
  <1>7. ASSUME NEW n \in m .. end - 1
        PROVE  n \in 1 .. Len(h) /\ h[n].phase # "oos"
    <2>1. n \in m .. Len(h) /\ n < end
      BY <1>1, <1>6
    <2>2. n \notin T
      BY <1>1, <1>4, <1>5, <1>6, <2>1
    <2>3. QED
      BY <1>1, <2>1, <2>2
  <1>8. end <= Len(h) => h[end].phase = "oos"
    BY <1>1, <1>4, <1>5
  <1>9. h[m].phase # "oos" => m < end
    BY <1>1, <1>6, <1>8
  <1>10. QED
    BY <1>5, <1>6, <1>7, <1>8, <1>9

\* The end is the only line that the last lemma fits.
LEMMA SpellEndsAt ==
    ASSUME NEW h, IsHistory(h), NEW m \in 1 .. Len(h), NEW e \in m .. Len(h) + 1,
           \A n \in m .. e - 1 : h[n].phase # "oos",
           e <= Len(h) => h[e].phase = "oos"
    PROVE  SpellEnd(h, m) = e
  <1>1. PICK end : end = SpellEnd(h, m)
    OBVIOUS
  <1>2. /\ end \in m .. Len(h) + 1
        /\ \A n \in m .. end - 1 : h[n].phase # "oos"
        /\ end <= Len(h) => h[end].phase = "oos"
    BY <1>1, SpellEndIs
  <1>3. ~ (end < e)
    BY <1>2
  <1>4. ~ (e < end)
    BY <1>2
  <1>5. QED
    BY <1>1, <1>2, <1>3, <1>4

\* Of two spells one is over before the other opens.
LEMMA SpellsApart ==
    ASSUME NEW h, IsHistory(h), NEW m \in SpellsOf(h), NEW p \in SpellsOf(h), m < p
    PROVE  SpellEnd(h, m) < p
  <1>1. /\ m \in 1 .. Len(h) /\ p \in 1 .. Len(h) /\ Len(h) \in Nat
        /\ h[p - 1].phase = "oos" /\ h[m].phase # "oos"
    BY LenType DEF SpellsOf
  <1>2. PICK end : end = SpellEnd(h, m)
    OBVIOUS
  <1>3. end \in m .. Len(h) + 1 /\ \A n \in m .. end - 1 : h[n].phase # "oos"
    BY <1>1, <1>2, SpellEndIs
  <1>4. p - 1 \in m .. Len(h) /\ p - 1 \notin m .. end - 1
    BY <1>1, <1>3
  <1>5. QED
    BY <1>1, <1>2, <1>3, <1>4

\* A line lies in one spell at most, and in one if it is not `oos'.
LEMMA OneSpellAtATime ==
    ASSUME NEW h, IsHistory(h), NEW m \in SpellsOf(h), NEW p \in SpellsOf(h),
           NEW n \in Nat, m <= n, n < SpellEnd(h, m), p <= n, n < SpellEnd(h, p)
    PROVE  m = p
  <1>1. m \in 1 .. Len(h) /\ p \in 1 .. Len(h) /\ Len(h) \in Nat
    BY LenType DEF SpellsOf
  <1>2. PICK d, e : d = SpellEnd(h, m) /\ e = SpellEnd(h, p)
    OBVIOUS
  <1>3. d \in m .. Len(h) + 1 /\ e \in p .. Len(h) + 1
    BY <1>1, <1>2, SpellEndIs
  <1>4. m < p => d < p
    BY <1>2, SpellsApart
  <1>5. p < m => e < m
    BY <1>2, SpellsApart
  <1>6. QED
    BY <1>1, <1>2, <1>3, <1>4, <1>5

\* A line at which the product is to be had is in some spell.
LEMMA SomeSpell ==
    ASSUME NEW h, IsHistory(h), NEW n \in 1 .. Len(h), h[n].phase # "oos"
    PROVE  \E m \in SpellsOf(h) : m <= n /\ n < SpellEnd(h, m)
  <1> DEFINE T == {i \in 1 .. n : \A j \in i .. n : h[j].phase # "oos"}
  <1>1. Len(h) \in Nat /\ n \in Nat
    BY LenType
  <1>2. T \in SUBSET Nat /\ T # {}
    <2>1. n \in T
      BY <1>1
    <2>2. QED
      BY <2>1
  <1>3. PICK m \in T : \A i \in T : m <= i
    BY <1>2, LeastOf
  <1>4. m \in 1 .. n /\ \A j \in m .. n : h[j].phase # "oos"
    OBVIOUS
  <1>5. ASSUME m > 1
        PROVE  h[m - 1].phase = "oos"
    <2>1. m - 1 \in 1 .. n /\ m - 1 \notin T
      BY <1>3, <1>4, <1>5
    <2>2. \A j \in m - 1 .. n : j = m - 1 \/ j \in m .. n
      BY <1>4
    <2>3. QED
      BY <1>4, <2>1, <2>2
  <1> HIDE DEF T
  <1>6. m \in SpellsOf(h)
    BY <1>1, <1>4, <1>5 DEF SpellsOf
  <1>7. PICK end : end = SpellEnd(h, m)
    OBVIOUS
  <1>8. m \in 1 .. Len(h) /\ m \in m .. n
    BY <1>1, <1>4
  <1>9. end \in m .. Len(h) + 1 /\ (end <= Len(h) => h[end].phase = "oos")
    BY <1>7, <1>8, SpellEndIs
  <1>10. n < end
    BY <1>1, <1>4, <1>9
  <1>11. QED
    BY <1>4, <1>6, <1>7, <1>10
-----------------------------------------------------------------------------
(* What the walk makes of one spell.                                       *)

TellingKinds == {"early_access", "public"}

RowAt(h, n) == [ts |-> h[n].ts, kind |-> h[n].kind, secs |-> h[n].secs]

\* What of the spell at m was told up to line n.
Heard(h, m, n) == {j \in ToldIn(h, m) : j <= n}

\* An episode that is still open in the walk, and the lead of one.
OpenEpisode(started, early, public) ==
    [started |-> started, early |-> early, public |-> public, ended |-> None,
     ongoing |-> FALSE, buyable |-> None, lead |-> None]

LeadOf(early, public) == IF early = None \/ public = None THEN None ELSE public - early

\* What the walk has of an episode when these lines were told of it.
Partial(h, told) ==
    OpenEpisode(h[Min(told)].ts, FirstOf(h, told, "early_access"), FirstOf(h, told, "public"))

\* The episode that a restock joins, and the time of the first row of a kind
\* after one more row.
Joined(cur, e) == IF cur = None THEN Fresh(e.ts) ELSE cur

FirstSeen(first, e, kind) == IF e.kind = kind /\ first = None THEN e.ts ELSE first

\* A restock row adds its time to the open episode, the first of its kind.
LEMMA RestockedIs ==
    ASSUME NEW s, NEW a, NEW p, NEW e, NEW c, Joined(c, e) = OpenEpisode(s, a, p)
    PROVE  Restocked(c, e) = OpenEpisode(s, FirstSeen(a, e, "early_access"),
                                            FirstSeen(p, e, "public"))
  <1>1. PICK b, q : b = FirstSeen(a, e, "early_access") /\ q = FirstSeen(p, e, "public")
    OBVIOUS
  <1>2. PICK o : o = OpenEpisode(s, a, p)
    OBVIOUS
  <1>3. o.early = a /\ o.public = p
    BY <1>2 DEF OpenEpisode
  <1>4. PICK x : x = [o EXCEPT !.early = b, !.public = q]
    OBVIOUS
  <1>5. Restocked(c, e) =
            [o EXCEPT !.early = IF e.kind = "early_access" /\ @ = None THEN e.ts ELSE @,
                      !.public = IF e.kind = "public" /\ @ = None THEN e.ts ELSE @]
    BY <1>2, Zenon DEF Restocked, Joined
  <1>6. Restocked(c, e) = x
    BY <1>1, <1>3, <1>4, <1>5, Zenon DEF FirstSeen
  <1>7. x = OpenEpisode(s, b, q)
    BY <1>2, <1>4 DEF OpenEpisode
  <1>8. QED
    BY <1>1, <1>6, <1>7, Zenon

\* Closing it leaves its length, as told or as counted.
LEMMA ClosedIs ==
    ASSUME NEW s, NEW a, NEW p, NEW e
    PROVE  Closed(OpenEpisode(s, a, p), e) =
              [started |-> s, early |-> a, public |-> p, ended |-> e.ts, ongoing |-> FALSE,
               buyable |-> IF e.secs # None THEN e.secs ELSE e.ts - s,
               lead |-> LeadOf(a, p)]
  BY DEF Closed, OpenEpisode, Finalized, LeadOf

\* One that goes on is as long as it has been.
LEMMA StillOpenIs ==
    ASSUME NEW s, NEW a, NEW p, NEW now
    PROVE  StillOpen(OpenEpisode(s, a, p), now) =
              [started |-> s, early |-> a, public |-> p, ended |-> None, ongoing |-> TRUE,
               buyable |-> now - s, lead |-> LeadOf(a, p)]
  BY DEF StillOpen, OpenEpisode, Finalized, LeadOf

\* The time of the first line of a kind, if there is one.
LEMMA FirstOfType ==
    ASSUME NEW h, IsHistory(h), NEW T \in SUBSET (1 .. Len(h)), NEW kind
    PROVE  FirstOf(h, T, kind) \in Nat \cup {None}
  <1> DEFINE those == {i \in T : h[i].kind = kind}
  <1>1. CASE those = {}
    BY <1>1 DEF FirstOf
  <1>2. CASE those # {}
    <2>0. T \in SUBSET Nat
      OBVIOUS
    <2>1. those \in SUBSET Nat /\ \A i \in those : i \in 1 .. Len(h)
      BY <2>0
    <2>2. Min(those) \in those
      BY <1>2, <2>1, MinOf
    <2>3. h[Min(those)].ts \in Nat
      BY <2>1, <2>2, LineTypes
    <2>4. QED
      BY <1>2, <2>3 DEF FirstOf
  <1>3. QED
    BY <1>1, <1>2

\* One more line is the first of its kind, or changes nothing.
LEMMA FirstOfGrows ==
    ASSUME NEW h, IsHistory(h), NEW n \in 1 .. Len(h),
           NEW T \in SUBSET (1 .. n - 1), NEW kind
    PROVE  FirstOf(h, T \cup {n}, kind) =
              IF h[n].kind = kind /\ FirstOf(h, T, kind) = None THEN h[n].ts
              ELSE FirstOf(h, T, kind)
  <1> DEFINE old == {i \in T : h[i].kind = kind}
             new == {i \in T \cup {n} : h[i].kind = kind}
  <1>1. Len(h) \in Nat /\ n \in Nat
    BY LenType
  <1>0. \A i \in T : i \in Nat /\ i < n /\ i \in 1 .. Len(h)
    BY <1>1
  <1>2. \A i \in old : i \in Nat /\ i < n /\ i \in 1 .. Len(h) /\ i \in new
    BY <1>0
  <1>6. \A i \in new : i \in old \/ i = n
    OBVIOUS
  <1>7. old \in SUBSET Nat /\ new \in SUBSET Int
    <2>1. \A i \in new : i \in Int
      BY <1>1, <1>2, <1>6
    <2>2. QED
      BY <1>2, <2>1
  <1>3. CASE old # {}
    <2>1. Min(old) \in old /\ \A y \in old : Min(old) <= y
      BY <1>3, <1>7, MinOf
    <2>3. PICK x : x = Min(old)
      OBVIOUS
    <2>2. x \in new /\ x < n /\ \A y \in old : x <= y
      BY <1>2, <2>1, <2>3
    <2>9. \A y \in new : x <= y
      BY <1>6, <2>2
    <2>4. Min(new) = Min(old) /\ new # {}
      BY <1>7, <2>2, <2>3, <2>9, LeastIs
    <2>5. h[Min(old)].ts \in Nat
      BY <1>2, <2>1, LineTypes
    <2>6. FirstOf(h, T, kind) = h[Min(old)].ts
      BY <1>3 DEF FirstOf
    <2>7. FirstOf(h, T \cup {n}, kind) = h[Min(new)].ts
      BY <2>4 DEF FirstOf
    <2>8. QED
      BY <2>4, <2>5, <2>6, <2>7, NullAssumption
  <1>4. CASE old = {}
    <2>1. FirstOf(h, T, kind) = None
      BY <1>4 DEF FirstOf
    <2>2. CASE h[n].kind = kind
      <3>1. new = {n}
        BY <1>4, <2>2
      <3>2. Min({n}) = n
        BY <1>1, MinOfOne
      <3>3. FirstOf(h, T \cup {n}, kind) = h[Min(new)].ts
        BY <3>1 DEF FirstOf
      <3>4. QED
        BY <2>1, <2>2, <3>1, <3>2, <3>3
    <2>3. CASE h[n].kind # kind
      <3>1. new = {}
        BY <1>4, <2>3
      <3>2. FirstOf(h, T \cup {n}, kind) = None
        BY <3>1 DEF FirstOf
      <3>3. QED
        BY <2>1, <2>3, <3>2
    <2>4. QED
      BY <2>2, <2>3
  <1>5. QED
    BY <1>3, <1>4

\* An open episode is not None.
LEMMA PartialIsSome ==
    ASSUME NEW h, IsHistory(h), NEW T \in SUBSET (1 .. Len(h)), T # {}
    PROVE  Partial(h, T) # None
  <1>1. T \in SUBSET Nat
    OBVIOUS
  <1>2. h[Min(T)].ts \in Nat
    BY <1>1, MinOf, LineTypes
  <1>3. /\ FirstOf(h, T, "early_access") \in Nat \cup {None}
        /\ FirstOf(h, T, "public") \in Nat \cup {None}
    BY FirstOfType
  <1>4. ASSUME NEW s \in Nat, NEW a \in Nat \cup {None}, NEW p \in Nat \cup {None}
        PROVE  OpenEpisode(s, a, p) \in Episode
    BY DEF OpenEpisode, Episode
  <1>5. Partial(h, T) \in Episode
    BY <1>2, <1>3, <1>4 DEF Partial
  <1>6. QED
    BY <1>5, NullAssumption

\* A restock told at line n opens the episode or joins it.
LEMMA RestockJoins ==
    ASSUME NEW h, IsHistory(h), NEW n \in 1 .. Len(h),
           NEW T \in SUBSET (1 .. n - 1), NEW c
    PROVE  c = (IF T = {} THEN None ELSE Partial(h, T)) =>
               Restocked(c, RowAt(h, n)) = Partial(h, T \cup {n})
  <1>0. SUFFICES ASSUME c = IF T = {} THEN None ELSE Partial(h, T)
                 PROVE  Restocked(c, RowAt(h, n)) = Partial(h, T \cup {n})
    OBVIOUS
  <1>1. Len(h) \in Nat /\ n \in Nat /\ h[n].ts \in Nat
    BY LineTypes
  <1>2. PICK early, public, e :
           /\ early = FirstOf(h, T, "early_access")
           /\ public = FirstOf(h, T, "public")
           /\ e = RowAt(h, n)
    OBVIOUS
  <1>3. e.ts = h[n].ts /\ e.kind = h[n].kind
    BY <1>2 DEF RowAt
  <1>4. /\ FirstOf(h, T \cup {n}, "early_access") = FirstSeen(early, e, "early_access")
        /\ FirstOf(h, T \cup {n}, "public") = FirstSeen(public, e, "public")
    BY <1>2, <1>3, FirstOfGrows DEF FirstSeen
  <1>5. PICK started : started = h[Min(T \cup {n})].ts
    OBVIOUS
  <1>6. Joined(c, e) = OpenEpisode(started, early, public)
    <2>1. CASE T = {}
      <3>1. Min(T \cup {n}) = n
        BY <1>1, <2>1, MinOfOne
      <3>2. early = None /\ public = None
        BY <1>2, <2>1 DEF FirstOf
      <3>3. QED
        BY <1>0, <1>3, <1>5, <2>1, <3>1, <3>2 DEF Joined, Fresh, OpenEpisode
    <2>2. CASE T # {}
      <3>1. \A y \in T : y \in Nat /\ y < n /\ y \in 1 .. Len(h)
        BY <1>1
      <3>2. T \in SUBSET Nat /\ T \cup {n} \in SUBSET Int
        BY <1>1, <3>1
      <3>3. PICK x : x = Min(T)
        OBVIOUS
      <3>4. x \in T /\ x < n /\ \A y \in T : x <= y
        BY <2>2, <3>1, <3>2, <3>3, MinOf
      <3>5. x \in T \cup {n} /\ \A y \in T \cup {n} : x <= y
        BY <3>4
      <3>6. Min(T \cup {n}) = Min(T)
        BY <3>2, <3>3, <3>5, LeastIs
      <3>7. T \in SUBSET (1 .. Len(h))
        BY <3>1
      <3>8. c = OpenEpisode(started, early, public)
        BY <1>0, <1>2, <1>5, <2>2, <3>6, Zenon DEF Partial
      <3>9. c # None
        BY <1>0, <2>2, <3>7, PartialIsSome
      <3>10. QED
        BY <3>8, <3>9 DEF Joined
    <2>3. QED
      BY <2>1, <2>2
  <1>7. Restocked(c, e) =
            OpenEpisode(started, FirstSeen(early, e, "early_access"), FirstSeen(public, e, "public"))
    BY <1>6, RestockedIs
  <1>8. QED
    BY <1>2, <1>4, <1>5, <1>7, Zenon DEF Partial

\* The `oos' row of its last line closes the episode of a spell.
LEMMA SpellCloses ==
    ASSUME NEW h, WellFormed(h), NEW m \in SpellsOf(h), SpellEnd(h, m) <= Len(h)
    PROVE  Closed(Partial(h, ToldIn(h, m)), RowAt(h, SpellEnd(h, m))) = EpisodeOfSpell(h, m)
  <1>1. PICK n : n = SpellEnd(h, m)
    OBVIOUS
  <1>2. IsHistory(h) /\ m \in 1 .. Len(h) /\ Len(h) \in Nat
    BY LenType DEF WellFormed, SpellsOf
  <1>3. n \in 1 .. Len(h) /\ m < n
    BY <1>1, <1>2, SpellEndIs DEF SpellsOf
  <1>18. /\ h[n].secs = h[n].at - h[m].at
         /\ h[m].at <= h[m].ts /\ h[m].ts < h[n].at
    BY <1>1, <1>2, <1>3 DEF WellFormed
  <1>5. /\ h[n].at \in Nat /\ h[m].at \in Nat /\ h[n].ts \in Nat /\ h[m].ts \in Nat
    BY <1>2, <1>3, LineTypes
  <1>4. h[n].secs = h[n].at - h[m].at /\ h[m].at < h[n].at
    BY <1>5, <1>18
  <1>6. h[n].secs # None /\ h[n].ts # None
    BY <1>4, <1>5, NullAssumption
  <1>7. PICK early, public, started, e :
           /\ early = FirstOf(h, ToldIn(h, m), "early_access")
           /\ public = FirstOf(h, ToldIn(h, m), "public")
           /\ started = h[Min(ToldIn(h, m))].ts
           /\ e = RowAt(h, n)
    OBVIOUS
  <1>8. e.ts = h[n].ts /\ e.secs = h[n].secs
    BY <1>7 DEF RowAt
  <1>16. PICK buyable : buyable = IF e.secs # None THEN e.secs ELSE e.ts - started
    OBVIOUS
  <1>17. buyable = h[n].secs
    BY <1>6, <1>8, <1>16
  <1>9. Closed(Partial(h, ToldIn(h, m)), e) =
            [started |-> started, early |-> early, public |-> public, ended |-> e.ts,
             ongoing |-> FALSE, buyable |-> buyable, lead |-> LeadOf(early, public)]
    <2>1. Partial(h, ToldIn(h, m)) = OpenEpisode(started, early, public)
      BY <1>7, Zenon DEF Partial
    <2>2. Closed(OpenEpisode(started, early, public), e) =
              [started |-> started, early |-> early, public |-> public, ended |-> e.ts,
               ongoing |-> FALSE,
               buyable |-> IF e.secs # None THEN e.secs ELSE e.ts - started,
               lead |-> LeadOf(early, public)]
      BY ClosedIs, Zenon
    <2>3. QED
      BY <1>16, <2>1, <2>2, Zenon
  <1>10. Closed(Partial(h, ToldIn(h, m)), e) =
            [started |-> started, early |-> early, public |-> public, ended |-> h[n].ts,
             ongoing |-> FALSE, buyable |-> h[n].secs, lead |-> LeadOf(early, public)]
    BY <1>8, <1>9, <1>17, Zenon
  <1>11. ~ (n > Len(h)) /\ (h[n].ts = None) = FALSE
    BY <1>2, <1>3, <1>6
  <1>12. PICK ended : ended = h[n].ts
    OBVIOUS
  <1>13. EpisodeOfSpell(h, m) =
            [started |-> started, early |-> early, public |-> public, ended |-> ended,
             ongoing |-> ended = None,
             buyable |-> IF ended = None THEN clock - started ELSE h[n].at - h[m].at,
             lead |-> LeadOf(early, public)]
    BY <1>1, <1>7, <1>11, <1>12, Zenon DEF EpisodeOfSpell, LeadOf
  <1>14. EpisodeOfSpell(h, m) =
            [started |-> started, early |-> early, public |-> public, ended |-> h[n].ts,
             ongoing |-> FALSE, buyable |-> h[n].at - h[m].at, lead |-> LeadOf(early, public)]
    BY <1>11, <1>12, <1>13, Zenon
  <1>15. QED
    BY <1>1, <1>4, <1>7, <1>10, <1>14, Zenon

\* The episode of a spell that is not over is ongoing.
LEMMA SpellRuns ==
    ASSUME NEW h, WellFormed(h), NEW m \in SpellsOf(h), SpellEnd(h, m) = Len(h) + 1
    PROVE  StillOpen(Partial(h, ToldIn(h, m)), clock) = EpisodeOfSpell(h, m)
  <1>1. Len(h) \in Nat
    BY LenType DEF WellFormed
  <1>2. PICK n : n = SpellEnd(h, m)
    OBVIOUS
  <1>3. n > Len(h)
    BY <1>1, <1>2
  <1>4. PICK early, public, started :
           /\ early = FirstOf(h, ToldIn(h, m), "early_access")
           /\ public = FirstOf(h, ToldIn(h, m), "public")
           /\ started = h[Min(ToldIn(h, m))].ts
    OBVIOUS
  <1>5. StillOpen(Partial(h, ToldIn(h, m)), clock) =
            [started |-> started, early |-> early, public |-> public, ended |-> None,
             ongoing |-> TRUE, buyable |-> clock - started, lead |-> LeadOf(early, public)]
    BY <1>4, StillOpenIs, Zenon DEF Partial
  <1>6. PICK ended : ended = None
    OBVIOUS
  <1>7. EpisodeOfSpell(h, m) =
            [started |-> started, early |-> early, public |-> public, ended |-> ended,
             ongoing |-> ended = None,
             buyable |-> IF ended = None THEN clock - started ELSE h[n].at - h[m].at,
             lead |-> LeadOf(early, public)]
    BY <1>2, <1>3, <1>4, <1>6, Zenon DEF EpisodeOfSpell, LeadOf
  <1>8. (ended = None) = TRUE
    BY <1>6
  <1>9. EpisodeOfSpell(h, m) =
            [started |-> started, early |-> early, public |-> public, ended |-> None,
             ongoing |-> TRUE, buyable |-> clock - started, lead |-> LeadOf(early, public)]
    BY <1>6, <1>7, <1>8, Zenon
  <1>10. QED
    BY <1>5, <1>9, Zenon

-----------------------------------------------------------------------------
(* The walk along a history, from a line b at which no episode is open.    *)

\* The lines after b that have a row.
Left(h, b) == {n \in 1 .. Len(h) : n > b /\ h[n].kind \notin {"baseline", "unannounced"}}

\* No spell that was told of up to b goes on after b.
Boundary(h, b) ==
    /\ b \in 0 .. Len(h)
    /\ \A m \in SpellsOf(h) : \A j \in ToldIn(h, m) : j <= b => SpellEnd(h, m) <= b

ToldSpells(h) == {m \in SpellsOf(h) : ToldIn(h, m) # {}}

\* The spells told of that ended after b and up to n.
Done(h, b, n) == {m \in ToldSpells(h) : SpellEnd(h, m) > b /\ SpellEnd(h, m) <= n}

EpisodesOf(h, ms) ==
    [i \in 1 .. Cardinality(ms) |-> EpisodeOfSpell(h, Ascending(ms)[i])]

\* The spell at m is on at line n, and was told of by then.
Going(h, m, n) == m <= n /\ n < SpellEnd(h, m) /\ Heard(h, m, n) # {}

\* c is the open episode of the walk at line n.
OpenAt(c, h, n) ==
    /\ \A m \in SpellsOf(h) : Going(h, m, n) => c = Partial(h, Heard(h, m, n))
    /\ (\A m \in SpellsOf(h) : ~ Going(h, m, n)) => c = None

\* A spell is the lines from its opening to the `oos' line that ends it.
LEMMA SpellFacts ==
    ASSUME NEW h, IsHistory(h), NEW m \in SpellsOf(h)
    PROVE  /\ Len(h) \in Nat /\ m \in Nat /\ m \in 1 .. Len(h)
           /\ SpellEnd(h, m) \in Nat /\ m < SpellEnd(h, m) /\ SpellEnd(h, m) <= Len(h) + 1
           /\ \A n \in Nat : m <= n /\ n < SpellEnd(h, m) =>
                 n \in 1 .. Len(h) /\ h[n].phase # "oos"
           /\ SpellEnd(h, m) <= Len(h) => h[SpellEnd(h, m)].phase = "oos"
           /\ \A n : n \in ToldIn(h, m) <=>
                 /\ n \in Nat /\ m <= n /\ n < SpellEnd(h, m)
                 /\ h[n].kind \in TellingKinds
  <1>1. Len(h) \in Nat /\ m \in 1 .. Len(h) /\ h[m].phase # "oos"
    BY LenType DEF SpellsOf
  <1>2. PICK e : e = SpellEnd(h, m)
    OBVIOUS
  <1>3. /\ e \in m .. Len(h) + 1 /\ m < e
        /\ \A n \in m .. e - 1 : n \in 1 .. Len(h) /\ h[n].phase # "oos"
        /\ e <= Len(h) => h[e].phase = "oos"
    BY <1>1, <1>2, SpellEndIs
  <1>4. \A n : n \in m .. e - 1 <=> n \in Nat /\ m <= n /\ n < e
    BY <1>1, <1>3
  <1>5. \A n : n \in ToldIn(h, m) <=> n \in m .. e - 1 /\ h[n].kind \in TellingKinds
    BY <1>2 DEF ToldIn, TellingKinds
  <1>6. QED
    BY <1>1, <1>2, <1>3, <1>4, <1>5

\* Two spells told of end in the order in which they open.
LEMMA EndsInOrder ==
    ASSUME NEW h, IsHistory(h), NEW m \in SpellsOf(h), NEW p \in SpellsOf(h)
    PROVE  m < p <=> SpellEnd(h, m) < SpellEnd(h, p)
  <1>1. PICK d, e : d = SpellEnd(h, m) /\ e = SpellEnd(h, p)
    OBVIOUS
  <1>2. m \in Nat /\ p \in Nat /\ d \in Nat /\ e \in Nat /\ m < d /\ p < e
    BY <1>1, SpellFacts
  <1>3. m < p => d < p
    BY <1>1, SpellsApart
  <1>4. p < m => e < m
    BY <1>1, SpellsApart
  <1>5. m = p => d = e
    BY <1>1
  <1>6. QED
    BY <1>1, <1>2, <1>3, <1>4, <1>5

\* What the kind of a line says of its place and its phase.
LEMMA KindFacts ==
    ASSUME NEW h, WellFormed(h), NEW n \in 1 .. Len(h)
    PROVE  /\ IsHistory(h) /\ n \in Nat /\ n >= 1
           /\ h[n].kind \in TellingKinds => n > 1 /\ h[n].phase # "oos"
           /\ h[n].kind = "oos" => n > 1 /\ h[n].phase = "oos"
           /\ \/ h[n].kind \in TellingKinds
              \/ h[n].kind = "oos"
              \/ n = 1 /\ h[n].kind \in FirstKinds
  <1>1. IsHistory(h)
    BY DEF WellFormed
  <1>2. n \in Nat /\ n >= 1 /\ h[n].phase \in {"oos", "early", "public"}
    BY <1>1, LineTypes DEF StockPhases
  <1>3. IF n = 1 THEN h[n].kind \in FirstKinds ELSE h[n].kind = KindOf(h[n].phase)
    BY DEF WellFormed
  <1>4. CASE n = 1
    BY <1>1, <1>2, <1>3, <1>4 DEF FirstKinds, TellingKinds
  <1>5. CASE n # 1
    <2>1. /\ h[n].phase = "oos" => h[n].kind = "oos"
          /\ h[n].phase = "early" => h[n].kind = "early_access"
          /\ h[n].phase = "public" => h[n].kind = "public"
      BY <1>3, <1>5 DEF KindOf
    <2>2. QED
      BY <1>1, <1>2, <1>5, <2>1 DEF TellingKinds
  <1>6. QED
    BY <1>4, <1>5

\* A restock row.
LEMMA WalksRestock ==
    ASSUME NEW h, WellFormed(h), NEW b, Boundary(h, b), NEW n \in 1 .. Len(h),
           h[n].kind \in TellingKinds, NEW c, OpenAt(c, h, n - 1)
    PROVE  /\ OpenAt(Restocked(c, RowAt(h, n)), h, n)
           /\ Done(h, b, n) = Done(h, b, n - 1)
  <1>1. IsHistory(h) /\ n \in Nat /\ n > 1 /\ h[n].phase # "oos"
    BY KindFacts
  <1>2. PICK m \in SpellsOf(h) : m <= n /\ n < SpellEnd(h, m)
    BY <1>1, SomeSpell
  <1>3. m \in Nat /\ SpellEnd(h, m) \in Nat /\ m < SpellEnd(h, m)
    BY <1>1, SpellFacts
  <1>4. PICK T : T = Heard(h, m, n - 1)
    OBVIOUS
  <1>5. \A j : j \in T <=> j \in ToldIn(h, m) /\ j <= n - 1
    BY <1>4 DEF Heard
  <1>6. \A j \in ToldIn(h, m) : j \in Nat /\ m <= j /\ j >= 1
    BY <1>1, SpellFacts
  <1>7. n \in ToldIn(h, m)
    BY <1>1, <1>2, SpellFacts
  <1>8. T \in SUBSET (1 .. n - 1)
    BY <1>1, <1>5, <1>6
  <1>9. Heard(h, m, n) = T \cup {n}
    <2>1. \A j \in Nat : j <= n <=> j <= n - 1 \/ j = n
      BY <1>1
    <2>2. \A j : j \in Heard(h, m, n) <=> j \in T \/ j = n
      BY <1>5, <1>6, <1>7, <2>1 DEF Heard
    <2>3. QED
      BY <2>2
  <1>10. c = IF T = {} THEN None ELSE Partial(h, T)
    <2>1. CASE T # {}
      <3>1. m <= n - 1
        <4>1. PICK j \in T : TRUE
          BY <2>1
        <4>2. j \in Nat /\ m <= j /\ j <= n - 1
          BY <1>5, <1>6
        <4>3. QED
          BY <1>1, <1>3, <4>2
      <3>2. n - 1 < SpellEnd(h, m)
        BY <1>1, <1>2, <1>3
      <3>3. Going(h, m, n - 1)
        BY <1>4, <2>1, <3>1, <3>2 DEF Going
      <3>4. c = Partial(h, T)
        BY <1>4, <3>3 DEF OpenAt
      <3>5. QED
        BY <2>1, <3>4
    <2>2. CASE T = {}
      <3>1. ASSUME NEW p \in SpellsOf(h), Going(h, p, n - 1)
            PROVE  FALSE
        <4>1. p \in Nat /\ SpellEnd(h, p) \in Nat /\ p < SpellEnd(h, p)
          BY <1>1, SpellFacts
        <4>2. p <= n - 1 /\ n - 1 < SpellEnd(h, p) /\ p # m
          BY <1>4, <2>2, <3>1 DEF Going
        <4>3. p < m => SpellEnd(h, p) < m
          BY <1>1, SpellsApart
        <4>4. m < p => SpellEnd(h, m) < p
          BY <1>1, SpellsApart
        <4>5. QED
          BY <1>1, <1>2, <1>3, <4>1, <4>2, <4>3, <4>4
      <3>2. c = None
        BY <3>1 DEF OpenAt
      <3>3. QED
        BY <2>2, <3>2
    <2>3. QED
      BY <2>1, <2>2
  <1>11. Restocked(c, RowAt(h, n)) = Partial(h, Heard(h, m, n))
    BY <1>1, <1>8, <1>9, <1>10, RestockJoins
  <1>12. Going(h, m, n)
    BY <1>2, <1>9 DEF Going
  <1>13. ASSUME NEW p \in SpellsOf(h), Going(h, p, n)
         PROVE  p = m
    BY <1>1, <1>2, <1>13, OneSpellAtATime DEF Going
  <1>14. OpenAt(Restocked(c, RowAt(h, n)), h, n)
    BY <1>11, <1>12, <1>13, Zenon DEF OpenAt
  <1>15. ASSUME NEW p \in SpellsOf(h)
         PROVE  SpellEnd(h, p) <= n <=> SpellEnd(h, p) <= n - 1
    <2>1. /\ SpellEnd(h, p) \in Nat
          /\ SpellEnd(h, p) <= Len(h) => h[SpellEnd(h, p)].phase = "oos"
      BY <1>1, SpellFacts
    <2>2. SpellEnd(h, p) # n
      BY <1>1, <2>1, LineTypes
    <2>3. QED
      BY <1>1, <2>1, <2>2
  <1>16. Done(h, b, n) = Done(h, b, n - 1)
    BY <1>15 DEF Done, ToldSpells
  <1>17. QED
    BY <1>14, <1>16

\* An `oos' row that closes an episode.
LEMMA WalksClose ==
    ASSUME NEW h, WellFormed(h), NEW b, Boundary(h, b), NEW n \in 1 .. Len(h), n > b,
           h[n].kind = "oos", NEW c, OpenAt(c, h, n - 1),
           NEW m \in SpellsOf(h), Going(h, m, n - 1)
    PROVE  /\ c # None /\ Closed(c, RowAt(h, n)) = EpisodeOfSpell(h, m)
           /\ m \in Nat /\ \A x \in Done(h, b, n - 1) : x < m
           /\ Done(h, b, n) = Done(h, b, n - 1) \cup {m}
           /\ OpenAt(None, h, n)
  <1>1. IsHistory(h) /\ n \in Nat /\ n > 1 /\ h[n].phase = "oos"
    BY KindFacts
  <1>2. m \in Nat /\ SpellEnd(h, m) \in Nat
    BY <1>1, SpellFacts
  <1>3. m <= n - 1 /\ n - 1 < SpellEnd(h, m) /\ Heard(h, m, n - 1) # {}
    BY DEF Going
  <1>4. SpellEnd(h, m) = n
    <2>1. ~ (n < SpellEnd(h, m))
      BY <1>1, <1>2, <1>3, SpellFacts
    <2>2. QED
      BY <1>1, <1>2, <1>3, <2>1
  <1>5. Heard(h, m, n - 1) = ToldIn(h, m)
    <2>1. \A j \in ToldIn(h, m) : j \in Nat /\ j < n
      BY <1>1, <1>4, SpellFacts
    <2>2. \A j \in ToldIn(h, m) : j <= n - 1
      BY <1>1, <2>1
    <2>3. QED
      BY <2>2 DEF Heard
  <1>6. c = Partial(h, ToldIn(h, m))
    BY <1>5 DEF OpenAt
  <1>7. c # None
    <2>1. \A j \in ToldIn(h, m) : j \in 1 .. Len(h)
      BY <1>1, SpellFacts
    <2>2. ToldIn(h, m) \in SUBSET (1 .. Len(h)) /\ ToldIn(h, m) # {}
      BY <1>3, <1>5, <2>1
    <2>3. QED
      BY <1>1, <1>6, <2>2, PartialIsSome
  <1>8. SpellEnd(h, m) <= Len(h)
    BY <1>1, <1>4, LineTypes
  <1>9. Closed(c, RowAt(h, n)) = EpisodeOfSpell(h, m)
    BY <1>4, <1>6, <1>8, SpellCloses
  <1>10. ASSUME NEW p \in SpellsOf(h)
         PROVE  /\ SpellEnd(h, p) \in Nat /\ p \in Nat
                /\ SpellEnd(h, p) = n => p = m
                /\ SpellEnd(h, p) <= n - 1 => p < m
    <2>1. /\ p < m <=> SpellEnd(h, p) < SpellEnd(h, m)
          /\ m < p <=> SpellEnd(h, m) < SpellEnd(h, p)
      BY <1>1, EndsInOrder
    <2>2. SpellEnd(h, p) \in Nat /\ p \in Nat
      BY <1>1, SpellFacts
    <2>3. QED
      BY <1>1, <1>2, <1>4, <2>1, <2>2
  <1>11. \A x \in Done(h, b, n - 1) : x < m
    BY <1>10 DEF Done, ToldSpells
  <1>12. Done(h, b, n) = Done(h, b, n - 1) \cup {m}
    <2>1. m \in ToldSpells(h) /\ SpellEnd(h, m) > b
      BY <1>3, <1>4, <1>5 DEF ToldSpells
    <2>2. \A p \in SpellsOf(h) : SpellEnd(h, p) <= n <=> SpellEnd(h, p) <= n - 1 \/ p = m
      BY <1>1, <1>4, <1>10
    <2>3. \A p : p \in Done(h, b, n) <=> p \in Done(h, b, n - 1) \/ p = m
      BY <2>1, <2>2 DEF Done, ToldSpells
    <2>4. QED
      BY <2>3
  <1>13. OpenAt(None, h, n)
    <2>1. ASSUME NEW p \in SpellsOf(h), Going(h, p, n)
          PROVE  FALSE
      BY <1>1, <2>1, SpellFacts DEF Going
    <2>2. QED
      BY <2>1 DEF OpenAt
  <1>14. QED
    BY <1>2, <1>7, <1>9, <1>11, <1>12, <1>13

\* An `oos' row when no episode is open: the spell was not told of.
LEMMA WalksIgnored ==
    ASSUME NEW h, WellFormed(h), NEW b, Boundary(h, b), NEW n \in 1 .. Len(h),
           h[n].kind = "oos", NEW c, OpenAt(c, h, n - 1),
           \A m \in SpellsOf(h) : ~ Going(h, m, n - 1)
    PROVE  /\ c = None /\ OpenAt(None, h, n)
           /\ Done(h, b, n) = Done(h, b, n - 1)
  <1>1. IsHistory(h) /\ n \in Nat /\ n > 1 /\ h[n].phase = "oos"
    BY KindFacts
  <1>2. c = None
    BY DEF OpenAt
  <1>3. OpenAt(None, h, n)
    <2>1. ASSUME NEW p \in SpellsOf(h), Going(h, p, n)
          PROVE  FALSE
      BY <1>1, <2>1, SpellFacts DEF Going
    <2>2. QED
      BY <2>1 DEF OpenAt
  <1>4. ASSUME NEW p \in SpellsOf(h), ToldIn(h, p) # {}
        PROVE  SpellEnd(h, p) <= n <=> SpellEnd(h, p) <= n - 1
    <2>1. p \in Nat /\ SpellEnd(h, p) \in Nat /\ p < SpellEnd(h, p)
      BY <1>1, SpellFacts
    <2>2. SpellEnd(h, p) # n
      <3>1. SUFFICES ASSUME SpellEnd(h, p) = n PROVE FALSE
        OBVIOUS
      <3>2. PICK j \in ToldIn(h, p) : TRUE
        BY <1>4
      <3>3. j \in Nat /\ j < n
        BY <1>1, <3>1, SpellFacts
      <3>4. j <= n - 1 /\ p <= n - 1 /\ n - 1 < n
        BY <1>1, <2>1, <3>1, <3>3
      <3>5. Going(h, p, n - 1)
        BY <3>1, <3>4 DEF Going, Heard
      <3>6. QED
        BY <3>5
    <2>3. QED
      BY <1>1, <2>1, <2>2
  <1>5. Done(h, b, n) = Done(h, b, n - 1)
    BY <1>4 DEF Done, ToldSpells
  <1>6. QED
    BY <1>2, <1>3, <1>5

\* The first line opens and closes nothing.
LEMMA WalksFirst ==
    ASSUME NEW h, WellFormed(h), NEW b, Boundary(h, b), NEW n \in 1 .. Len(h),
           n = 1, h[n].kind \in FirstKinds, NEW c, OpenAt(c, h, n - 1)
    PROVE  OpenAt(c, h, n) /\ Done(h, b, n) = Done(h, b, n - 1)
  <1>1. IsHistory(h)
    BY DEF WellFormed
  <1>2. ASSUME NEW p \in SpellsOf(h)
        PROVE  ~ Going(h, p, 0) /\ ~ Going(h, p, 1)
    <2>1. p \in Nat /\ p >= 1
      BY <1>1, SpellFacts
    <2>2. ASSUME NEW j \in ToldIn(h, p)
          PROVE  j \in Nat /\ j > 1
      <3>1. j \in Nat /\ j >= p /\ h[j].kind \in TellingKinds
        BY <1>1, SpellFacts
      <3>2. j # 1
        BY <3>1 DEF FirstKinds, TellingKinds
      <3>3. QED
        BY <2>1, <3>1, <3>2
    <2>3. Heard(h, p, 1) = {}
      BY <2>2 DEF Heard
    <2>4. QED
      BY <2>1, <2>3 DEF Going
  <1>3. c = None
    BY <1>2 DEF OpenAt
  <1>4. OpenAt(c, h, n)
    BY <1>2, <1>3 DEF OpenAt
  <1>5. ASSUME NEW p \in SpellsOf(h)
        PROVE  ~ (SpellEnd(h, p) <= 1)
    BY <1>1, SpellFacts
  <1>6. ASSUME NEW p \in SpellsOf(h)
        PROVE  ~ (SpellEnd(h, p) <= 0)
    BY <1>1, SpellFacts
  <1>7. Done(h, b, n) = Done(h, b, n - 1)
    BY <1>5, <1>6 DEF Done, ToldSpells
  <1>8. QED
    BY <1>4, <1>7

\* Appending a value.
LEMMA AppendIs ==
    ASSUME NEW n \in Nat, NEW q, q = [i \in 1 .. n |-> q[i]], NEW e
    PROVE  Append(q, e) = [i \in 1 .. n + 1 |-> IF i = n + 1 THEN e ELSE q[i]]
  <1> DEFINE V == {q[i] : i \in 1 .. n} \cup {e}
  <1>1. q \in Seq(V) /\ Len(q) = n /\ e \in V
    OBVIOUS
  <1> HIDE DEF V
  <1>2. /\ Append(q, e) \in Seq(V) /\ Len(Append(q, e)) = n + 1
        /\ \A i \in 1 .. n : Append(q, e)[i] = q[i]
        /\ Append(q, e)[n + 1] = e
    BY <1>1
  <1>3. QED
    BY <1>2

\* The episode of a later spell comes last.
LEMMA EpisodeAppended ==
    ASSUME NEW h, NEW D \in SUBSET Nat, IsFiniteSet(D), NEW m \in Nat, \A x \in D : x < m
    PROVE  Append(EpisodesOf(h, D), EpisodeOfSpell(h, m)) = EpisodesOf(h, D \cup {m})
  <1>1. PICK s, t, U, n : s = Ascending(D) /\ t = Ascending(U) /\ U = D \cup {m}
                          /\ n = Cardinality(D)
    OBVIOUS
  <1>2. /\ Cardinality(U) = n + 1 /\ t[n + 1] = m
        /\ \A i \in 1 .. n : t[i] = s[i]
    BY <1>1, SortedAppend
  <1>3. n \in Nat
    BY <1>1, FS_CardinalityType
  <1>4. PICK q : q = EpisodesOf(h, D)
    OBVIOUS
  <1>5. q = [i \in 1 .. n |-> EpisodeOfSpell(h, s[i])]
    BY <1>1, <1>4 DEF EpisodesOf
  <1>6. q = [i \in 1 .. n |-> q[i]]
    BY <1>5
  <1>7. PICK r : r = Append(q, EpisodeOfSpell(h, m))
    OBVIOUS
  <1>8. r = [i \in 1 .. n + 1 |-> IF i = n + 1 THEN EpisodeOfSpell(h, m) ELSE q[i]]
    BY <1>3, <1>6, <1>7, AppendIs
  <1>9. EpisodesOf(h, U) = [i \in 1 .. n + 1 |-> EpisodeOfSpell(h, t[i])]
    BY <1>1, <1>2 DEF EpisodesOf
  <1>10. ASSUME NEW i \in 1 .. n + 1
         PROVE  EpisodeOfSpell(h, t[i]) = r[i]
    <2>1. CASE i = n + 1
      <3>1. r[i] = EpisodeOfSpell(h, m) /\ t[i] = m
        BY <1>2, <1>8, <2>1
      <3>2. QED
        BY <3>1, Zenon
    <2>2. CASE i # n + 1
      <3>1. i \in 1 .. n
        BY <1>3, <2>2
      <3>2. r[i] = q[i] /\ t[i] = s[i] /\ q[i] = EpisodeOfSpell(h, s[i])
        BY <1>2, <1>5, <1>8, <2>2, <3>1
      <3>3. QED
        BY <3>2, Zenon
    <2>3. QED
      BY <2>1, <2>2
  <1>11. EpisodesOf(h, U) = r
    BY <1>8, <1>9, <1>10
  <1>12. QED
    BY <1>1, <1>4, <1>7, <1>11

\* What the walk has after line n of h closed the episode c.
ClosesWith(acc, done, c, h, n) ==
    acc = [done |-> Append(done, Closed(c, RowAt(h, n))), cur |-> None]

\* One row of the walk.
LEMMA WalkCases ==
    ASSUME NEW done, NEW c, NEW h, NEW n, NEW acc, acc = [done |-> done, cur |-> c]
    PROVE  /\ h[n].kind \in TellingKinds =>
                 Walk(acc, RowAt(h, n)) = [done |-> done, cur |-> Restocked(c, RowAt(h, n))]
           /\ h[n].kind = "oos" /\ c # None => ClosesWith(Walk(acc, RowAt(h, n)), done, c, h, n)
           /\ h[n].kind = "oos" /\ c = None => Walk(acc, RowAt(h, n)) = acc
           /\ h[n].kind \in FirstKinds => Walk(acc, RowAt(h, n)) = acc
  <1>1. PICK e : e = RowAt(h, n)
    OBVIOUS
  <1>2. e.kind = h[n].kind /\ acc.done = done /\ acc.cur = c
    BY <1>1 DEF RowAt
  <1>3. ASSUME e.kind \in TellingKinds
        PROVE  Walk(acc, e) = [done |-> done, cur |-> Restocked(c, e)]
    <2>1. Walk(acc, e) = [acc EXCEPT !.cur = Restocked(@, e)]
      BY <1>3 DEF Walk, TellingKinds
    <2>2. PICK r : r = Restocked(c, e)
      OBVIOUS
    <2>3. Walk(acc, e) = [acc EXCEPT !.cur = r]
      BY <1>2, <2>1, <2>2, Zenon
    <2>4. QED
      BY <2>2, <2>3
  <1>4. ASSUME e.kind = "oos", c # None
        PROVE  Walk(acc, e) = [done |-> Append(done, Closed(c, e)), cur |-> None]
    <2>1. Walk(acc, e) = [done |-> Append(acc.done, Closed(acc.cur, e)), cur |-> None]
      BY <1>2, <1>4 DEF Walk
    <2>2. QED
      BY <1>2, <2>1, Zenon
  <1>5. ASSUME e.kind = "oos", c = None
        PROVE  Walk(acc, e) = acc
    BY <1>2, <1>5 DEF Walk
  <1>6. ASSUME e.kind \in FirstKinds
        PROVE  Walk(acc, e) = acc
    BY <1>6 DEF Walk, FirstKinds
  <1>7. QED
    BY <1>1, <1>2, <1>3, <1>4, <1>5, <1>6, Zenon DEF ClosesWith

\* What the walk has after line n.
After(acc, h, b, n) ==
    \E c : acc = [done |-> EpisodesOf(h, Done(h, b, n)), cur |-> c] /\ OpenAt(c, h, n)

\* The spells that ended between two lines are finitely many.
LEMMA DoneType ==
    ASSUME NEW h, IsHistory(h), NEW b, NEW n
    PROVE  Done(h, b, n) \in SUBSET Nat /\ IsFiniteSet(Done(h, b, n))
  <1>1. Len(h) \in Nat
    BY LenType
  <1>2. Done(h, b, n) \in SUBSET (1 .. Len(h))
    BY DEF Done, ToldSpells, SpellsOf
  <1>3. IsFiniteSet(1 .. Len(h))
    BY <1>1, FS_Interval
  <1>4. QED
    BY <1>2, <1>3, FS_Subset

\* Along the lines, what is closed are the episodes of the spells told of
\* that ended, and what is open is that of the spell that goes on.
LEMMA OneLine ==
    ASSUME NEW h, WellFormed(h), NEW b, Boundary(h, b), NEW n \in 1 .. Len(h), n > b,
           NEW acc, After(acc, h, b, n - 1)
    PROVE  /\ n \in Left(h, b) => After(Walk(acc, RowAt(h, n)), h, b, n)
           /\ n \notin Left(h, b) => After(acc, h, b, n)
  <1>1. PICK c : /\ acc = [done |-> EpisodesOf(h, Done(h, b, n - 1)), cur |-> c]
                 /\ OpenAt(c, h, n - 1)
    BY Zenon DEF After
  <1>2. n \in Left(h, b) <=> h[n].kind \notin {"baseline", "unannounced"}
    BY DEF Left
  <1>3. PICK done : done = EpisodesOf(h, Done(h, b, n - 1))
    OBVIOUS
  <1>4. acc = [done |-> done, cur |-> c]
    BY <1>1, <1>3
  <1>5. IsHistory(h)
    BY DEF WellFormed
  <1>6. CASE h[n].kind \in TellingKinds
    <2>1. Walk(acc, RowAt(h, n)) = [done |-> done, cur |-> Restocked(c, RowAt(h, n))]
      BY <1>4, <1>6, WalkCases
    <2>2. /\ OpenAt(Restocked(c, RowAt(h, n)), h, n)
          /\ Done(h, b, n) = Done(h, b, n - 1)
      BY <1>1, <1>6, WalksRestock
    <2>3. After(Walk(acc, RowAt(h, n)), h, b, n)
      BY <1>3, <2>1, <2>2, Zenon DEF After
    <2>4. n \in Left(h, b)
      BY <1>2, <1>6 DEF TellingKinds
    <2>5. QED
      BY <2>3, <2>4
  <1>7. CASE h[n].kind = "oos"
    <2>1. n \in Left(h, b)
      BY <1>2, <1>7
    <2>2. CASE \E m \in SpellsOf(h) : Going(h, m, n - 1)
      <3>1. PICK m \in SpellsOf(h) : Going(h, m, n - 1)
        BY <2>2
      <3>2. /\ c # None /\ Closed(c, RowAt(h, n)) = EpisodeOfSpell(h, m)
            /\ m \in Nat /\ \A x \in Done(h, b, n - 1) : x < m
            /\ Done(h, b, n) = Done(h, b, n - 1) \cup {m}
            /\ OpenAt(None, h, n)
        BY <1>1, <1>7, <3>1, WalksClose
      <3>3. Walk(acc, RowAt(h, n)) =
               [done |-> Append(done, Closed(c, RowAt(h, n))), cur |-> None]
        <4>1. ClosesWith(Walk(acc, RowAt(h, n)), done, c, h, n)
          BY <1>4, <1>7, <3>2, WalkCases
        <4>2. QED
          BY <4>1, Zenon DEF ClosesWith
      <3>4. Append(done, Closed(c, RowAt(h, n))) = EpisodesOf(h, Done(h, b, n))
        <4>1. PICK D : D = Done(h, b, n - 1)
          OBVIOUS
        <4>2. D \in SUBSET Nat /\ IsFiniteSet(D)
          BY <1>5, <4>1, DoneType
        <4>3. Append(EpisodesOf(h, D), EpisodeOfSpell(h, m)) = EpisodesOf(h, D \cup {m})
          BY <3>2, <4>1, <4>2, EpisodeAppended
        <4>4. QED
          BY <1>3, <3>2, <4>1, <4>3, Zenon
      <3>5. After(Walk(acc, RowAt(h, n)), h, b, n)
        BY <3>2, <3>3, <3>4, Zenon DEF After
      <3>6. QED
        BY <2>1, <3>5
    <2>3. CASE ~ \E m \in SpellsOf(h) : Going(h, m, n - 1)
      <3>1. c = None /\ OpenAt(None, h, n) /\ Done(h, b, n) = Done(h, b, n - 1)
        BY <1>1, <1>7, <2>3, WalksIgnored
      <3>2. Walk(acc, RowAt(h, n)) = acc
        BY <1>4, <1>7, <3>1, WalkCases
      <3>3. After(acc, h, b, n)
        BY <1>3, <1>4, <3>1, Zenon DEF After
      <3>4. QED
        BY <2>1, <3>2, <3>3, Zenon
    <2>4. QED
      BY <2>2, <2>3
  <1>8. CASE n = 1 /\ h[n].kind \in FirstKinds
    <2>1. OpenAt(c, h, n) /\ Done(h, b, n) = Done(h, b, n - 1)
      BY <1>1, <1>8, WalksFirst
    <2>2. After(acc, h, b, n)
      BY <1>3, <1>4, <2>1, Zenon DEF After
    <2>3. Walk(acc, RowAt(h, n)) = acc
      BY <1>4, <1>8, WalkCases
    <2>4. QED
      BY <2>2, <2>3, Zenon
  <1>9. QED
    BY <1>6, <1>7, <1>8, KindFacts

\* The spells told of that go on after b.
Past(h, b) == {m \in ToldSpells(h) : SpellEnd(h, m) > b}

\* The rows of some lines, by the place of a line among them.
LEMMA RowsAre ==
    ASSUME NEW k, NEW h, h = hist[k], NEW ns \in SUBSET Nat, IsFiniteSet(ns),
           NEW rows, rows = RowsOf(k, ns)
    PROVE  /\ Cardinality(ns) \in Nat
           /\ DOMAIN rows = 1 .. Cardinality(ns)
           /\ \A n \in ns : /\ Cardinality(Below(ns, n)) + 1 \in 1 .. Cardinality(ns)
                            /\ rows[Cardinality(Below(ns, n)) + 1] = RowAt(h, n)
  <1>1. PICK s, c : s = Ascending(ns) /\ c = Cardinality(ns)
    OBVIOUS
  <1>2. /\ c \in Nat /\ Len(s) = c
        /\ \A n \in ns : /\ Cardinality(Below(ns, n)) + 1 \in 1 .. c
                         /\ s[Cardinality(Below(ns, n)) + 1] = n
    BY <1>1, SortedNumbers
  <1>3. rows = [i \in 1 .. c |-> [ts |-> hist[k][s[i]].ts, kind |-> hist[k][s[i]].kind,
                                   secs |-> hist[k][s[i]].secs]]
    BY <1>1, <1>2 DEF RowsOf
  <1>4. ASSUME NEW i \in 1 .. c
        PROVE  rows[i] = RowAt(h, s[i])
    <2>1. rows[i] = [ts |-> hist[k][s[i]].ts, kind |-> hist[k][s[i]].kind,
                     secs |-> hist[k][s[i]].secs]
      BY <1>3
    <2>2. QED
      BY <2>1, Zenon DEF RowAt
  <1>5. ASSUME NEW n \in ns
        PROVE  /\ Cardinality(Below(ns, n)) + 1 \in 1 .. c
               /\ rows[Cardinality(Below(ns, n)) + 1] = RowAt(h, n)
    <2>1. PICK i : i = Cardinality(Below(ns, n)) + 1
      OBVIOUS
    <2>2. i \in 1 .. c /\ s[i] = n
      BY <1>2, <2>1
    <2>3. rows[i] = RowAt(h, n)
      BY <1>4, <2>2
    <2>4. QED
      BY <2>1, <2>2, <2>3
  <1>6. DOMAIN rows = 1 .. c
    BY <1>3
  <1>7. QED
    BY <1>1, <1>2, <1>5, <1>6

\* So are the rows left.
LEMMA LeftType ==
    ASSUME NEW h, IsHistory(h), NEW b
    PROVE  Left(h, b) \in SUBSET Nat /\ IsFiniteSet(Left(h, b))
  <1>1. Len(h) \in Nat
    BY LenType
  <1>2. Left(h, b) \in SUBSET (1 .. Len(h))
    BY DEF Left
  <1>3. IsFiniteSet(1 .. Len(h))
    BY <1>1, FS_Interval
  <1>4. QED
    BY <1>2, <1>3, FS_Subset

\* Nothing has been seen at the boundary.
LEMMA AtBoundary ==
    ASSUME NEW h, WellFormed(h), NEW b, Boundary(h, b)
    PROVE  After(Start, h, b, b)
  <1>1. IsHistory(h)
    BY DEF WellFormed
  <1>2. b \in Nat
    BY <1>1, LenType DEF Boundary
  <1>3. Done(h, b, b) = {}
    <2>1. ASSUME NEW m \in Done(h, b, b)
          PROVE  FALSE
      <3>1. m \in SpellsOf(h) /\ SpellEnd(h, m) > b /\ SpellEnd(h, m) <= b
        BY <2>1 DEF Done, ToldSpells
      <3>2. SpellEnd(h, m) \in Nat
        BY <1>1, <3>1, SpellFacts
      <3>3. QED
        BY <1>2, <3>1, <3>2
    <2>2. QED
      BY <2>1
  <1>4. EpisodesOf(h, {}) = <<>>
    <2>1. Cardinality({}) = 0
      BY FS_EmptySet
    <2>2. QED
      BY <2>1 DEF EpisodesOf
  <1>5. OpenAt(None, h, b)
    <2>1. ASSUME NEW m \in SpellsOf(h), Going(h, m, b)
          PROVE  FALSE
      <3>1. PICK j \in ToldIn(h, m) : j <= b
        BY <2>1 DEF Going, Heard
      <3>2. SpellEnd(h, m) <= b /\ b < SpellEnd(h, m)
        BY <2>1, <3>1 DEF Boundary, Going
      <3>3. SpellEnd(h, m) \in Nat
        BY <1>1, SpellFacts
      <3>4. QED
        BY <1>2, <3>2, <3>3
    <2>2. QED
      BY <2>1 DEF OpenAt
  <1>6. QED
    BY <1>3, <1>4, <1>5, Zenon DEF After, Start

\* The walk over the rows left after a boundary, line by line.
LEMMA AlongLines ==
    ASSUME NEW k, NEW h, h = hist[k], WellFormed(h), NEW b, Boundary(h, b)
    PROVE  After(FoldLeft(Walk, Start, RowsOf(k, Left(h, b))), h, b, Len(h))
  <1>1. IsHistory(h)
    BY DEF WellFormed
  <1>2. PICK L : L = Len(h) /\ L \in Nat
    BY <1>1, LenType
  <1>3. b \in 0 .. L
    BY <1>2 DEF Boundary
  <1>4. PICK ns : ns = Left(h, b)
    OBVIOUS
  <1>5. ns \in SUBSET Nat /\ IsFiniteSet(ns) /\ \A n \in ns : n \in b + 1 .. L
    <2>1. ns \in SUBSET Nat /\ IsFiniteSet(ns)
      BY <1>1, <1>4, LeftType
    <2>2. \A n \in ns : n \in 1 .. L /\ n > b
      BY <1>2, <1>4 DEF Left
    <2>3. b \in Nat
      BY <1>3
    <2>4. \A n \in ns : n \in b + 1 .. L
      BY <1>2, <2>2, <2>3
    <2>5. QED
      BY <2>1, <2>4
  <1>6. PICK rows, N : rows = RowsOf(k, ns) /\ N = Cardinality(ns)
    OBVIOUS
  <1>7. PICK place : place = [n \in 0 .. L + 1 |-> Cardinality(Below(ns, n))]
    OBVIOUS
  <1>8. /\ N \in Nat /\ DOMAIN rows = 1 .. N
        /\ \A n \in ns : place[n] + 1 \in 1 .. N /\ rows[place[n] + 1] = RowAt(h, n)
    <2>1. /\ N \in Nat /\ DOMAIN rows = 1 .. N
          /\ \A n \in ns : /\ Cardinality(Below(ns, n)) + 1 \in 1 .. N
                           /\ rows[Cardinality(Below(ns, n)) + 1] = RowAt(h, n)
      BY <1>5, <1>6, RowsAre
    <2>2. ASSUME NEW n \in ns
          PROVE  place[n] = Cardinality(Below(ns, n))
      <3>1. n \in b + 1 .. L /\ b \in Nat
        BY <1>3, <1>5
      <3>2. n \in 0 .. L + 1
        BY <1>2, <3>1
      <3>3. QED
        BY <1>7, <3>2
    <2>3. QED
      BY <2>1, <2>2
  <1>9. place[b + 1] = 0
    <2>1. ASSUME NEW n \in ns
          PROVE  ~ (n < b + 1)
      <3>1. n \in b + 1 .. L /\ b \in Nat
        BY <1>3, <1>5
      <3>2. QED
        BY <1>2, <3>1
    <2>2. Below(ns, b + 1) = {}
      BY <2>1 DEF Below
    <2>3. b + 1 \in 0 .. L + 1
      BY <1>2, <1>3
    <2>4. QED
      BY <1>7, <2>2, <2>3, FS_EmptySet
  <1>10. place[L + 1] = N
    <2>1. ASSUME NEW n \in ns
          PROVE  n < L + 1
      <3>1. n \in b + 1 .. L /\ b \in Nat
        BY <1>3, <1>5
      <3>2. QED
        BY <1>2, <3>1
    <2>2. Below(ns, L + 1) = ns
      BY <2>1 DEF Below
    <2>3. L + 1 \in 0 .. L + 1
      BY <1>2
    <2>4. QED
      BY <1>6, <1>7, <2>2, <2>3
  <1>11. ASSUME NEW n \in b + 1 .. L
         PROVE  place[n + 1] = IF n \in ns THEN place[n] + 1 ELSE place[n]
    <2>1. n \in 0 .. L + 1 /\ n + 1 \in 0 .. L + 1 /\ n \in Nat
      BY <1>2, <1>3
    <2>2. place[n] = Cardinality(Below(ns, n)) /\ place[n + 1] = Cardinality(Below(ns, n + 1))
      BY <1>7, <2>1
    <2>3. \A x \in ns : x < n + 1 <=> x < n \/ x = n
      BY <1>5, <2>1
    <2>4. CASE n \in ns
      <3>1. Below(ns, n + 1) = Below(ns, n) \cup {n}
        BY <2>3, <2>4 DEF Below
      <3>2. n \notin Below(ns, n)
        BY <2>1 DEF Below
      <3>3. IsFiniteSet(Below(ns, n))
        <4>1. Below(ns, n) \in SUBSET ns
          BY DEF Below
        <4>2. QED
          BY <1>5, <4>1, FS_Subset
      <3>4. Cardinality(Below(ns, n) \cup {n}) = Cardinality(Below(ns, n)) + 1
        BY <3>2, <3>3, FS_AddElement
      <3>5. QED
        BY <2>2, <2>4, <3>1, <3>4
    <2>5. CASE n \notin ns
      <3>1. Below(ns, n + 1) = Below(ns, n)
        BY <2>3, <2>5 DEF Below
      <3>2. QED
        BY <2>2, <2>5, <3>1
    <2>6. QED
      BY <2>4, <2>5
  <1>12. PICK w : IsTrace("walk", w, rows, 1 .. N, N)
    BY <1>8, TraceExists
  <1>13. FoldLeft(Walk, Start, rows) = w[N]
    BY <1>8, <1>12, WalkIsTrace
  <1> DEFINE Bad == {n \in b .. L : ~ After(w[place[n + 1]], h, b, n)}
  <1>14. Bad = {}
    <2> SUFFICES ASSUME Bad # {} PROVE FALSE
      OBVIOUS
    <2>1. Bad \in SUBSET Nat
      BY <1>3
    <2>2. PICK n \in Bad : \A i \in Bad : n <= i
      BY <2>1, LeastOf
    <2>3. n # b
      <3>1. w[0] = Start
        BY <1>12 DEF IsTrace, Begun
      <3>2. After(w[place[b + 1]], h, b, b)
        BY <1>9, <3>1, AtBoundary
      <3>3. QED
        BY <3>2
    <2>4. n \in b + 1 .. L /\ n \in 1 .. L /\ n > b /\ n - 1 \in b .. L
      BY <1>2, <1>3, <2>3
    <2>5. n - 1 \notin Bad
      BY <2>2, <2>4
    <2>6. n - 1 + 1 = n
      BY <2>4
    <2>7. After(w[place[n]], h, b, n - 1)
      BY <2>4, <2>5, <2>6
    <2>8. ~ After(w[place[n + 1]], h, b, n)
      OBVIOUS
    <2> HIDE DEF Bad
    <2>9. PICK acc : acc = w[place[n]]
      OBVIOUS
    <2>10. /\ n \in ns => After(Walk(acc, RowAt(h, n)), h, b, n)
           /\ n \notin ns => After(acc, h, b, n)
      BY <1>2, <1>4, <2>4, <2>7, <2>9, OneLine
    <2>11. CASE n \in ns
      <3>1. PICK i : i = place[n] + 1
        OBVIOUS
      <3>2. i \in 1 .. N /\ rows[i] = RowAt(h, n) /\ place[n + 1] = i
        BY <1>8, <1>11, <2>4, <2>11, <3>1
      <3>3. place[n] \in Int /\ i - 1 = place[n]
        <4>1. Cardinality(Below(ns, n)) \in Nat
          <5>1. Below(ns, n) \in SUBSET ns
            BY DEF Below
          <5>2. QED
            BY <1>5, <5>1, FS_Subset, FS_CardinalityType
        <4>2. n \in 0 .. L + 1
          BY <1>2, <2>4
        <4>3. place[n] \in Nat
          BY <1>7, <4>1, <4>2
        <4>4. QED
          BY <3>1, <4>3
      <3>4. w[i] = Walk(w[i - 1], rows[i])
        BY <1>12, <3>2 DEF IsTrace, Turn
      <3>5. w[i] = Walk(acc, RowAt(h, n))
        BY <2>9, <3>2, <3>3, <3>4, Zenon
      <3>6. QED
        BY <2>8, <2>10, <2>11, <3>2, <3>5
    <2>12. CASE n \notin ns
      <3>1. place[n + 1] = place[n]
        BY <1>11, <2>4, <2>12
      <3>2. QED
        BY <2>8, <2>9, <2>10, <2>12, <3>1
    <2>13. QED
      BY <2>11, <2>12
  <1>15. After(w[place[L + 1]], h, b, L)
    BY <1>2, <1>3, <1>14
  <1>16. QED
    BY <1>2, <1>4, <1>6, <1>10, <1>13, <1>15, Zenon

\* What History reads from the rows left after a boundary: the episodes of
\* the spells told of that go on after it, in order.
LEMMA EpisodesFrom ==
    ASSUME NEW k, NEW h, h = hist[k], WellFormed(h), NEW b, Boundary(h, b)
    PROVE  build_episodes(RowsOf(k, Left(h, b)), clock) = EpisodesOf(h, Past(h, b))
  <1>1. IsHistory(h)
    BY DEF WellFormed
  <1>2. PICK L : L = Len(h) /\ L \in Nat
    BY <1>1, LenType
  <1>3. b \in Nat /\ b <= L
    BY <1>2 DEF Boundary
  <1>4. PICK acc : acc = FoldLeft(Walk, Start, RowsOf(k, Left(h, b)))
    OBVIOUS
  <1>5. After(acc, h, b, L)
    BY <1>2, <1>4, AlongLines
  <1>6. PICK D : D = Done(h, b, L)
    OBVIOUS
  <1>7. D \in SUBSET Nat /\ IsFiniteSet(D)
    BY <1>1, <1>6, DoneType
  <1>8. PICK done : done = EpisodesOf(h, D)
    OBVIOUS
  <1>9. PICK c : acc = [done |-> done, cur |-> c] /\ OpenAt(c, h, L)
    BY <1>5, <1>6, <1>8, Zenon DEF After
  <1>10. acc.done = done /\ acc.cur = c
    BY <1>9
  <1>11. build_episodes(RowsOf(k, Left(h, b)), clock) =
            IF c = None THEN done ELSE Append(done, StillOpen(c, clock))
    BY <1>4, <1>10, Zenon DEF build_episodes, Start
  <1>12. ASSUME NEW m \in SpellsOf(h)
         PROVE  /\ m \in Nat /\ SpellEnd(h, m) \in Nat /\ m < SpellEnd(h, m)
                /\ SpellEnd(h, m) <= L \/ SpellEnd(h, m) = L + 1
                /\ SpellEnd(h, m) = L + 1 => m <= L /\ Heard(h, m, L) = ToldIn(h, m)
    <2>1. /\ m \in Nat /\ SpellEnd(h, m) \in Nat /\ m < SpellEnd(h, m)
          /\ SpellEnd(h, m) <= L + 1 /\ m \in 1 .. L
          /\ \A n \in ToldIn(h, m) : n \in Nat /\ n < SpellEnd(h, m)
      BY <1>1, <1>2, SpellFacts
    <2>2. PICK e : e = SpellEnd(h, m)
      OBVIOUS
    <2>3. e <= L \/ e = L + 1
      BY <1>2, <2>1, <2>2
    <2>4. ASSUME e = L + 1
          PROVE  Heard(h, m, L) = ToldIn(h, m)
      <3>1. \A n \in ToldIn(h, m) : n <= L
        BY <1>2, <2>1, <2>2, <2>4
      <3>2. QED
        BY <3>1 DEF Heard
    <2>5. m <= L
      BY <2>1, <1>2
    <2>6. QED
      BY <2>1, <2>2, <2>3, <2>4, <2>5
  <1>13. CASE \E m \in SpellsOf(h) : Going(h, m, L)
    <2>1. PICK m \in SpellsOf(h) : Going(h, m, L)
      BY <1>13
    <2>2. /\ m \in Nat /\ SpellEnd(h, m) = L + 1 /\ Heard(h, m, L) = ToldIn(h, m)
          /\ ToldIn(h, m) # {}
      BY <1>2, <1>12, <2>1 DEF Going
    <2>3. c = Partial(h, ToldIn(h, m))
      BY <1>9, <2>1, <2>2 DEF OpenAt
    <2>4. c # None
      <3>1. ToldIn(h, m) \in SUBSET (1 .. Len(h))
        BY <1>1, SpellFacts
      <3>2. QED
        BY <1>1, <2>2, <2>3, <3>1, PartialIsSome
    <2>5. StillOpen(c, clock) = EpisodeOfSpell(h, m)
      BY <1>2, <2>2, <2>3, SpellRuns
    <2>6. ASSUME NEW p \in SpellsOf(h)
          PROVE  /\ SpellEnd(h, p) <= L => p < m
                 /\ SpellEnd(h, p) = L + 1 => p = m
      <3>1. /\ p < m <=> SpellEnd(h, p) < SpellEnd(h, m)
            /\ m < p <=> SpellEnd(h, m) < SpellEnd(h, p)
        BY <1>1, EndsInOrder
      <3>2. p \in Nat /\ SpellEnd(h, p) \in Nat
        BY <1>12
      <3>3. QED
        BY <1>2, <2>2, <3>1, <3>2
    <2>7. \A x \in D : x < m
      BY <1>6, <2>6 DEF Done, ToldSpells
    <2>8. Past(h, b) = D \cup {m}
      <3>1. m \in Past(h, b)
        BY <1>2, <1>3, <2>2 DEF Past, ToldSpells
      <3>2. \A p \in SpellsOf(h) : SpellEnd(h, p) <= L \/ p = m
        BY <1>12, <2>6
      <3>3. \A p : p \in Past(h, b) <=> p \in D \/ p = m
        BY <1>6, <3>1, <3>2 DEF Past, Done, ToldSpells
      <3>4. QED
        BY <3>3
    <2>9. Append(done, EpisodeOfSpell(h, m)) = EpisodesOf(h, D \cup {m})
      BY <1>7, <1>8, <2>2, <2>7, EpisodeAppended
    <2>10. build_episodes(RowsOf(k, Left(h, b)), clock) = Append(done, StillOpen(c, clock))
      BY <1>11, <2>4, Zenon
    <2>11. QED
      BY <2>5, <2>8, <2>9, <2>10, Zenon
  <1>14. CASE ~ \E m \in SpellsOf(h) : Going(h, m, L)
    <2>1. c = None
      BY <1>9, <1>14 DEF OpenAt
    <2>2. ASSUME NEW p \in ToldSpells(h)
          PROVE  SpellEnd(h, p) <= L
      <3>1. p \in SpellsOf(h) /\ ToldIn(h, p) # {} /\ ~ Going(h, p, L)
        BY <1>14 DEF ToldSpells
      <3>2. SpellEnd(h, p) = L + 1 => FALSE
        BY <1>2, <1>12, <3>1 DEF Going
      <3>3. QED
        BY <1>12, <3>1, <3>2
    <2>3. Past(h, b) = D
      BY <1>6, <2>2 DEF Past, Done
    <2>4. QED
      BY <1>8, <1>11, <2>1, <2>3, Zenon
  <1>15. QED
    BY <1>13, <1>14

-----------------------------------------------------------------------------
(* The checks write well-formed histories.                                 *)

\* OpenSince finds the spell that is not over.
LEMMA OpenSinceIs ==
    ASSUME NEW h, IsHistory(h), NEW m \in SpellsOf(h), SpellEnd(h, m) = Len(h) + 1
    PROVE  OpenSince(h) = h[m].at
  <1>1. Len(h) \in Nat /\ m \in 1 .. Len(h)
    BY SpellFacts
  <1>2. \A n \in m .. Len(h) : h[n].phase # "oos"
    <2>1. \A n \in m .. Len(h) : n \in Nat /\ m <= n /\ n < Len(h) + 1
      BY <1>1
    <2>2. QED
      BY <2>1, SpellFacts
  <1>3. Running(h, m)
    BY <1>2 DEF Running, SpellsOf
  <1>4. ASSUME NEW p \in 1 .. Len(h), Running(h, p)
        PROVE  p = m
    <2>1. \A n \in p .. Len(h) : h[n].phase # "oos"
      BY <1>4 DEF Running
    <2>2. p \in p .. Len(h) /\ p \in Nat
      BY <1>1
    <2>3. p \in SpellsOf(h)
      BY <1>4, <2>1, <2>2 DEF Running, SpellsOf
    <2>4. PICK e : e = SpellEnd(h, p)
      OBVIOUS
    <2>5. e \in p .. Len(h) + 1 /\ (e <= Len(h) => h[e].phase = "oos")
      BY <2>4, SpellEndIs
    <2>6. Len(h) < e
      BY <1>1, <2>1, <2>2, <2>5
    <2>7. p <= Len(h) /\ m <= Len(h) /\ Len(h) < SpellEnd(h, m)
      BY <1>1, <2>2
    <2>8. QED
      BY <1>1, <2>3, <2>4, <2>6, <2>7, OneSpellAtATime
  <1>5. (CHOOSE p \in 1 .. Len(h) : Running(h, p)) = m
    BY <1>1, <1>3, <1>4
  <1>6. QED
    BY <1>5 DEF OpenSince

\* What a product shows is what its last line says.
LEMMA LastPhase ==
    ASSUME NEW h, IsHistory(h), Len(h) # 0
    PROVE  /\ Shown(h).phase = h[Len(h)].phase
           /\ Len(h) \in 1 .. Len(h)
  <1>1. h # <<>> /\ Len(h) \in Nat
    BY LenType
  <1>2. QED
    BY <1>1 DEF Shown

\* A line the ledger may settle next.
LEMMA NewLine ==
    ASSUME NEW h, WellFormed(h), NEW t \in Nat, \A n \in 1 .. Len(h) : h[n].ts < t,
           NEW u \in Nat, t <= u, NEW blank, NEW line \in Lines(h, t, u, blank)
    PROVE  /\ line \in Entry /\ line.at = t /\ line.ts = u
           /\ Len(h) = 0 => line.kind \in FirstKinds
           /\ Len(h) # 0 => line.kind = KindOf(line.phase) /\ line.phase # h[Len(h)].phase
           /\ \A m \in SpellsOf(h) :
                 SpellEnd(h, m) = Len(h) + 1 /\ line.phase = "oos" =>
                    line.secs = line.at - h[m].at
  <1>1. IsHistory(h) /\ Len(h) \in Nat
    BY LenType DEF WellFormed
  <1>2. CASE Len(h) = 0
    <2>1. h = <<>>
      BY <1>1, <1>2 DEF IsHistory
    <2>2. line \in FirstLines(t, u, blank)
      BY <2>1 DEF Lines
    <2>3. line.kind \in FirstKinds /\ line.at = t /\ line.ts = u /\ line \in Entry
      BY <2>2 DEF FirstLines, FirstKinds, Entry, StockPhases
    <2>4. SpellsOf(h) = {}
      BY <1>2 DEF SpellsOf
    <2>5. QED
      BY <1>2, <2>3, <2>4
  <1>3. CASE Len(h) # 0
    <2>1. h # <<>>
      BY <1>3
    <2>2. line \in MoveLines(h, t, u)
      BY <2>1 DEF Lines
    <2>3. PICK p \in StockPhases \ {Shown(h).phase} :
             line = [kind |-> KindOf(p), phase |-> p, at |-> t, ts |-> u,
                     secs |-> IF p = "oos" THEN t - OpenSince(h) ELSE None]
      BY <2>2 DEF MoveLines
    <2>4. /\ line.kind = KindOf(p) /\ line.phase = p /\ line.at = t /\ line.ts = u
          /\ line.secs = IF p = "oos" THEN t - OpenSince(h) ELSE None
      BY <2>3
    <2>5. p # h[Len(h)].phase
      BY <1>1, <1>3, LastPhase
    <2>6. ASSUME NEW m \in SpellsOf(h), SpellEnd(h, m) = Len(h) + 1, p = "oos"
          PROVE  line.secs = t - h[m].at
      BY <1>1, <2>4, <2>6, OpenSinceIs
    <2>7. line.secs \in Nat \cup {None}
      <3>1. CASE p = "oos"
        <4>1. PICK m \in SpellsOf(h) : m <= Len(h) /\ Len(h) < SpellEnd(h, m)
          BY <1>1, <1>3, <2>5, <3>1, LastPhase, SomeSpell
        <4>2. SpellEnd(h, m) = Len(h) + 1 /\ m \in 1 .. Len(h)
          <5>1. SpellEnd(h, m) \in Nat /\ SpellEnd(h, m) <= Len(h) + 1 /\ m \in 1 .. Len(h)
            BY <1>1, SpellFacts
          <5>2. QED
            BY <1>1, <4>1, <5>1
        <4>3. h[m].at \in Nat /\ h[m].at < t
          <5>1. h[m].at \in Nat /\ h[m].ts \in Nat /\ h[m].ts < t
            BY <1>1, <4>2, LineTypes
          <5>2. h[m].at <= h[m].ts
            BY <4>2 DEF WellFormed
          <5>3. QED
            BY <5>1, <5>2
        <4>4. line.secs = t - h[m].at
          BY <2>6, <3>1, <4>2
        <4>5. QED
          BY <4>3, <4>4
      <3>2. CASE p # "oos"
        BY <2>4, <3>2
      <3>3. QED
        BY <3>1, <3>2
    <2>8. KindOf(p) \in {"early_access", "public", "oos"} /\ p \in StockPhases
      BY DEF KindOf, StockPhases
    <2>9. line \in Entry
      <3>1. PICK kind, secs : kind = line.kind /\ secs = line.secs
        OBVIOUS
      <3>2. line = [kind |-> kind, phase |-> p, at |-> t, ts |-> u, secs |-> secs]
        BY <2>3, <2>4, <3>1, Zenon
      <3>3. kind \in {"early_access", "public", "oos"} /\ secs \in Nat \cup {None}
        BY <2>4, <2>7, <2>8, <3>1
      <3>4. QED
        BY <2>8, <3>2, <3>3 DEF Entry
    <2>10. QED
      BY <1>3, <2>4, <2>5, <2>6, <2>9
  <1>4. QED
    BY <1>2, <1>3

\* g is h and one more line.
Extends(g, h, line) ==
    /\ IsHistory(g) /\ Len(g) = Len(h) + 1
    /\ \A n \in 1 .. Len(h) : g[n] = h[n]
    /\ g[Len(h) + 1] = line

\* A check writes one line after the others.
LEMMA AppendExtends ==
    ASSUME NEW h, IsHistory(h), NEW line \in Entry
    PROVE  Extends(Append(h, line), h, line)
  <1>1. h \in Seq(Entry)
    BY DEF IsHistory
  <1>2. /\ Append(h, line) \in Seq(Entry)
        /\ Len(Append(h, line)) = Len(h) + 1
        /\ \A n \in 1 .. Len(h) : Append(h, line)[n] = h[n]
        /\ Append(h, line)[Len(h) + 1] = line
    BY <1>1
  <1>3. QED
    BY <1>2 DEF Extends, IsHistory

\* One more line leaves the spells as they are: a spell that was on goes on
\* or ends there, and a new one may open.
LEMMA SpellsGrow ==
    ASSUME NEW h, IsHistory(h), NEW g, NEW line, Extends(g, h, line)
    PROVE  /\ \A m \in SpellsOf(g) : m <= Len(h) => m \in SpellsOf(h)
           /\ \A m \in SpellsOf(h) :
                 /\ m \in SpellsOf(g)
                 /\ SpellEnd(h, m) <= Len(h) => SpellEnd(g, m) = SpellEnd(h, m)
                 /\ SpellEnd(h, m) > Len(h) => SpellEnd(g, m) > Len(h)
           /\ \A m \in SpellsOf(h) : \A j \in 1 .. Len(h) :
                 j \in ToldIn(g, m) <=> j \in ToldIn(h, m)
  <1>1. PICK L : L = Len(h) /\ L \in Nat
    BY LenType
  <1>2. IsHistory(g) /\ Len(g) = L + 1 /\ \A n \in 1 .. L : g[n] = h[n]
    BY <1>1 DEF Extends
  <1>3. ASSUME NEW m \in SpellsOf(g), m <= L
        PROVE  m \in SpellsOf(h)
    <2>1. m \in 1 .. L + 1 /\ g[m].phase # "oos" /\ (m > 1 => g[m - 1].phase = "oos")
      BY <1>2 DEF SpellsOf
    <2>2. m \in 1 .. L
      BY <1>1, <1>3, <2>1
    <2>3. g[m] = h[m]
      BY <1>2, <2>2
    <2>4. ASSUME m > 1 PROVE g[m - 1] = h[m - 1]
      <3>1. m - 1 \in 1 .. L
        BY <1>1, <2>2, <2>4
      <3>2. QED
        BY <1>2, <3>1
    <2>5. QED
      BY <1>1, <2>1, <2>2, <2>3, <2>4 DEF SpellsOf
  <1>4. ASSUME NEW m \in SpellsOf(h)
        PROVE  /\ m \in SpellsOf(g)
               /\ SpellEnd(h, m) <= L => SpellEnd(g, m) = SpellEnd(h, m)
               /\ SpellEnd(h, m) > L => SpellEnd(g, m) > L
               /\ \A j \in 1 .. L : j \in ToldIn(g, m) <=> j \in ToldIn(h, m)
    <2>1. m \in 1 .. L /\ h[m].phase # "oos" /\ (m > 1 => h[m - 1].phase = "oos")
      BY <1>1 DEF SpellsOf
    <2>2. m \in 1 .. L + 1 /\ g[m] = h[m]
      BY <1>1, <1>2, <2>1
    <2>3. ASSUME m > 1 PROVE g[m - 1] = h[m - 1]
      <3>1. m - 1 \in 1 .. L
        BY <1>1, <2>1, <2>3
      <3>2. QED
        BY <1>2, <3>1
    <2>4. m \in SpellsOf(g)
      BY <1>2, <2>1, <2>2, <2>3 DEF SpellsOf
    <2>5. PICK d, e : d = SpellEnd(h, m) /\ e = SpellEnd(g, m)
      OBVIOUS
    <2>6. /\ d \in m .. L + 1 /\ (d <= L => h[d].phase = "oos")
          /\ \A n \in m .. d - 1 : h[n].phase # "oos"
      BY <1>1, <2>1, <2>5, SpellEndIs
    <2>7. /\ e \in m .. L + 1 + 1 /\ (e <= L + 1 => g[e].phase = "oos")
          /\ \A n \in m .. e - 1 : g[n].phase # "oos"
      BY <1>2, <2>2, <2>5, SpellEndIs
    <2>8. ASSUME d <= L PROVE e = d
      <3>1. d \in 1 .. L
        BY <1>1, <2>1, <2>6, <2>8
      <3>2. g[d].phase = "oos"
        BY <1>2, <2>6, <2>8, <3>1
      <3>3. ~ (d < e)
        BY <2>6, <2>7, <3>2
      <3>4. SUFFICES ASSUME e < d PROVE FALSE
        BY <1>1, <2>1, <2>6, <2>7, <3>3
      <3>5. e \in 1 .. L /\ e \in m .. d - 1 /\ e <= L + 1
        BY <1>1, <2>1, <2>7, <3>1, <3>4
      <3>6. QED
        BY <1>2, <2>6, <2>7, <3>5
    <2>9. ASSUME d > L PROVE e > L
      <3>1. SUFFICES ASSUME e <= L PROVE FALSE
        BY <1>1, <2>1, <2>7
      <3>2. e \in 1 .. L /\ e \in m .. d - 1 /\ e <= L + 1
        BY <1>1, <2>1, <2>6, <2>7, <2>9, <3>1
      <3>3. QED
        BY <1>2, <2>6, <2>7, <3>2
    <2>10. ASSUME NEW j \in 1 .. L
           PROVE  j \in ToldIn(g, m) <=> j \in ToldIn(h, m)
      <3>1. j < d <=> j < e
        BY <1>1, <2>1, <2>6, <2>7, <2>8, <2>9
      <3>2. g[j] = h[j]
        BY <1>2
      <3>3. /\ j \in ToldIn(g, m) <=> /\ j \in Nat /\ m <= j /\ j < e
                                      /\ g[j].kind \in TellingKinds
            /\ j \in ToldIn(h, m) <=> /\ j \in Nat /\ m <= j /\ j < d
                                      /\ h[j].kind \in TellingKinds
        BY <1>2, <2>4, <2>5, SpellFacts
      <3>4. QED
        BY <3>1, <3>2, <3>3
    <2>11. QED
      BY <2>4, <2>5, <2>8, <2>9, <2>10
  <1>5. QED
    BY <1>1, <1>3, <1>4

\* A settled line keeps the history well-formed.
LEMMA StaysWellFormed ==
    ASSUME NEW h, WellFormed(h), NEW t \in Nat, \A n \in 1 .. Len(h) : h[n].ts < t,
           NEW u \in Nat, t <= u, NEW blank, NEW line \in Lines(h, t, u, blank)
    PROVE  /\ WellFormed(Append(h, line)) /\ Extends(Append(h, line), h, line)
           /\ line.ts = u
  <1>1. PICK L : L = Len(h) /\ L \in Nat
    BY LenType DEF WellFormed
  <1>2. /\ line \in Entry /\ line.at = t /\ line.ts = u
        /\ L = 0 => line.kind \in FirstKinds
        /\ L # 0 => line.kind = KindOf(line.phase) /\ line.phase # h[L].phase
        /\ \A m \in SpellsOf(h) : SpellEnd(h, m) = L + 1 /\ line.phase = "oos" =>
              line.secs = line.at - h[m].at
    BY <1>1, NewLine
  <1>3. IsHistory(h)
    BY DEF WellFormed
  <1>4. PICK g : g = Append(h, line)
    OBVIOUS
  <1>5. Extends(g, h, line)
    BY <1>2, <1>3, <1>4, AppendExtends
  <1>6. /\ IsHistory(g) /\ Len(g) = L + 1 /\ g[L + 1] = line
        /\ \A n \in 1 .. L : g[n] = h[n]
    BY <1>1, <1>5 DEF Extends
  <1>7. ASSUME NEW i \in 1 .. L + 1, NEW j \in 1 .. L + 1, i < j
        PROVE  g[i].ts < g[j].at /\ g[i].ts < g[j].ts
    <2>1. i \in 1 .. L /\ g[i] = h[i]
      BY <1>1, <1>6, <1>7
    <2>2. CASE j = L + 1
      <3>1. h[i].ts < t /\ h[i].ts \in Nat
        BY <1>1, <1>3, <2>1, LineTypes
      <3>2. QED
        BY <1>1, <1>2, <1>6, <2>1, <2>2, <3>1
    <2>3. CASE j # L + 1
      <3>1. j \in 1 .. L /\ g[j] = h[j]
        BY <1>1, <1>6, <2>3
      <3>2. QED
        BY <1>1, <1>7, <2>1, <3>1 DEF WellFormed
    <2>4. QED
      BY <2>2, <2>3
  <1>8. ASSUME NEW n \in 1 .. L + 1
        PROVE  IF n = 1 THEN g[n].kind \in FirstKinds
               ELSE g[n].kind = KindOf(g[n].phase) /\ g[n].phase # g[n - 1].phase
    <2>1. CASE n = L + 1
      <3>1. CASE n = 1
        BY <1>1, <1>2, <1>6, <2>1, <3>1
      <3>2. CASE n # 1
        <4>1. L # 0 /\ L \in 1 .. L /\ n - 1 = L
          BY <1>1, <2>1, <3>2
        <4>2. g[n - 1] = h[L]
          BY <1>6, <4>1
        <4>3. QED
          BY <1>2, <1>6, <2>1, <3>2, <4>1, <4>2
      <3>3. QED
        BY <3>1, <3>2
    <2>2. CASE n # L + 1
      <3>1. n \in 1 .. L /\ g[n] = h[n]
        BY <1>1, <1>6, <2>2
      <3>2. n # 1 => g[n - 1] = h[n - 1]
        <4>1. n # 1 => n - 1 \in 1 .. L
          BY <1>1, <3>1
        <4>2. QED
          BY <1>6, <4>1
      <3>3. IF n = 1 THEN h[n].kind \in FirstKinds
            ELSE h[n].kind = KindOf(h[n].phase) /\ h[n].phase # h[n - 1].phase
        BY <1>1, <3>1 DEF WellFormed
      <3>4. QED
        BY <3>1, <3>2, <3>3
    <2>3. QED
      BY <2>1, <2>2
  <1>9. ASSUME NEW n \in 1 .. L + 1, NEW m \in SpellsOf(g), SpellEnd(g, m) = n
        PROVE  g[n].secs = g[n].at - g[m].at
    <2>1. m \in Nat /\ m < n /\ m \in 1 .. L + 1 /\ g[n].phase = "oos"
      <3>1. n <= Len(g)
        BY <1>1, <1>6
      <3>2. QED
        BY <1>6, <1>9, <3>1, SpellFacts
    <2>2. m \in 1 .. L
      BY <1>1, <2>1
    <2>3. m \in SpellsOf(h) /\ g[m] = h[m]
      BY <1>1, <1>3, <1>5, <1>6, <2>2, SpellsGrow
    <2>4. PICK d : d = SpellEnd(h, m)
      OBVIOUS
    <2>5. d \in Nat /\ d <= L + 1 /\ (d <= L => n = d) /\ (d > L => n > L)
      <3>1. /\ d <= L => n = d
            /\ d > L => n > L
        BY <1>1, <1>3, <1>5, <1>9, <2>3, <2>4, SpellsGrow
      <3>2. d \in Nat /\ d <= L + 1
        BY <1>1, <1>3, <2>3, <2>4, SpellFacts
      <3>3. QED
        BY <3>1, <3>2
    <2>6. CASE d <= L
      <3>1. n = d /\ n \in 1 .. L /\ g[n] = h[n]
        BY <1>1, <1>6, <2>5, <2>6
      <3>2. h[n].secs = h[n].at - h[m].at
        BY <1>1, <2>3, <2>4, <3>1 DEF WellFormed
      <3>3. QED
        BY <2>3, <3>1, <3>2
    <2>7. CASE d > L
      <3>1. d = L + 1 /\ n = L + 1
        BY <1>1, <2>5, <2>7
      <3>2. g[n] = line /\ line.phase = "oos"
        BY <1>6, <2>1, <3>1
      <3>3. line.secs = line.at - h[m].at
        BY <1>2, <2>3, <2>4, <3>1, <3>2
      <3>4. QED
        BY <2>3, <3>2, <3>3
    <2>8. QED
      BY <1>1, <2>5, <2>6, <2>7
  <1>12. ASSUME NEW n \in 1 .. L + 1
         PROVE  g[n].at <= g[n].ts
    <2>1. n = L + 1 \/ n \in 1 .. L
      BY <1>1
    <2>2. QED
      BY <1>1, <1>2, <1>6, <2>1 DEF WellFormed
  <1>10. WellFormed(g)
    BY <1>6, <1>7, <1>8, <1>9, <1>12 DEF WellFormed
  <1>11. QED
    BY <1>2, <1>4, <1>5, <1>10

-----------------------------------------------------------------------------
(* The invariant: what the sweep deletes of a product is always what lies  *)
(* before a boundary, and the boundary is where the cutoff puts it.        *)

\* What is before b ended before c; what is after b and ended, ended later.
Cut(h, b, c) ==
    /\ Boundary(h, b)
    /\ \A m \in ToldSpells(h) :
          /\ SpellEnd(h, m) <= b => h[SpellEnd(h, m)].ts < c
          /\ b < SpellEnd(h, m) /\ SpellEnd(h, m) <= Len(h) => h[SpellEnd(h, m)].ts >= c

\* The lines are those with a row up to the boundary of the cutoff c.
CutAt(k, lines, c) ==
    \E b \in 0 .. Len(hist[k]) :
        lines = Written(k) \cap (1 .. b) /\ Cut(hist[k], b, c)

HistoryInv ==
    /\ clock \in Nat
    /\ hist = [k \in Codes |-> hist[k]]
    /\ \A k \in Codes :
          WellFormed(hist[k]) /\ \A n \in 1 .. Len(hist[k]) : hist[k][n].ts <= clock

Swept == cut \in Int /\ cut <= clock /\ \A k \in Codes : CutAt(k, gone[k], cut)

\* So it will be when the sweep under way deletes what it selected.
Armed ==
    doomed.busy =>
        /\ doomed.cutoff \in Int /\ doomed.cutoff <= clock
        /\ \A k \in Codes : CutAt(k, gone[k] \cup doomed.rows[k], Later(cut, doomed.cutoff))

RecordInv == HistoryInv /\ Swept /\ Armed /\ days \in Nat

\* The lines a check settles are later than any boundary already drawn.
LEMMA CutGrows ==
    ASSUME NEW h, IsHistory(h), NEW g, NEW line, Extends(g, h, line),
           NEW b, NEW c \in Int, Cut(h, b, c), line.ts \in Nat, c <= line.ts
    PROVE  Cut(g, b, c)
  <1>1. PICK L : L = Len(h) /\ L \in Nat
    BY LenType
  <1>2. /\ IsHistory(g) /\ Len(g) = L + 1 /\ g[L + 1] = line
        /\ \A n \in 1 .. L : g[n] = h[n]
    BY <1>1 DEF Extends
  <1>3. b \in 0 .. L /\ b \in Nat /\ b <= L
    BY <1>1 DEF Cut, Boundary
  <1>4. ASSUME NEW m \in SpellsOf(g), SpellEnd(g, m) <= L
        PROVE  m \in SpellsOf(h) /\ SpellEnd(h, m) = SpellEnd(g, m)
               /\ \A j \in ToldIn(g, m) : j \in ToldIn(h, m)
               /\ g[SpellEnd(g, m)] = h[SpellEnd(h, m)]
    <2>1. PICK e : e = SpellEnd(g, m)
      OBVIOUS
    <2>2. /\ m \in Nat /\ e \in Nat /\ m < e /\ m \in 1 .. L + 1
          /\ \A j \in ToldIn(g, m) : j \in Nat /\ m <= j /\ j < e
      BY <1>2, <2>1, SpellFacts
    <2>3. m <= L /\ e \in 1 .. L
      BY <1>1, <1>4, <2>1, <2>2
    <2>4. m \in SpellsOf(h)
      BY <1>1, <2>3, SpellsGrow
    <2>5. SpellEnd(h, m) = e
      <3>1. SpellEnd(h, m) \in Nat
        BY <2>4, SpellFacts
      <3>2. /\ SpellEnd(h, m) <= L => e = SpellEnd(h, m)
            /\ SpellEnd(h, m) > L => e > L
        BY <1>1, <2>1, <2>4, SpellsGrow
      <3>3. QED
        BY <1>1, <2>3, <3>1, <3>2
    <2>6. ASSUME NEW j \in ToldIn(g, m)
          PROVE  j \in ToldIn(h, m)
      <3>1. j \in 1 .. L
        BY <1>1, <2>2, <2>3
      <3>2. QED
        BY <1>1, <2>4, <3>1, SpellsGrow
    <2>7. QED
      BY <1>2, <2>1, <2>3, <2>4, <2>5, <2>6
  <1>5. ASSUME NEW m \in SpellsOf(g), NEW j \in ToldIn(g, m), j <= b
        PROVE  SpellEnd(g, m) <= b
    <2>1. j \in Nat /\ m \in Nat /\ m <= j
      BY <1>2, SpellFacts
    <2>2. m <= L /\ j \in 1 .. L
      <3>1. m \in 1 .. L + 1
        BY <1>2, SpellFacts
      <3>2. QED
        BY <1>1, <1>3, <1>5, <2>1, <3>1
    <2>3. m \in SpellsOf(h) /\ j \in ToldIn(h, m)
      BY <1>1, <2>2, SpellsGrow
    <2>4. SpellEnd(h, m) <= b
      BY <1>5, <2>3 DEF Cut, Boundary
    <2>5. SpellEnd(h, m) \in Nat /\ SpellEnd(h, m) <= L
      <3>1. SpellEnd(h, m) \in Nat
        BY <2>3, SpellFacts
      <3>2. QED
        BY <1>1, <1>3, <2>4, <3>1
    <2>6. SpellEnd(g, m) = SpellEnd(h, m)
      BY <1>1, <2>3, <2>5, SpellsGrow
    <2>7. QED
      BY <2>4, <2>6
  <1>6. b \in 0 .. Len(g)
    BY <1>1, <1>2, <1>3
  <1>7. Boundary(g, b)
    BY <1>5, <1>6 DEF Boundary
  <1>8. ASSUME NEW m \in ToldSpells(g)
        PROVE  /\ SpellEnd(g, m) <= b => g[SpellEnd(g, m)].ts < c
               /\ b < SpellEnd(g, m) /\ SpellEnd(g, m) <= Len(g) => g[SpellEnd(g, m)].ts >= c
    <2>1. m \in SpellsOf(g) /\ ToldIn(g, m) # {}
      BY DEF ToldSpells
    <2>2. PICK e : e = SpellEnd(g, m)
      OBVIOUS
    <2>3. e \in Nat /\ e <= L + 1 + 1
      BY <1>2, <2>1, <2>2, SpellFacts
    <2>4. CASE e <= L
      <3>1. /\ m \in SpellsOf(h) /\ SpellEnd(h, m) = e /\ ToldIn(h, m) # {}
            /\ g[e] = h[e]
        BY <1>4, <2>1, <2>2, <2>4
      <3>2. m \in ToldSpells(h)
        BY <3>1 DEF ToldSpells
      <3>3. /\ e <= b => h[e].ts < c
            /\ b < e => h[e].ts >= c
        BY <1>1, <2>4, <3>1, <3>2 DEF Cut
      <3>4. QED
        BY <2>2, <3>1, <3>3
    <2>5. CASE e = L + 1
      <3>1. g[e].ts >= c /\ ~ (e <= b)
        BY <1>1, <1>2, <1>3, <2>5
      <3>2. QED
        BY <2>2, <3>1
    <2>6. CASE e = L + 1 + 1
      <3>1. ~ (e <= b) /\ ~ (e <= L + 1)
        BY <1>1, <1>3, <2>6
      <3>2. QED
        BY <1>2, <2>2, <3>1
    <2>7. QED
      BY <1>1, <2>3, <2>4, <2>5, <2>6
  <1>9. QED
    BY <1>7, <1>8 DEF Cut

\* The rows a sweep deletes stay the same when a line is added after them.
LEMMA CutAtGrows ==
    ASSUME NEW k, NEW k2, NEW lines, NEW c \in Int, CutAt(k, lines, c), HistoryInv,
           k \in Codes, c <= clock,
           hist'[k] = hist[k] \/ \E line : Extends(hist'[k], hist[k], line) /\ line.ts = clock
    PROVE  CutAt(k, lines, c)'
  <1>1. PICK b \in 0 .. Len(hist[k]) :
            lines = Written(k) \cap (1 .. b) /\ Cut(hist[k], b, c)
    BY DEF CutAt
  <1>2. CASE hist'[k] = hist[k]
    <2>1. Written(k)' = Written(k)
      BY <1>2 DEF Written
    <2>2. QED
      BY <1>1, <1>2, <2>1, Zenon DEF CutAt
  <1>3. CASE hist'[k] # hist[k]
    <2>1. PICK line : Extends(hist'[k], hist[k], line) /\ line.ts = clock
      BY <1>3
    <2>2. IsHistory(hist[k]) /\ clock \in Nat /\ line.ts \in Nat /\ c <= line.ts
      BY <2>1 DEF HistoryInv, WellFormed
    <2>3. PICK g, h : g = hist'[k] /\ h = hist[k]
      OBVIOUS
    <2>4. Cut(g, b, c)
      BY <1>1, <2>1, <2>2, <2>3, CutGrows
    <2>5. PICK L : L = Len(h) /\ L \in Nat
      BY <2>2, <2>3, LenType
    <2>6. Len(g) = L + 1 /\ \A n \in 1 .. L : g[n] = h[n]
      BY <2>1, <2>3, <2>5 DEF Extends
    <2>7. b \in 0 .. L
      BY <1>1, <2>3, <2>5
    <2>8. b \in 0 .. Len(g)
      BY <2>5, <2>6, <2>7
    <2>9. ASSUME NEW n \in 1 .. b
          PROVE  n \in Written(k)' <=> n \in Written(k)
      <3>1. n \in 1 .. L /\ n \in 1 .. L + 1
        BY <2>5, <2>7
      <3>2. QED
        BY <2>3, <2>5, <2>6, <3>1 DEF Written
    <2>10. lines = Written(k)' \cap (1 .. b)
      BY <1>1, <2>9
    <2>11. QED
      BY <2>3, <2>4, <2>8, <2>10 DEF CutAt
  <1>4. QED
    BY <1>2, <1>3

-----------------------------------------------------------------------------
(* What a sweep selects.                                                   *)

\* The spells told of that a boundary leaves are finitely many.
LEMMA PastType ==
    ASSUME NEW h, IsHistory(h), NEW b
    PROVE  /\ Past(h, b) \in SUBSET Nat /\ IsFiniteSet(Past(h, b))
           /\ \A m \in Past(h, b) : m \in ToldSpells(h) /\ m \in SpellsOf(h)
                                    /\ SpellEnd(h, m) > b
  <1>1. Len(h) \in Nat
    BY LenType
  <1>2. Past(h, b) \in SUBSET (1 .. Len(h))
    BY DEF Past, ToldSpells, SpellsOf
  <1>3. IsFiniteSet(1 .. Len(h))
    BY <1>1, FS_Interval
  <1>4. Past(h, b) \in SUBSET Nat /\ IsFiniteSet(Past(h, b))
    BY <1>2, <1>3, FS_Subset
  <1>5. QED
    BY <1>4 DEF Past, ToldSpells

\* The episodes of some spells are one for each.
LEMMA EpisodeSet ==
    ASSUME NEW h, NEW S \in SUBSET Nat, IsFiniteSet(S)
    PROVE  \A ep : ep \in ToSet(EpisodesOf(h, S)) <=> \E m \in S : ep = EpisodeOfSpell(h, m)
  <1>1. PICK s, n : s = Ascending(S) /\ n = Cardinality(S)
    OBVIOUS
  <1>2. /\ \A i \in 1 .. n : s[i] \in S
        /\ \A m \in S : \E i \in 1 .. n : s[i] = m
    BY <1>1, SortedNumbers
  <1>3. PICK q : q = EpisodesOf(h, S)
    OBVIOUS
  <1>4. DOMAIN q = 1 .. n /\ \A i \in 1 .. n : q[i] = EpisodeOfSpell(h, s[i])
    BY <1>1, <1>3 DEF EpisodesOf
  <1>5. \A ep : ep \in ToSet(q) <=> \E i \in 1 .. n : ep = q[i]
    BY <1>4 DEF ToSet
  <1>6. ASSUME NEW m \in S
        PROVE  \E i \in 1 .. n : EpisodeOfSpell(h, m) = q[i]
    <2>1. PICK i \in 1 .. n : s[i] = m
      BY <1>2
    <2>2. q[i] = EpisodeOfSpell(h, m)
      BY <1>4, <2>1, Zenon
    <2>3. QED
      BY <2>2
  <1>7. ASSUME NEW i \in 1 .. n
        PROVE  \E m \in S : q[i] = EpisodeOfSpell(h, m)
    BY <1>2, <1>4
  <1>8. QED
    BY <1>3, <1>5, <1>6, <1>7

\* A spell that goes on, or that ended at c or later.
Kept(h, m, c) == SpellEnd(h, m) > Len(h) \/ h[SpellEnd(h, m)].ts >= c

\* The times of the episode of a spell, read off its lines.
LEMMA EpisodeTimes ==
    ASSUME NEW h, WellFormed(h), NEW m \in ToldSpells(h)
    PROVE  /\ EpisodeOfSpell(h, m).started = h[Min(ToldIn(h, m))].ts
           /\ EpisodeOfSpell(h, m).started \in Nat
           /\ Min(ToldIn(h, m)) \in ToldIn(h, m)
           /\ \A j \in ToldIn(h, m) : Min(ToldIn(h, m)) <= j
           /\ SpellEnd(h, m) > Len(h) =>
                 EpisodeOfSpell(h, m).ongoing /\ EpisodeOfSpell(h, m).ended = None
           /\ SpellEnd(h, m) <= Len(h) =>
                 /\ ~ EpisodeOfSpell(h, m).ongoing
                 /\ EpisodeOfSpell(h, m).ended = h[SpellEnd(h, m)].ts
                 /\ EpisodeOfSpell(h, m).ended \in Nat
           /\ \A c : Protected(EpisodeOfSpell(h, m), c) <=> Kept(h, m, c)
  <1>1. IsHistory(h) /\ m \in SpellsOf(h) /\ ToldIn(h, m) # {}
    BY DEF WellFormed, ToldSpells
  <1>2. PICK L, e, told : L = Len(h) /\ e = SpellEnd(h, m) /\ told = ToldIn(h, m)
    OBVIOUS
  <1>3. /\ L \in Nat /\ e \in Nat /\ m \in Nat /\ m >= 1 /\ m < e
        /\ \A j \in told : j \in Nat /\ j \in 1 .. L
    BY <1>1, <1>2, SpellFacts
  <1>4. told \in SUBSET Nat /\ told # {}
    BY <1>1, <1>2, <1>3
  <1>5. Min(told) \in told /\ \A j \in told : Min(told) <= j
    BY <1>4, MinOf
  <1>6. PICK first : first = Min(told)
    OBVIOUS
  <1>7. h[first].ts \in Nat
    BY <1>1, <1>2, <1>3, <1>5, <1>6, LineTypes
  <1>8. PICK ended : ended = IF e > L THEN None ELSE h[e].ts
    OBVIOUS
  <1>9. ASSUME e <= L
        PROVE  ended = h[e].ts /\ ended \in Nat /\ ended # None /\ ~ (e > L)
    <2>1. e \in 1 .. L /\ ~ (e > L)
      BY <1>3, <1>9
    <2>2. h[e].ts \in Nat
      BY <1>1, <1>2, <2>1, LineTypes
    <2>3. QED
      BY <1>8, <2>1, <2>2, NullAssumption
  <1>10. PICK ep : ep = EpisodeOfSpell(h, m)
    OBVIOUS
  <1>11. ep.started = h[first].ts /\ ep.ended = ended /\ ep.ongoing = (ended = None)
    BY <1>2, <1>6, <1>8, <1>10 DEF EpisodeOfSpell
  <1>12. ASSUME NEW c
         PROVE  Protected(ep, c) <=> e > L \/ h[e].ts >= c
    <2>1. CASE e > L
      BY <1>8, <1>11, <2>1 DEF Protected
    <2>2. CASE ~ (e > L)
      <3>1. e <= L
        BY <1>3, <2>2
      <3>2. QED
        BY <1>9, <1>11, <2>2, <3>1 DEF Protected
    <2>3. QED
      BY <2>1, <2>2
  <1>13. e > L => ep.ongoing /\ ep.ended = None
    BY <1>8, <1>11
  <1>14. e <= L => ~ ep.ongoing /\ ep.ended = h[e].ts /\ ep.ended \in Nat
    BY <1>9, <1>11
  <1>15. QED
    BY <1>2, <1>5, <1>6, <1>7, <1>10, <1>11, <1>12, <1>13, <1>14 DEF Kept

\* The table after a sweep whose deletions reach b.
LEMMA TableFrom ==
    ASSUME NEW k, NEW h, h = hist[k], WellFormed(h), NEW b, Boundary(h, b),
           gone[k] = Written(k) \cap (1 .. b)
    PROVE  /\ Written(k) \ gone[k] = Left(h, b)
           /\ build_episodes(Table(k), clock) = EpisodesOf(h, Past(h, b))
           /\ \A ep : ep \in ToSet(build_episodes(Table(k), clock)) <=>
                 \E m \in Past(h, b) : ep = EpisodeOfSpell(h, m)
  <1>1. IsHistory(h) /\ Len(h) \in Nat /\ b \in Nat
    BY LenType DEF WellFormed, Boundary
  <1>2. Written(k) \ gone[k] = Left(h, b)
    <2>1. ASSUME NEW n \in 1 .. Len(h)
          PROVE  n > b <=> n \notin 1 .. b
      BY <1>1
    <2>2. QED
      BY <2>1 DEF Written, Left
  <1>3. Table(k) = RowsOf(k, Left(h, b))
    BY <1>2, Zenon DEF Table
  <1>4. build_episodes(Table(k), clock) = EpisodesOf(h, Past(h, b))
    <2>1. build_episodes(RowsOf(k, Left(h, b)), clock) = EpisodesOf(h, Past(h, b))
      BY EpisodesFrom
    <2>2. QED
      BY <1>3, <2>1, Zenon
  <1>5. PICK P : P = Past(h, b)
    OBVIOUS
  <1>6. P \in SUBSET Nat /\ IsFiniteSet(P)
    BY <1>1, <1>5, PastType
  <1>7. \A ep : ep \in ToSet(EpisodesOf(h, P)) <=> \E m \in P : ep = EpisodeOfSpell(h, m)
    BY <1>6, EpisodeSet
  <1>8. QED
    BY <1>2, <1>4, <1>5, <1>7, Zenon

\* Selected are the rows left that are older than the cutoff and than every
\* restock that opened an episode the sweep keeps.
LEMMA PrunedIs ==
    ASSUME NEW k, NEW h, h = hist[k], WellFormed(h), NEW b, Boundary(h, b),
           gone[k] = Written(k) \cap (1 .. b), NEW c
    PROVE  \A n : n \in Pruned(k, c) <=>
              /\ n \in Left(h, b) /\ h[n].ts < c
              /\ \A m \in Past(h, b) : Kept(h, m, c) => h[n].ts < h[Min(ToldIn(h, m))].ts
  <1>1. IsHistory(h)
    BY DEF WellFormed
  <1>2. PICK E : E = ToSet(build_episodes(Table(k), clock))
    OBVIOUS
  <1>3. Written(k) \ gone[k] = Left(h, b)
        /\ \A ep : ep \in E <=> \E m \in Past(h, b) : ep = EpisodeOfSpell(h, m)
    BY <1>2, TableFrom
  <1>4. PICK starts : starts = {ep.started : ep \in {e \in E : Protected(e, c)}}
    OBVIOUS
  <1>5. \A n : n \in Pruned(k, c) <=>
            /\ n \in Left(h, b) /\ h[n].ts < c
            /\ starts # {} => h[n].ts < Min(starts)
    BY <1>2, <1>3, <1>4 DEF Pruned
  <1>6. ASSUME NEW m \in Past(h, b)
        PROVE  /\ EpisodeOfSpell(h, m).started = h[Min(ToldIn(h, m))].ts
               /\ EpisodeOfSpell(h, m).started \in Nat
               /\ Protected(EpisodeOfSpell(h, m), c) <=> Kept(h, m, c)
    <2>1. m \in ToldSpells(h)
      BY DEF Past
    <2>2. QED
      BY <2>1, EpisodeTimes
  <1>7. ASSUME NEW x
        PROVE  x \in starts <=>
                  \E m \in Past(h, b) : Kept(h, m, c) /\ x = h[Min(ToldIn(h, m))].ts
    <2>1. x \in starts <=> \E ep \in E : Protected(ep, c) /\ x = ep.started
      BY <1>4
    <2>2. QED
      BY <1>3, <1>6, <2>1
  <1>8. starts \in SUBSET Nat
    BY <1>6, <1>7
  <1>9. ASSUME NEW n \in Left(h, b)
        PROVE  (starts # {} => h[n].ts < Min(starts)) <=>
                 \A m \in Past(h, b) : Kept(h, m, c) => h[n].ts < h[Min(ToldIn(h, m))].ts
    <2>1. h[n].ts \in Nat
      BY <1>1, LineTypes DEF Left
    <2>2. (starts # {} => h[n].ts < Min(starts)) <=> \A x \in starts : h[n].ts < x
      <3>1. CASE starts = {}
        BY <3>1
      <3>2. CASE starts # {}
        <4>1. PICK x \in starts : x = Min(starts) /\ \A y \in starts : x <= y
          BY <1>8, <3>2, MinOf
        <4>2. \A y \in starts : y \in Nat
          BY <1>8
        <4>3. QED
          BY <2>1, <3>2, <4>1, <4>2
      <3>3. QED
        BY <3>1, <3>2
    <2>3. QED
      BY <1>7, <2>2
  <1>10. QED
    BY <1>5, <1>9

\* A spell told of is told of after it opened and before it ended, and before
\* every later spell.
LEMMA SpellTimes ==
    ASSUME NEW h, WellFormed(h), NEW m \in ToldSpells(h), SpellEnd(h, m) <= Len(h),
           NEW p \in ToldSpells(h), m < p
    PROVE  h[SpellEnd(h, m)].ts < h[Min(ToldIn(h, p))].ts
  <1>1. IsHistory(h) /\ m \in SpellsOf(h) /\ p \in SpellsOf(h)
    BY DEF WellFormed, ToldSpells
  <1>2. PICK e, j : e = SpellEnd(h, m) /\ j = Min(ToldIn(h, p))
    OBVIOUS
  <1>3. j \in ToldIn(h, p)
    BY <1>2, EpisodeTimes
  <1>4. p \in Nat /\ j \in Nat /\ p <= j /\ j \in 1 .. Len(h)
    BY <1>1, <1>3, SpellFacts
  <1>5. e < p /\ e \in Nat /\ m < e /\ m \in Nat /\ m >= 1
    BY <1>1, <1>2, SpellsApart, SpellFacts
  <1>6. e \in 1 .. Len(h) /\ e < j
    BY <1>1, <1>2, <1>4, <1>5, LenType
  <1>7. h[e].ts < h[j].ts
    BY <1>4, <1>6 DEF WellFormed
  <1>8. QED
    BY <1>2, <1>7

\* What a sweep selects and what is gone end at a boundary of its cutoff.
LEMMA SweepCuts ==
    ASSUME NEW k, WellFormed(hist[k]), NEW a \in Int, CutAt(k, gone[k], a), NEW c \in Int
    PROVE  CutAt(k, gone[k] \cup Pruned(k, c), Later(a, c))
  <1>1. PICK h : h = hist[k]
    OBVIOUS
  <1>2. WellFormed(h) /\ IsHistory(h)
    BY <1>1 DEF WellFormed
  <1>3. PICK L : L = Len(h) /\ L \in Nat
    BY <1>2, LenType
  <1>4. PICK b \in 0 .. L : gone[k] = Written(k) \cap (1 .. b) /\ Cut(h, b, a)
    BY <1>1, <1>3 DEF CutAt
  <1>5. Boundary(h, b)
    BY <1>4 DEF Cut
  <1>6. PICK P : P = Pruned(k, c)
    OBVIOUS
  <1>7. \A n : n \in P <=>
            /\ n \in Left(h, b) /\ h[n].ts < c
            /\ \A m \in Past(h, b) : Kept(h, m, c) => h[n].ts < h[Min(ToldIn(h, m))].ts
    BY <1>1, <1>2, <1>4, <1>5, <1>6, PrunedIs
  <1>8. \A n : n \in Left(h, b) <=> n \in 1 .. L /\ n > b /\ n \in Written(k)
    BY <1>1, <1>3 DEF Left, Written
  <1>9. b \in Nat /\ b <= L
    BY <1>3, <1>4
  <1>10. PICK B : B = P \cup {b}
    OBVIOUS
  <1>11. B \in SUBSET (0 .. L) /\ B # {}
    <2>1. \A n \in P : n \in 0 .. L
      BY <1>3, <1>7, <1>8
    <2>2. QED
      BY <1>4, <1>10, <2>1
  <1>12. PICK d \in B : \A n \in B : d >= n
    BY <1>3, <1>11, GreatestOf
  <1>13. d \in 0 .. L /\ d \in Nat /\ b <= d /\ \A n \in P : n <= d
    <2>1. d \in 0 .. L
      BY <1>11
    <2>2. d >= b /\ \A n \in P : d >= n
      BY <1>10, <1>12
    <2>3. QED
      BY <1>9, <2>1, <2>2
  <1>14. d # b => d \in P
    BY <1>10, <1>12
  <1>15. \A i, j \in 1 .. L : i < j => h[i].ts < h[j].ts
    BY <1>2, <1>3 DEF WellFormed
  <1>16. \A n \in 1 .. L : h[n].ts \in Nat
    BY <1>2, <1>3, LineTypes
  \* The lines up to d that have a row are gone or selected.
  <1>17. gone[k] \cup P = Written(k) \cap (1 .. d)
    <2>1. ASSUME NEW n \in Written(k), n \in 1 .. d, n \notin 1 .. b
          PROVE  n \in P
      <3>1. n \in 1 .. L /\ n > b
        BY <1>3, <1>9, <1>13, <2>1
      <3>2. n \in Left(h, b)
        BY <1>8, <3>1
      <3>3. d \in P
        <4>1. d # b
          BY <1>9, <1>13, <2>1, <3>1
        <4>2. QED
          BY <1>14, <4>1
      <3>4. d \in 1 .. L
        BY <1>7, <1>8, <3>3
      <3>5. h[n].ts <= h[d].ts /\ h[n].ts \in Nat /\ h[d].ts \in Nat
        <4>1. n = d \/ n < d
          BY <1>13, <2>1
        <4>2. CASE n = d
          BY <1>16, <3>1, <4>2
        <4>3. CASE n < d
          <5>1. h[n].ts < h[d].ts
            BY <1>15, <3>1, <3>4, <4>3
          <5>2. QED
            BY <1>16, <3>1, <3>4, <5>1
        <4>4. QED
          BY <4>1, <4>2, <4>3
      <3>6. h[n].ts < c
        <4>1. h[d].ts < c
          BY <1>7, <3>3
        <4>2. QED
          BY <3>5, <4>1
      <3>7. ASSUME NEW m \in Past(h, b), Kept(h, m, c)
            PROVE  h[n].ts < h[Min(ToldIn(h, m))].ts
        <4>1. h[d].ts < h[Min(ToldIn(h, m))].ts
          BY <1>7, <3>3, <3>7
        <4>2. h[Min(ToldIn(h, m))].ts \in Nat
          <5>1. m \in ToldSpells(h)
            BY DEF Past
          <5>2. QED
            BY <1>2, <5>1, EpisodeTimes
        <4>3. QED
          BY <3>5, <4>1, <4>2
      <3>8. QED
        BY <1>7, <3>2, <3>6, <3>7
    <2>2. ASSUME NEW n \in P
          PROVE  n \in Written(k) /\ n \in 1 .. d
      <3>1. n \in 1 .. L /\ n \in Written(k) /\ n <= d
        BY <1>7, <1>8, <1>13
      <3>2. QED
        BY <1>13, <3>1
    <2>3. \A n \in 1 .. b : n \in 1 .. d
      BY <1>9, <1>13
    <2>4. \A n : n \in gone[k] <=> n \in Written(k) /\ n \in 1 .. b
      BY <1>4
    <2>5. \A n : n \in gone[k] \cup P <=> n \in Written(k) /\ n \in 1 .. d
      BY <2>1, <2>2, <2>3, <2>4
    <2>6. QED
      BY <2>5
  \* A spell that ended before the cutoff, and had a row left, ended by d.
  <1>18. ASSUME NEW m \in Past(h, b), ~ Kept(h, m, c)
         PROVE  SpellEnd(h, m) <= d
    <2>1. m \in ToldSpells(h) /\ m \in SpellsOf(h) /\ SpellEnd(h, m) > b
      BY DEF Past, ToldSpells
    <2>2. PICK e : e = SpellEnd(h, m)
      OBVIOUS
    <2>3. e \in Nat /\ m \in Nat /\ m < e /\ m >= 1
      BY <1>2, <2>1, <2>2, SpellFacts
    <2>4. e <= L /\ ~ (h[e].ts >= c)
      BY <1>3, <1>18, <2>2, <2>3 DEF Kept
    <2>5. e \in 1 .. L /\ e > b
      BY <1>3, <2>1, <2>2, <2>3, <2>4
    <2>6. h[e].ts < c
      BY <1>16, <2>4, <2>5
    <2>7. e \in Left(h, b)
      <3>1. h[e].phase = "oos"
        BY <1>2, <1>3, <2>1, <2>2, <2>4, SpellFacts
      <3>2. e # 1
        BY <2>3
      <3>3. h[e].kind = "oos"
        BY <1>2, <1>3, <2>5, <3>1, <3>2 DEF WellFormed, KindOf
      <3>4. QED
        BY <1>3, <2>5, <3>3 DEF Left
    <2>8. ASSUME NEW p \in Past(h, b), Kept(h, p, c)
          PROVE  h[e].ts < h[Min(ToldIn(h, p))].ts
      <3>1. p \in ToldSpells(h) /\ p \in SpellsOf(h) /\ p \in Nat
        BY <1>2, SpellFacts DEF Past, ToldSpells
      <3>2. PICK f : f = SpellEnd(h, p) /\ f \in Nat /\ p < f
        BY <1>2, <3>1, SpellFacts
      <3>3. e < f
        <4>1. CASE f > L
          BY <1>3, <2>3, <2>4, <3>2, <4>1
        <4>2. CASE f <= L
          <5>1. f \in 1 .. L /\ h[f].ts >= c
            BY <1>3, <2>8, <3>1, <3>2, <4>2 DEF Kept
          <5>2. ~ (f = e) /\ ~ (f < e)
            <6>1. f < e => h[f].ts < h[e].ts
              BY <1>15, <2>5, <5>1
            <6>2. h[f].ts \in Nat /\ h[e].ts \in Nat
              BY <1>16, <2>5, <5>1
            <6>3. QED
              BY <2>6, <5>1, <6>1, <6>2
          <5>3. QED
            BY <2>3, <3>2, <5>2
        <4>3. QED
          BY <1>3, <3>2, <4>1, <4>2
      <3>4. m < p
        BY <1>2, <2>1, <2>2, <3>1, <3>2, <3>3, EndsInOrder
      <3>5. QED
        BY <1>2, <1>3, <2>1, <2>2, <2>4, <3>1, <3>4, SpellTimes
    <2>9. e \in P
      BY <1>7, <2>6, <2>7, <2>8
    <2>10. QED
      BY <1>13, <2>2, <2>9
  \* A spell told of by d ended by d.
  <1>19. ASSUME NEW m \in SpellsOf(h), NEW j \in ToldIn(h, m), j <= d
         PROVE  SpellEnd(h, m) <= d
    <2>1. j \in Nat /\ j \in 1 .. L /\ SpellEnd(h, m) \in Nat
      BY <1>2, <1>3, SpellFacts
    <2>2. CASE SpellEnd(h, m) <= b
      BY <1>9, <1>13, <2>1, <2>2
    <2>3. CASE ~ (SpellEnd(h, m) <= b)
      <3>1. m \in ToldSpells(h) /\ m \in Past(h, b)
        BY <1>9, <2>1, <2>3 DEF ToldSpells, Past
      <3>2. CASE ~ Kept(h, m, c)
        BY <1>18, <3>1, <3>2
      <3>3. CASE Kept(h, m, c)
        <4>1. j > b
          BY <1>5, <1>9, <2>1, <2>3 DEF Boundary
        <4>2. d # b
          BY <1>9, <1>13, <1>19, <2>1, <4>1
        <4>3. d \in P
          BY <1>14, <4>2
        <4>4. h[d].ts < h[Min(ToldIn(h, m))].ts /\ d \in 1 .. L
          BY <1>7, <1>8, <3>1, <3>3, <4>3
        <4>5. PICK f : f = Min(ToldIn(h, m))
          OBVIOUS
        <4>6. f \in ToldIn(h, m) /\ f <= j
          BY <1>2, <3>1, <4>5, EpisodeTimes
        <4>7. f \in 1 .. L /\ f <= d
          <5>1. f \in Nat /\ f \in 1 .. L
            BY <1>2, <1>3, <4>6, SpellFacts
          <5>2. QED
            BY <1>13, <1>19, <2>1, <4>6, <5>1
        <4>8. f = d \/ h[f].ts < h[d].ts
          BY <1>13, <1>15, <4>4, <4>7
        <4>9. h[f].ts \in Nat /\ h[d].ts \in Nat
          BY <1>16, <4>4, <4>7
        <4>10. QED
          BY <4>4, <4>5, <4>8, <4>9
      <3>4. QED
        BY <3>2, <3>3
    <2>4. QED
      BY <2>2, <2>3
  <1>20. Boundary(h, d)
    BY <1>3, <1>13, <1>19 DEF Boundary
  <1>21. PICK z : z = Later(a, c) /\ z \in Int /\ a <= z /\ c <= z /\ (z = a \/ z = c)
    BY DEF Later
  <1>22. ASSUME NEW m \in ToldSpells(h)
         PROVE  /\ SpellEnd(h, m) <= d => h[SpellEnd(h, m)].ts < z
                /\ d < SpellEnd(h, m) /\ SpellEnd(h, m) <= L => h[SpellEnd(h, m)].ts >= z
    <2>1. PICK e : e = SpellEnd(h, m)
      OBVIOUS
    <2>2. m \in SpellsOf(h) /\ e \in Nat /\ m \in Nat /\ m < e /\ m >= 1
      BY <1>2, <2>1, SpellFacts DEF ToldSpells
    <2>3. ASSUME e <= L
          PROVE  /\ e \in 1 .. L /\ h[e].ts \in Nat
                 /\ e <= b => h[e].ts < a
                 /\ b < e => h[e].ts >= a
      <3>1. e \in 1 .. L
        BY <1>3, <2>2, <2>3
      <3>2. /\ e <= b => h[e].ts < a
            /\ b < e => h[e].ts >= a
        BY <1>3, <1>4, <2>1, <2>3 DEF Cut
      <3>3. QED
        BY <1>16, <3>1, <3>2
    <2>4. ASSUME e <= d
          PROVE  h[e].ts < z
      <3>1. e <= L
        BY <1>3, <1>13, <2>2, <2>4
      <3>2. CASE e <= b
        BY <1>21, <2>3, <3>1, <3>2
      <3>3. CASE ~ (e <= b)
        <4>1. d # b
          BY <1>9, <1>13, <2>2, <2>4, <3>3
        <4>2. h[d].ts < c /\ d \in 1 .. L
          BY <1>7, <1>8, <1>14, <4>1
        <4>3. e = d \/ h[e].ts < h[d].ts
          BY <1>13, <1>15, <2>2, <2>3, <2>4, <3>1, <4>2
        <4>4. h[d].ts \in Nat
          BY <1>16, <4>2
        <4>5. QED
          BY <1>21, <2>3, <3>1, <4>2, <4>3, <4>4
      <3>4. QED
        BY <3>2, <3>3
    <2>5. ASSUME d < e, e <= L
          PROVE  h[e].ts >= z
      <3>1. b < e /\ h[e].ts >= a /\ h[e].ts \in Nat
        BY <1>9, <1>13, <2>2, <2>3, <2>5
      <3>2. m \in Past(h, b)
        BY <1>9, <2>1, <2>2, <3>1 DEF Past
      <3>3. Kept(h, m, c)
        <4>1. ~ (e <= d)
          BY <1>13, <2>2, <2>5
        <4>2. QED
          BY <1>18, <2>1, <3>2, <4>1
      <3>4. h[e].ts >= c
        BY <1>3, <2>1, <2>2, <2>5, <3>3 DEF Kept
      <3>5. QED
        BY <1>21, <3>1, <3>4
    <2>6. QED
      BY <2>1, <2>4, <2>5
  <1>23. Cut(h, d, z)
    BY <1>3, <1>20, <1>22 DEF Cut
  <1>24. QED
    BY <1>1, <1>3, <1>6, <1>13, <1>17, <1>21, <1>23 DEF CutAt

-----------------------------------------------------------------------------
(* The invariant holds.                                                    *)

\* A history without a line is well formed, and there is nothing to cut.
LEMMA EmptyHistory ==
    /\ WellFormed(<<>>)
    /\ Cut(<<>>, 0, 0)
  <1>1. IsHistory(<<>>) /\ Len(<<>>) = 0
    BY DEF IsHistory
  <1>2. SpellsOf(<<>>) = {}
    BY <1>1 DEF SpellsOf
  <1>3. WellFormed(<<>>)
    BY <1>1, <1>2 DEF WellFormed
  <1>4. Boundary(<<>>, 0) /\ ToldSpells(<<>>) = {}
    BY <1>1, <1>2 DEF Boundary, ToldSpells
  <1>5. QED
    BY <1>3, <1>4 DEF Cut

\* The invariant holds at first.
LEMMA RecordInitInv == RecordsInit => RecordInv
  <1> SUFFICES ASSUME RecordsInit PROVE RecordInv
    OBVIOUS
  <1>1. /\ clock = 0 /\ hist = [k \in Codes |-> <<>>] /\ days \in Retentions
        /\ gone = [k \in Codes |-> {}] /\ doomed = Idle /\ cut = 0
    BY DEF RecordsInit, LedgerInit
  <1>2. \A k \in Codes : hist[k] = <<>> /\ gone[k] = {}
    BY <1>1
  <1>3. HistoryInv
    <2>1. \A k \in Codes : WellFormed(hist[k])
      BY <1>2, EmptyHistory
    <2>2. \A k \in Codes : Len(hist[k]) = 0
      <3>1. Len(<<>>) = 0
        OBVIOUS
      <3>2. QED
        BY <1>2, <3>1, Zenon
    <2>3. QED
      BY <1>1, <2>1, <2>2 DEF HistoryInv
  <1>4. ASSUME NEW k \in Codes
        PROVE  CutAt(k, gone[k], cut)
    <2>1. Cut(hist[k], 0, cut)
      BY <1>1, <1>2, EmptyHistory
    <2>2. 0 \in 0 .. Len(hist[k]) /\ gone[k] = Written(k) \cap (1 .. 0)
      BY <1>2 DEF Written
    <2>3. QED
      BY <2>1, <2>2 DEF CutAt
  <1>5. Swept /\ Armed
    BY <1>1, <1>4 DEF Swept, Armed, Idle
  <1>6. QED
    BY <1>1, <1>3, <1>5, RetentionsAssumption DEF RecordInv

\* A check that settles a line.
LEMMA SettleKeeps ==
    ASSUME RecordInv, NEW k \in Codes, SettleOne(k)
    PROVE  HistoryInv' /\ Swept' /\ Armed'
  <1>13. PICK t \in 1 .. clock :
            /\ \A n \in 1 .. Len(hist[k]) : hist[k][n].ts < t
            /\ \E line \in Lines(hist[k], t, clock, \A j \in Codes : hist[j] = <<>>) :
                  hist' = [hist EXCEPT ![k] = Append(@, line)]
    BY DEF SettleOne
  <1>1. PICK line \in Lines(hist[k], t, clock, \A j \in Codes : hist[j] = <<>>) :
            hist' = [hist EXCEPT ![k] = Append(@, line)]
    BY <1>13
  <1>2. /\ clock \in Nat /\ hist = [q \in Codes |-> hist[q]]
        /\ \A q \in Codes : /\ WellFormed(hist[q])
                            /\ \A n \in 1 .. Len(hist[q]) : hist[q][n].ts <= clock
    BY DEF RecordInv, HistoryInv
  <1>3. /\ clock' = clock /\ gone' = gone /\ doomed' = doomed /\ cut' = cut
    BY DEF SettleOne
  <1>4. /\ WellFormed(Append(hist[k], line)) /\ Extends(Append(hist[k], line), hist[k], line)
        /\ line.ts = clock
    <2>1. WellFormed(hist[k]) /\ clock \in Nat /\ t \in Nat /\ t <= clock
      BY <1>2
    <2>2. PICK blank : line \in Lines(hist[k], t, clock, blank)
      BY <1>1
    <2>3. QED
      BY <2>1, <2>2, <1>13, StaysWellFormed
  <1>5. PICK g : g = Append(hist[k], line)
    OBVIOUS
  <1>6. hist' = [q \in Codes |-> IF q = k THEN g ELSE hist[q]]
    <2>1. hist' = [hist EXCEPT ![k] = g]
      BY <1>1, <1>5
    <2>2. QED
      BY <1>2, <2>1
  <1>7. ASSUME NEW q \in Codes
        PROVE  /\ hist'[q] = hist[q] \/ \E l : Extends(hist'[q], hist[q], l) /\ l.ts = clock
               /\ WellFormed(hist'[q])
               /\ \A n \in 1 .. Len(hist'[q]) : hist'[q][n].ts <= clock
    <2>1. CASE q = k
      <3>1. hist'[q] = g /\ Extends(g, hist[q], line)
        BY <1>4, <1>5, <1>6, <2>1
      <3>2. PICK L : L = Len(hist[q]) /\ L \in Nat
        BY <1>2, LenType DEF WellFormed
      <3>3. Len(g) = L + 1 /\ g[L + 1] = line /\ \A n \in 1 .. L : g[n] = hist[q][n]
        BY <3>1, <3>2 DEF Extends
      <3>4. ASSUME NEW n \in 1 .. L + 1
            PROVE  g[n].ts <= clock
        <4>1. CASE n = L + 1
          BY <1>2, <1>4, <3>3, <4>1
        <4>2. CASE n # L + 1
          <5>1. n \in 1 .. L
            BY <3>2, <4>2
          <5>2. QED
            BY <1>2, <3>2, <3>3, <5>1
        <4>3. QED
          BY <4>1, <4>2
      <3>5. QED
        BY <1>4, <1>5, <3>1, <3>3, <3>4
    <2>2. CASE q # k
      BY <1>2, <1>6, <2>2
    <2>3. QED
      BY <2>1, <2>2
  <1>8. HistoryInv'
    BY <1>2, <1>3, <1>6, <1>7 DEF HistoryInv
  <1>9. ASSUME NEW q \in Codes, NEW lines, NEW c \in Int, c <= clock, CutAt(q, lines, c)
        PROVE  CutAt(q, lines, c)'
    BY <1>7, <1>9, CutAtGrows DEF RecordInv
  <1>10. Swept'
    <2>1. cut \in Int /\ cut <= clock /\ \A q \in Codes : CutAt(q, gone[q], cut)
      BY DEF RecordInv, Swept
    <2>2. ASSUME NEW q \in Codes
          PROVE  CutAt(q, gone[q], cut)'
      <3>1. PICK lines, c : lines = gone[q] /\ c = cut
        OBVIOUS
      <3>2. CutAt(q, lines, c)'
        BY <1>9, <2>1, <3>1
      <3>3. QED
        BY <1>3, <3>1, <3>2
    <2>3. QED
      BY <1>3, <2>1, <2>2 DEF Swept
  <1>11. Armed'
    <2>1. SUFFICES ASSUME doomed.busy PROVE Armed'
      BY <1>3 DEF Armed
    <2>2. /\ doomed.cutoff \in Int /\ doomed.cutoff <= clock
          /\ \A q \in Codes : CutAt(q, gone[q] \cup doomed.rows[q], Later(cut, doomed.cutoff))
      BY <2>1 DEF RecordInv, Armed
    <2>3. Later(cut, doomed.cutoff) \in Int /\ Later(cut, doomed.cutoff) <= clock
      BY <2>2 DEF Later, RecordInv, Swept
    <2>4. ASSUME NEW q \in Codes
          PROVE  CutAt(q, gone[q] \cup doomed.rows[q], Later(cut, doomed.cutoff))'
      <3>1. PICK lines, c : lines = gone[q] \cup doomed.rows[q] /\ c = Later(cut, doomed.cutoff)
        OBVIOUS
      <3>2. CutAt(q, lines, c)'
        BY <1>9, <2>2, <2>3, <3>1
      <3>3. QED
        BY <1>3, <3>1, <3>2
    <2>5. QED
      BY <1>3, <2>2, <2>4 DEF Armed
  <1>12. QED
    BY <1>8, <1>10, <1>11

\* Checks, the two halves of a sweep and the clock keep it.
LEMMA RecordNextInv == RecordInv /\ [RecordsNext]_recordVars => RecordInv'
  <1> SUFFICES ASSUME RecordInv, [RecordsNext]_recordVars
               PROVE  RecordInv'
    OBVIOUS
  <1>0. /\ clock \in Nat /\ days \in Nat /\ cut \in Int /\ cut <= clock
        /\ hist = [k \in Codes |-> hist[k]]
        /\ \A k \in Codes : WellFormed(hist[k])
        /\ \A k \in Codes : CutAt(k, gone[k], cut)
    BY DEF RecordInv, HistoryInv, Swept
  <1>1. ASSUME NEW k \in Codes, SettleOne(k)
        PROVE  RecordInv'
    <2>1. days' = days
      BY <1>1 DEF SettleOne
    <2>2. QED
      BY <1>0, <1>1, <2>1, SettleKeeps DEF RecordInv
  <1>2. CASE Passes
    <2>1. clock' = clock + 1 /\ UNCHANGED <<hist, days, gone, doomed, cut>>
      BY <1>2 DEF Passes, Tick
    <2>2. clock' \in Nat /\ clock <= clock' /\ \A x \in Int : x <= clock => x <= clock'
      BY <1>0, <2>1
    <2>3. HistoryInv'
      <3>1. \A k \in Codes : \A n \in 1 .. Len(hist[k]) : hist[k][n].ts <= clock'
        <4>1. ASSUME NEW k \in Codes, NEW n \in 1 .. Len(hist[k])
              PROVE  hist[k][n].ts <= clock'
          <5>1. hist[k][n].ts \in Nat /\ hist[k][n].ts <= clock
            BY <1>0, LineTypes DEF RecordInv, HistoryInv, WellFormed
          <5>2. QED
            BY <2>2, <5>1
        <4>2. QED
          BY <4>1
      <3>2. QED
        BY <1>0, <2>1, <2>2, <3>1 DEF HistoryInv
    <2>4. Swept'
      <3>1. ASSUME NEW k \in Codes
            PROVE  CutAt(k, gone[k], cut)'
        BY <1>0, <2>1 DEF CutAt, Written
      <3>2. QED
        BY <1>0, <2>1, <2>2, <3>1 DEF Swept
    <2>5. Armed'
      <3>1. ASSUME NEW k \in Codes, doomed.busy
            PROVE  CutAt(k, gone[k] \cup doomed.rows[k], Later(cut, doomed.cutoff))'
        <4>1. CutAt(k, gone[k] \cup doomed.rows[k], Later(cut, doomed.cutoff))
          BY <3>1 DEF RecordInv, Armed
        <4>2. QED
          BY <2>1, <4>1 DEF CutAt, Written, Later
      <3>2. doomed.busy => doomed.cutoff \in Int /\ doomed.cutoff <= clock'
        BY <2>2 DEF RecordInv, Armed
      <3>3. QED
        BY <2>1, <3>1, <3>2 DEF Armed
    <2>6. QED
      BY <1>0, <2>1, <2>3, <2>4, <2>5 DEF RecordInv
  <1>3. ASSUME UNCHANGED <<ledgerVars, gone, cut>>
        PROVE  HistoryInv' /\ Swept'
    <2>1. UNCHANGED <<clock, hist, gone, cut>>
      BY <1>3 DEF ledgerVars
    <2>2. HistoryInv'
      BY <2>1 DEF HistoryInv, RecordInv
    <2>3. ASSUME NEW k \in Codes
          PROVE  CutAt(k, gone[k], cut)'
      BY <1>0, <2>1 DEF CutAt, Written
    <2>4. QED
      BY <1>0, <2>1, <2>2, <2>3 DEF Swept
  <1>4. CASE SetDays
    <2>1. UNCHANGED <<ledgerVars, gone, cut, doomed>> /\ days' \in Nat
      BY <1>4, RetentionsAssumption DEF SetDays
    <2>2. UNCHANGED <<clock, hist>>
      BY <2>1 DEF ledgerVars
    <2>3. Armed'
      <3>1. ASSUME NEW k \in Codes, doomed.busy
            PROVE  CutAt(k, gone[k] \cup doomed.rows[k], Later(cut, doomed.cutoff))'
        <4>1. CutAt(k, gone[k] \cup doomed.rows[k], Later(cut, doomed.cutoff))
          BY <3>1 DEF RecordInv, Armed
        <4>2. QED
          BY <2>1, <2>2, <4>1 DEF CutAt, Written, Later
      <3>2. QED
        BY <2>1, <2>2, <3>1 DEF Armed, RecordInv
    <2>4. QED
      BY <1>3, <2>1, <2>3 DEF RecordInv
  <1>5. CASE SweepSelects
    <2>1. PICK cutoff : cutoff = clock - days
      OBVIOUS
    <2>2. /\ doomed' = [rows |-> [k \in Codes |-> Pruned(k, cutoff)],
                        cutoff |-> cutoff, busy |-> TRUE]
          /\ UNCHANGED <<ledgerVars, days, gone, cut>>
      BY <1>5, <2>1 DEF SweepSelects
    <2>3. UNCHANGED <<clock, hist>>
      BY <2>2 DEF ledgerVars
    <2>4. cutoff \in Int /\ cutoff <= clock
      BY <1>0, <2>1
    <2>5. ASSUME NEW k \in Codes
          PROVE  CutAt(k, gone[k] \cup doomed.rows[k], Later(cut, doomed.cutoff))'
      <3>1. doomed'.rows[k] = Pruned(k, cutoff) /\ doomed'.cutoff = cutoff
        BY <2>2
      <3>2. CutAt(k, gone[k] \cup Pruned(k, cutoff), Later(cut, cutoff))
        BY <1>0, <2>4, SweepCuts
      <3>3. PICK lines, c : lines = gone[k] \cup Pruned(k, cutoff) /\ c = Later(cut, cutoff)
        OBVIOUS
      <3>4. lines = (gone[k] \cup doomed.rows[k])' /\ c = Later(cut, doomed.cutoff)'
        BY <2>2, <3>1, <3>3 DEF Later
      <3>5. CutAt(k, lines, c)
        BY <3>2, <3>3
      <3>6. CutAt(k, lines, c)'
        BY <2>3, <3>5 DEF CutAt, Written
      <3>7. QED
        BY <3>4, <3>6 DEF CutAt
    <2>6. doomed'.cutoff = cutoff
      BY <2>2
    <2>7. Armed'
      BY <2>3, <2>4, <2>5, <2>6 DEF Armed
    <2>8. QED
      BY <1>0, <1>3, <2>2, <2>7 DEF RecordInv
  <1>6. CASE SweepDeletes
    <2>1. /\ doomed.busy /\ doomed' = Idle
          /\ gone' = [k \in Codes |-> gone[k] \cup doomed.rows[k]]
          /\ cut' = Later(cut, doomed.cutoff)
          /\ UNCHANGED <<ledgerVars, days>>
      BY <1>6 DEF SweepDeletes
    <2>2. UNCHANGED <<clock, hist>>
      BY <2>1 DEF ledgerVars
    <2>3. HistoryInv'
      BY <2>2 DEF HistoryInv, RecordInv
    <2>4. /\ doomed.cutoff \in Int /\ doomed.cutoff <= clock
          /\ \A k \in Codes : CutAt(k, gone[k] \cup doomed.rows[k], Later(cut, doomed.cutoff))
      BY <2>1 DEF RecordInv, Armed
    <2>5. ASSUME NEW k \in Codes
          PROVE  CutAt(k, gone[k], cut)'
      <3>1. gone'[k] = gone[k] \cup doomed.rows[k]
        BY <2>1
      <3>2. PICK lines, c : lines = gone'[k] /\ c = cut'
        OBVIOUS
      <3>3. CutAt(k, lines, c)
        BY <2>1, <2>4, <3>1, <3>2
      <3>4. CutAt(k, lines, c)'
        BY <2>2, <3>3 DEF CutAt, Written
      <3>5. QED
        BY <3>2, <3>4 DEF CutAt
    <2>6. Swept'
      BY <1>0, <2>1, <2>2, <2>4, <2>5 DEF Swept, Later
    <2>7. Armed'
      BY <2>1 DEF Armed, Idle
    <2>8. QED
      BY <1>0, <2>1, <2>3, <2>6, <2>7 DEF RecordInv
  <1>7. CASE SweepFails
    <2>1. doomed' = Idle /\ UNCHANGED <<ledgerVars, days, gone, cut>>
      BY <1>7 DEF SweepFails
    <2>2. Armed'
      BY <2>1 DEF Armed, Idle
    <2>3. QED
      BY <1>0, <1>3, <2>1, <2>2 DEF RecordInv
  <1>8. CASE UNCHANGED recordVars
    <2>1. UNCHANGED <<ledgerVars, days, gone, doomed, cut>>
      BY <1>8 DEF recordVars
    <2>2. UNCHANGED <<clock, hist>>
      BY <2>1 DEF ledgerVars
    <2>3. Armed'
      <3>1. ASSUME NEW k \in Codes, doomed.busy
            PROVE  CutAt(k, gone[k] \cup doomed.rows[k], Later(cut, doomed.cutoff))'
        <4>1. CutAt(k, gone[k] \cup doomed.rows[k], Later(cut, doomed.cutoff))
          BY <3>1 DEF RecordInv, Armed
        <4>2. QED
          BY <2>1, <2>2, <4>1 DEF CutAt, Written, Later
      <3>2. QED
        BY <2>1, <2>2, <3>1 DEF Armed, RecordInv
    <2>4. QED
      BY <1>0, <1>3, <2>1, <2>3 DEF RecordInv
  <1>9. QED
    BY <1>1, <1>2, <1>4, <1>5, <1>6, <1>7, <1>8 DEF RecordsNext

\* The invariant holds of every behaviour.
THEOREM RecordInvariance == RecordsSpec => []RecordInv
  <1>1. QED
    BY RecordInitInv, RecordNextInv, PTL DEF RecordsSpec

-----------------------------------------------------------------------------
(* What History shows.                                                     *)

\* With nothing deleted, all rows and all spells told of are left.
LEMMA FromTheStart ==
    ASSUME NEW k, NEW h, h = hist[k], WellFormed(h)
    PROVE  /\ Boundary(h, 0) /\ Left(h, 0) = Written(k) /\ Past(h, 0) = ToldSpells(h)
           /\ ToldSpells(h) \in SUBSET Nat /\ IsFiniteSet(ToldSpells(h))
           /\ build_episodes(RowsOf(k, Written(k)), clock) = EpisodesOf(h, ToldSpells(h))
  <1>1. IsHistory(h) /\ Len(h) \in Nat
    BY LenType DEF WellFormed
  <1>2. ASSUME NEW m \in SpellsOf(h)
        PROVE  SpellEnd(h, m) > 0 /\ \A j \in ToldIn(h, m) : ~ (j <= 0)
    <2>1. m \in Nat /\ m >= 1 /\ SpellEnd(h, m) \in Nat /\ m < SpellEnd(h, m)
      BY <1>1, SpellFacts
    <2>2. \A j \in ToldIn(h, m) : j \in Nat /\ m <= j
      BY <1>1, SpellFacts
    <2>3. QED
      BY <2>1, <2>2
  <1>3. Boundary(h, 0)
    BY <1>1, <1>2 DEF Boundary
  <1>4. Left(h, 0) = Written(k)
    BY DEF Left, Written
  <1>5. Past(h, 0) = ToldSpells(h)
    BY <1>2 DEF Past, ToldSpells
  <1>6. build_episodes(RowsOf(k, Left(h, 0)), clock) = EpisodesOf(h, Past(h, 0))
    BY <1>3, EpisodesFrom
  <1>7. ToldSpells(h) \in SUBSET Nat /\ IsFiniteSet(ToldSpells(h))
    BY <1>1, <1>5, PastType
  <1>8. QED
    BY <1>3, <1>4, <1>5, <1>6, <1>7, Zenon

\* EpisodesAreSpells, from the invariant.
LEMMA SpellsShown == RecordInv => EpisodesAreSpells
  <1> DEFINE T(k) == {m \in SpellsOf(hist[k]) : ToldIn(hist[k], m) # {}}
             Shows(k) == build_episodes(RowsOf(k, Written(k)), clock) =
                            [i \in 1 .. Len(Ascending(T(k))) |->
                                EpisodeOfSpell(hist[k], Ascending(T(k))[i])]
  <1>1. ASSUME RecordInv, NEW k \in Codes
        PROVE  Shows(k)
    <2>1. PICK h, S : h = hist[k] /\ S = T(k)
      OBVIOUS
    <2>2. WellFormed(h)
      BY <1>1, <2>1 DEF RecordInv, HistoryInv
    <2>3. S = ToldSpells(h)
      BY <2>1 DEF ToldSpells
    <2>4. /\ S \in SUBSET Nat /\ IsFiniteSet(S)
          /\ build_episodes(RowsOf(k, Written(k)), clock) = EpisodesOf(h, S)
      BY <2>1, <2>2, <2>3, FromTheStart
    <2>5. Len(Ascending(S)) = Cardinality(S)
      BY <2>4, SortedNumbers
    <2>6. build_episodes(RowsOf(k, Written(k)), clock) =
             [i \in 1 .. Len(Ascending(S)) |-> EpisodeOfSpell(h, Ascending(S)[i])]
      BY <2>4, <2>5, Zenon DEF EpisodesOf
    <2>7. QED
      BY <2>1, <2>6, Zenon
  <1>2. (\A k \in Codes : Shows(k)) => EpisodesAreSpells
    BY Zenon DEF EpisodesAreSpells
  <1>3. QED
    BY <1>1, <1>2, Zenon

\* RetentionKeepsEpisodes, from the invariant.
LEMMA RestIsShown == RecordInv => RetentionKeepsEpisodes
  <1> SUFFICES ASSUME RecordInv, NEW k \in Codes,
                      NEW all, all = build_episodes(RowsOf(k, Written(k)), clock)
               PROVE  \E n \in 0 .. Len(all) :
                         /\ build_episodes(Table(k), clock) = SubSeq(all, n + 1, Len(all))
                         /\ \A i \in 1 .. Len(all) : Protected(all[i], cut) <=> i > n
    BY Zenon DEF RetentionKeepsEpisodes
  <1>1. PICK h : h = hist[k]
    OBVIOUS
  <1>2. WellFormed(h) /\ IsHistory(h) /\ CutAt(k, gone[k], cut) /\ cut \in Int
    BY <1>1 DEF RecordInv, HistoryInv, Swept, WellFormed
  <1>3. PICK L : L = Len(h) /\ L \in Nat
    BY <1>2, LenType
  <1>4. PICK b \in 0 .. L : gone[k] = Written(k) \cap (1 .. b) /\ Cut(h, b, cut)
    BY <1>1, <1>2, <1>3 DEF CutAt
  <1>5. Boundary(h, b) /\ b \in Nat
    BY <1>3, <1>4 DEF Cut
  <1>6. PICK S, T : S = ToldSpells(h) /\ T = Past(h, b)
    OBVIOUS
  <1>7. S \in SUBSET Nat /\ IsFiniteSet(S) /\ all = EpisodesOf(h, S)
    BY <1>1, <1>2, <1>6, FromTheStart
  <1>8. build_episodes(Table(k), clock) = EpisodesOf(h, T)
    BY <1>1, <1>2, <1>4, <1>5, <1>6, TableFrom
  <1>9. T \in SUBSET S /\ \A m \in S : m \in T <=> SpellEnd(h, m) > b
    BY <1>6 DEF Past
  <1>10. ASSUME NEW m \in S
         PROVE  /\ m \in SpellsOf(h) /\ SpellEnd(h, m) \in Nat /\ SpellEnd(h, m) <= L + 1
                /\ Protected(EpisodeOfSpell(h, m), cut) <=> m \in T
    <2>1. m \in ToldSpells(h) /\ m \in SpellsOf(h)
      BY <1>6 DEF ToldSpells
    <2>2. PICK e : e = SpellEnd(h, m)
      OBVIOUS
    <2>3. e \in Nat /\ e <= L + 1 /\ m < e /\ m \in Nat /\ m >= 1
      BY <1>2, <1>3, <2>1, <2>2, SpellFacts
    <2>4. Protected(EpisodeOfSpell(h, m), cut) <=> e > L \/ h[e].ts >= cut
      BY <1>2, <1>3, <2>1, <2>2, EpisodeTimes DEF Kept
    <2>5. m \in T <=> e > b
      BY <1>9, <2>2
    <2>6. CASE e > L
      BY <1>3, <1>4, <2>1, <2>2, <2>3, <2>4, <2>5, <2>6
    <2>7. CASE ~ (e > L)
      <3>1. e \in 1 .. L /\ e <= L
        BY <1>3, <2>3, <2>7
      <3>2. h[e].ts \in Nat
        BY <1>2, <1>3, <3>1, LineTypes
      <3>3. (e <= b => h[e].ts < cut) /\ (b < e => h[e].ts >= cut)
        BY <1>3, <1>4, <2>1, <2>2, <3>1 DEF Cut
      <3>4. QED
        BY <1>2, <1>5, <2>1, <2>2, <2>3, <2>4, <2>5, <2>7, <3>2, <3>3
    <2>8. QED
      BY <2>6, <2>7
  <1>11. \A x \in T, y \in S \ T : y < x
    <2>1. ASSUME NEW x \in T, NEW y \in S \ T
          PROVE  y < x
      <3>1. x \in S /\ y \in S
        BY <1>9
      <3>2. x \in SpellsOf(h) /\ y \in SpellsOf(h)
        BY <1>10, <3>1
      <3>3. SpellEnd(h, y) < SpellEnd(h, x)
        BY <1>5, <1>9, <1>10, <3>1
      <3>4. QED
        BY <1>2, <3>2, <3>3, EndsInOrder
    <2>2. QED
      BY <2>1
  <1>12. PICK s, t, p, q, r : /\ s = Ascending(S) /\ t = Ascending(T)
                              /\ p = Cardinality(S \ T) /\ q = Cardinality(T)
                              /\ r = Cardinality(S)
    OBVIOUS
  <1>13. /\ p \in Nat /\ q \in Nat /\ r = p + q
         /\ \A i \in 1 .. q : t[i] = s[p + i]
         /\ \A i \in 1 .. r : s[i] \in T <=> i > p
    BY <1>7, <1>9, <1>11, <1>12, SortedSuffix
  <1>14. \A i \in 1 .. r : s[i] \in S
    BY <1>7, <1>12, SortedNumbers
  <1>15. all = [i \in 1 .. r |-> EpisodeOfSpell(h, s[i])]
    BY <1>7, <1>12 DEF EpisodesOf
  <1>16. Len(all) = r /\ \A i \in 1 .. r : all[i] = EpisodeOfSpell(h, s[i])
    BY <1>13, <1>15
  <1>17. \A i \in 1 .. r : Protected(all[i], cut) <=> i > p
    <2>1. ASSUME NEW i \in 1 .. r
          PROVE  Protected(all[i], cut) <=> i > p
      <3>1. Protected(EpisodeOfSpell(h, s[i]), cut) <=> s[i] \in T
        BY <1>10, <1>14
      <3>2. Protected(all[i], cut) <=> s[i] \in T
        BY <1>16, <3>1, Zenon
      <3>3. QED
        BY <1>13, <3>2
    <2>2. QED
      BY <2>1
  <1>18. SubSeq(all, p + 1, r) = [i \in 1 .. q |-> all[p + i]]
    <2>1. PICK V : V = {all[i] : i \in 1 .. r}
      OBVIOUS
    <2>2. all \in Seq(V)
      BY <1>13, <1>15, <2>1
    <2>3. SubSeq(all, p + 1, r) = [i \in 1 .. r - (p + 1) + 1 |-> all[(p + 1) + i - 1]]
      BY <1>13, <1>16, <2>2 DEF SubSeq
    <2>4. QED
      BY <1>13, <2>3
  <1>19. EpisodesOf(h, T) = [i \in 1 .. q |-> all[p + i]]
    <2>1. EpisodesOf(h, T) = [i \in 1 .. q |-> EpisodeOfSpell(h, t[i])]
      BY <1>12 DEF EpisodesOf
    <2>2. ASSUME NEW i \in 1 .. q
          PROVE  EpisodeOfSpell(h, t[i]) = all[p + i]
      <3>1. p + i \in 1 .. r
        BY <1>13
      <3>2. QED
        BY <1>13, <1>16, <3>1, Zenon
    <2>3. QED
      BY <2>1, <2>2
  <1>20. p \in 0 .. Len(all)
    BY <1>13, <1>16
  <1>21. QED
    BY <1>8, <1>16, <1>17, <1>18, <1>19, <1>20

\* The episodes of the full table are the spells somebody was told about.
THEOREM EpisodesAreSpellsAlways == RecordsSpec => []EpisodesAreSpells
  <1>1. QED
    BY RecordInvariance, SpellsShown, PTL

\* The sweep preserves episode boundaries.
THEOREM RetentionKeepsEpisodesAlways == RecordsSpec => []RetentionKeepsEpisodes
  <1>1. QED
    BY RecordInvariance, RestIsShown, PTL

-----------------------------------------------------------------------------
(* The share of the window.                                                *)

\* s lists the n things of eps, each once, an ongoing one first if any is.
Relists(s, eps, n) ==
    \E order \in [1 .. n -> 1 .. n] :
        /\ s = [i \in 1 .. n |-> eps[order[i]]]
        /\ \A i, j \in 1 .. n : order[i] = order[j] => i = j
        /\ \A x \in 1 .. n : \E i \in 1 .. n : order[i] = x
        /\ n > 0 => \A y \in 1 .. n : eps[y].ongoing => eps[order[1]].ongoing

\* sorted() of the episodes lists each once, an ongoing one first.
LEMMA NewestFirstIs ==
    ASSUME NEW n \in Nat, NEW eps, DOMAIN eps = 1 .. n,
           \A i \in 1 .. n : eps[i].ongoing \in BOOLEAN /\ eps[i].started \in Nat
    PROVE  Relists(NewestFirst(eps), eps, n)
  <1> DEFINE key(i) == <<eps[i].ongoing, eps[i].started>>
             before(i, j) == \/ key(i)[1] /\ ~key(j)[1]
                             \/ key(i)[1] = key(j)[1] /\ key(i)[2] > key(j)[2]
                             \/ key(i) = key(j) /\ i < j
             number(x) == Cardinality({y \in 1 .. n : before(y, x)})
             order == [m \in 1 .. n |-> CHOOSE x \in 1 .. n : number(x) = m - 1]
  <1>1. PICK S : S = 1 .. n
    OBVIOUS
  <1>2. IsFiniteSet(S) /\ Cardinality(S) = n
    BY <1>1, FS_Interval
  <1>3. NewestFirst(eps) = [i \in 1 .. n |-> eps[order[i]]]
    BY <1>1, <1>2 DEF NewestFirst, InOrder
  <1>4. PICK on : on = [i \in S |-> IF eps[i].ongoing THEN 1 ELSE 0]
    OBVIOUS
  <1>5. PICK at : at = [i \in S |-> eps[i].started]
    OBVIOUS
  <1>6. ASSUME NEW i \in S
        PROVE  /\ i \in Nat /\ at[i] = eps[i].started /\ at[i] \in Nat
               /\ eps[i].ongoing => on[i] = 1
               /\ ~ eps[i].ongoing => on[i] = 0
               /\ eps[i].ongoing = TRUE \/ eps[i].ongoing = FALSE
    BY <1>1, <1>4, <1>5
  <1>7. ASSUME NEW i \in S, NEW j \in S
        PROVE  before(i, j) <=> \/ on[i] > on[j]
                                \/ on[i] = on[j] /\ at[i] > at[j]
                                \/ on[i] = on[j] /\ at[i] = at[j] /\ i < j
    <2>1. /\ key(i)[1] = eps[i].ongoing /\ key(i)[2] = at[i]
          /\ key(j)[1] = eps[j].ongoing /\ key(j)[2] = at[j]
          /\ key(i) = key(j) <=> eps[i].ongoing = eps[j].ongoing /\ at[i] = at[j]
      BY <1>6
    <2>2. \/ eps[i].ongoing = TRUE /\ on[i] = 1
          \/ eps[i].ongoing = FALSE /\ on[i] = 0
      BY <1>6, Zenon
    <2>3. \/ eps[j].ongoing = TRUE /\ on[j] = 1
          \/ eps[j].ongoing = FALSE /\ on[j] = 0
      BY <1>6, Zenon
    <2>4. 1 > 0 /\ ~ (1 > 1) /\ ~ (0 > 0) /\ ~ (0 > 1) /\ 1 # 0
      OBVIOUS
    <2>5. eps[i].ongoing /\ ~ eps[j].ongoing <=> on[i] > on[j]
      BY <2>2, <2>3, <2>4, Zenon
    <2>6. eps[i].ongoing = eps[j].ongoing <=> on[i] = on[j]
      BY <2>2, <2>3, <2>4, Zenon
    <2>7. QED
      BY <2>1, <2>5, <2>6, Zenon
  <1> HIDE DEF before
  <1>8. PICK R : R = {p \in S \X S : before(p[1], p[2])}
    OBVIOUS
  <1>9. \A i, j \in S : <<i, j>> \in R <=> before(i, j)
    BY <1>8
  <1>10. \A i \in S : i \in Nat /\ at[i] \in Nat /\ on[i] \in {0, 1}
    BY <1>6
  <1>11. StrictOrder(R, S)
    BY <1>7, <1>9, <1>10, SMTT(30) DEF StrictOrder
  <1>12. PICK rank : rank = Ranking(S, R)
    OBVIOUS
  <1>13. Numbers(rank, S, R)
    BY <1>2, <1>11, <1>12, RanksCount
  <1>14. ASSUME NEW x \in S
         PROVE  number(x) = rank[x]
    <2>1. {y \in 1 .. n : before(y, x)} = Before(S, R, x)
      BY <1>1, <1>9 DEF Before
    <2>2. QED
      BY <1>12, <2>1 DEF Ranking
  <1> HIDE DEF number
  <1>15. ASSUME NEW m \in 1 .. n
         PROVE  order[m] \in S /\ rank[order[m]] = m - 1
    <2>1. m - 1 \in 0 .. n - 1
      OBVIOUS
    <2>2. \E x \in S : rank[x] = m - 1
      BY <1>2, <1>13, <2>1 DEF Numbers
    <2>3. \E x \in 1 .. n : number(x) = m - 1
      BY <1>1, <1>14, <2>2
    <2>4. order[m] \in 1 .. n /\ number(order[m]) = m - 1
      BY <2>3
    <2>5. QED
      BY <1>1, <1>14, <2>4
  <1>16. order \in [1 .. n -> 1 .. n]
    BY <1>1, <1>15
  <1> HIDE DEF order
  <1>17. \A i, j \in 1 .. n : order[i] = order[j] => i = j
    <2>1. ASSUME NEW i \in 1 .. n, NEW j \in 1 .. n, order[i] = order[j]
          PROVE  i = j
      <3>1. i - 1 = j - 1
        BY <1>15, <2>1
      <3>2. QED
        BY <3>1
    <2>2. QED
      BY <2>1
  <1>18. ASSUME NEW x \in 1 .. n
         PROVE  \E i \in 1 .. n : order[i] = x
    <2>1. PICK m : m = rank[x]
      OBVIOUS
    <2>2. m \in 0 .. n - 1
      BY <1>1, <1>2, <1>13, <2>1 DEF Numbers
    <2>3. PICK i : i = m + 1
      OBVIOUS
    <2>4. i \in 1 .. n /\ i - 1 = m
      BY <2>2, <2>3
    <2>5. order[i] \in S /\ rank[order[i]] = rank[x]
      BY <1>15, <2>1, <2>4
    <2>6. order[i] = x
      BY <1>1, <1>13, <2>5 DEF Numbers
    <2>7. QED
      BY <2>4, <2>6
  <1>19. ASSUME n > 0, NEW y \in 1 .. n, eps[y].ongoing
         PROVE  eps[order[1]].ongoing
    <2>1. SUFFICES ASSUME ~ eps[order[1]].ongoing PROVE FALSE
      OBVIOUS
    <2>2. 1 \in 1 .. n
      BY <1>19
    <2>3. order[1] \in S /\ rank[order[1]] = 0
      BY <1>15, <2>2
    <2>4. <<y, order[1]>> \in R
      <3>1. y \in S /\ order[1] \in S
        BY <1>1, <2>3
      <3>2. on[y] = 1 /\ on[order[1]] = 0
        BY <1>6, <1>19, <2>1, <3>1, Zenon
      <3>3. on[y] > on[order[1]]
        BY <3>2
      <3>4. before(y, order[1])
        BY <1>7, <3>1, <3>3, Zenon
      <3>5. QED
        BY <1>9, <3>1, <3>4, Zenon
    <2>5. rank[y] < rank[order[1]] /\ rank[y] \in 0 .. n - 1
      BY <1>1, <1>2, <1>13, <2>3, <2>4 DEF Numbers
    <2>6. QED
      BY <2>3, <2>5
  <1>20. QED
    BY <1>3, <1>16, <1>17, <1>18, <1>19 DEF Relists

\* The instants of the window that an episode covers.
Covers(ep) ==
    {t \in clock - Window .. clock - 1 : ep.started <= t /\ t < EndOf(ep, clock)}

Timed(ep) == ep.started \in Nat /\ ep.ended \in Nat \cup {None}

\* Overlap counts them, when it is positive.
LEMMA OverlapCounts ==
    ASSUME clock \in Nat, NEW ep, Timed(ep)
    PROVE  /\ IsFiniteSet(Covers(ep)) /\ Overlap(ep, clock, Window) \in Int
           /\ Overlap(ep, clock, Window) <= 0 => Covers(ep) = {}
           /\ Overlap(ep, clock, Window) > 0 =>
                 Cardinality(Covers(ep)) = Overlap(ep, clock, Window)
  <1>1. PICK a, e : a = ep.started /\ e = EndOf(ep, clock)
    OBVIOUS
  <1>2. a \in Nat /\ e \in Nat /\ Window \in Nat
    BY <1>1, NullAssumption, WindowAssumption DEF Timed, EndOf
  <1>3. PICK x : x = Later(a, clock - Window) /\ x \in Int /\ a <= x /\ clock - Window <= x
                 /\ (x = a \/ x = clock - Window)
    BY <1>2 DEF Later
  <1>4. PICK y : y = Sooner(e, clock) /\ y \in Int /\ y <= e /\ y <= clock
                 /\ (y = e \/ y = clock)
    BY <1>2 DEF Sooner
  <1>5. Overlap(ep, clock, Window) = y - x
    BY <1>1, <1>3, <1>4 DEF Overlap
  <1>6. Covers(ep) = x .. y - 1
    <2>1. ASSUME NEW t
          PROVE  t \in Covers(ep) <=> t \in x .. y - 1
      <3>1. t \in Covers(ep) <=> /\ t \in Int /\ clock - Window <= t /\ t <= clock - 1
                                 /\ a <= t /\ t < e
        BY <1>1, <1>2 DEF Covers
      <3>2. QED
        BY <1>2, <1>3, <1>4, <3>1
    <2>2. QED
      BY <2>1
  <1>7. /\ IsFiniteSet(x .. y - 1)
        /\ Cardinality(x .. y - 1) = IF x > y - 1 THEN 0 ELSE (y - 1) - x + 1
    <2>1. PICK z : z = y - 1 /\ z \in Int
      BY <1>4
    <2>2. /\ IsFiniteSet(x .. z)
          /\ Cardinality(x .. z) = IF x > z THEN 0 ELSE z - x + 1
      BY <1>3, <2>1, FS_Interval
    <2>3. QED
      BY <2>1, <2>2
  <1>8. y - x <= 0 => x .. y - 1 = {}
    BY <1>3, <1>4
  <1>9. y - x > 0 => Cardinality(x .. y - 1) = y - x
    BY <1>3, <1>4, <1>7
  <1>10. QED
    BY <1>3, <1>4, <1>5, <1>6, <1>7, <1>8, <1>9

\* The instants that the first m episodes cover.
CoveredBy(s, m) == UNION {Covers(s[i]) : i \in 1 .. m}

\* The tally of episodes that are apart counts each instant once.
LEMMA TallySums ==
    ASSUME clock \in Nat, NEW n \in Nat, NEW s, \A i \in 1 .. n : Timed(s[i]),
           \A i, j \in 1 .. n : i # j => Covers(s[i]) \cap Covers(s[j]) = {},
           NEW w, IsTrace("tally", w, s, 1 .. n, n)
    PROVE  w[n].up = Cardinality(CoveredBy(s, n))
  <1> DEFINE P(m) == /\ IsFiniteSet(CoveredBy(s, m)) /\ w[m].up \in Nat
                     /\ w[m].up = Cardinality(CoveredBy(s, m))
             Bad == {m \in 0 .. n : ~ P(m)}
  <1>1. Bad = {}
    <2> SUFFICES ASSUME Bad # {} PROVE FALSE
      OBVIOUS
    <2>1. Bad \in SUBSET Nat
      OBVIOUS
    <2>2. PICK m \in Bad : \A i \in Bad : m <= i
      BY <2>1, LeastOf
    <2>3. P(0)
      <3>1. CoveredBy(s, 0) = {}
        BY DEF CoveredBy
      <3>2. w[0].up = 0
        BY DEF IsTrace, Begun
      <3>3. IsFiniteSet(CoveredBy(s, 0)) /\ Cardinality(CoveredBy(s, 0)) = 0
        BY <3>1, FS_EmptySet
      <3>4. QED
        BY <3>2, <3>3
    <2>4. m # 0 /\ m \in 0 .. n
      BY <2>3
    <2>5. m \in 1 .. n /\ m - 1 \in 0 .. n /\ m - 1 \notin Bad
      BY <2>2, <2>4
    <2>6. P(m - 1)
      BY <2>5
    <2>7. ~ P(m)
      OBVIOUS
    <2> HIDE DEF Bad
    <2>8. w[m] = Tally(w[m - 1], s[m], Overlap(s[m], clock, Window))
      BY <2>5 DEF IsTrace, Turn
    <2>9. PICK acc, o, A, C : /\ acc = w[m - 1] /\ o = Overlap(s[m], clock, Window)
                              /\ A = CoveredBy(s, m - 1) /\ C = Covers(s[m])
      OBVIOUS
    <2>10. /\ IsFiniteSet(C) /\ o \in Int
           /\ o <= 0 => C = {}
           /\ o > 0 => Cardinality(C) = o
      BY <2>5, <2>9, OverlapCounts
    <2>11. IsFiniteSet(A) /\ acc.up \in Nat /\ acc.up = Cardinality(A)
      BY <2>6, <2>9
    <2>12. CoveredBy(s, m) = A \cup C
      <3>1. \A i : i \in 1 .. m <=> i \in 1 .. m - 1 \/ i = m
        BY <2>5
      <3>2. QED
        BY <2>9, <3>1 DEF CoveredBy
    <2>13. A \cap C = {}
      <3>1. ASSUME NEW i \in 1 .. m - 1
            PROVE  Covers(s[i]) \cap C = {}
        <4>1. i \in 1 .. n /\ i # m
          BY <2>5
        <4>2. QED
          BY <2>5, <2>9, <4>1
      <3>2. QED
        BY <2>9, <3>1 DEF CoveredBy
    <2>14. w[m].up = IF o <= 0 THEN acc.up ELSE acc.up + o
      BY <2>8, <2>9 DEF Tally
    <2>15. CASE o <= 0
      <3>1. A \cup C = A
        BY <2>10, <2>15
      <3>2. QED
        BY <2>7, <2>11, <2>12, <2>14, <2>15, <3>1
    <2>16. CASE ~ (o <= 0)
      <3>1. Cardinality(C) = o /\ o \in Nat
        BY <2>10, <2>16
      <3>2. Cardinality(A \cap C) = 0
        BY <2>13, FS_EmptySet
      <3>3. /\ IsFiniteSet(A \cup C)
            /\ Cardinality(A \cup C) = Cardinality(A) + Cardinality(C) - Cardinality(A \cap C)
        BY <2>10, <2>11, FS_Union
      <3>4. Cardinality(A \cup C) = acc.up + o
        BY <2>11, <3>1, <3>2, <3>3
      <3>5. w[m].up = acc.up + o
        BY <2>14, <2>16
      <3>6. QED
        BY <2>7, <2>11, <2>12, <3>1, <3>3, <3>4, <3>5
    <2>17. QED
      BY <2>15, <2>16
  <1>2. QED
    BY <1>1

\* The episodes left after a boundary are apart in time.
LEMMA EpisodesApart ==
    ASSUME NEW h, WellFormed(h), NEW b, NEW n, n = Cardinality(Past(h, b)),
           NEW eps, eps = EpisodesOf(h, Past(h, b))
    PROVE  /\ n \in Nat /\ DOMAIN eps = 1 .. n
           /\ \A i \in 1 .. n : eps[i].ongoing \in BOOLEAN /\ Timed(eps[i])
           /\ \A i, j \in 1 .. n : i < j => eps[i].ended \in Nat /\ eps[i].ended < eps[j].started
  <1>1. IsHistory(h)
    BY DEF WellFormed
  <1>2. PICK T, t, L : T = Past(h, b) /\ t = Ascending(T) /\ L = Len(h) /\ L \in Nat
    BY <1>1, LenType
  <1>3. T \in SUBSET Nat /\ IsFiniteSet(T) /\ \A m \in T : m \in ToldSpells(h) /\ m \in SpellsOf(h)
    BY <1>1, <1>2, PastType
  <1>4. /\ n \in Nat /\ \A i \in 1 .. n : t[i] \in T
        /\ \A i, j \in 1 .. n : i < j => t[i] < t[j]
    <2>1. n = Cardinality(T)
      BY <1>2
    <2>2. T \in SUBSET Nat /\ IsFiniteSet(T) /\ t = Ascending(T)
      BY <1>2, <1>3
    <2>3. QED
      BY <2>1, <2>2, SortedNumbers
  <1>5. eps = [i \in 1 .. n |-> EpisodeOfSpell(h, t[i])]
    BY <1>2 DEF EpisodesOf
  <1>6. DOMAIN eps = 1 .. n /\ \A i \in 1 .. n : eps[i] = EpisodeOfSpell(h, t[i])
    BY <1>5
  <1>7. ASSUME NEW i \in 1 .. n
        PROVE  eps[i].ongoing \in BOOLEAN /\ Timed(eps[i])
    <2>1. PICK m \in T : m = t[i] /\ eps[i] = EpisodeOfSpell(h, m)
      BY <1>4, <1>6
    <2>2. m \in ToldSpells(h) /\ SpellEnd(h, m) \in Nat
      BY <1>1, <1>3, SpellFacts
    <2>3. EpisodeOfSpell(h, m).ongoing \in BOOLEAN
      BY DEF EpisodeOfSpell
    <2>4. SpellEnd(h, m) <= L \/ SpellEnd(h, m) > L
      BY <1>2, <2>2
    <2>5. /\ EpisodeOfSpell(h, m).started \in Nat
          /\ EpisodeOfSpell(h, m).ended \in Nat \cup {None}
      BY <1>2, <2>2, <2>4, EpisodeTimes
    <2>6. QED
      BY <2>1, <2>3, <2>5 DEF Timed
  <1>8. ASSUME NEW i \in 1 .. n, NEW j \in 1 .. n, i < j
        PROVE  eps[i].ended \in Nat /\ eps[i].ended < eps[j].started
    <2>1. PICK m \in T : m = t[i] /\ eps[i] = EpisodeOfSpell(h, m)
      BY <1>4, <1>6
    <2>2. PICK p \in T : p = t[j] /\ eps[j] = EpisodeOfSpell(h, p)
      BY <1>4, <1>6
    <2>3. m < p
      BY <1>4, <1>8, <2>1, <2>2
    <2>4. /\ m \in ToldSpells(h) /\ p \in ToldSpells(h)
          /\ m \in SpellsOf(h) /\ p \in SpellsOf(h)
      BY <1>3
    <2>5. SpellEnd(h, m) <= L
      <3>1. SpellEnd(h, m) < p
        BY <1>1, <2>3, <2>4, SpellsApart
      <3>2. SpellEnd(h, m) \in Nat /\ p \in 1 .. L
        BY <1>1, <1>2, <2>4, SpellFacts
      <3>3. QED
        BY <1>2, <3>1, <3>2
    <2>6. h[SpellEnd(h, m)].ts < h[Min(ToldIn(h, p))].ts
      BY <1>2, <2>3, <2>4, <2>5, SpellTimes
    <2>7. /\ EpisodeOfSpell(h, m).ended = h[SpellEnd(h, m)].ts
          /\ EpisodeOfSpell(h, m).ended \in Nat
      BY <1>2, <2>4, <2>5, EpisodeTimes
    <2>8. EpisodeOfSpell(h, p).started = h[Min(ToldIn(h, p))].ts
      BY <2>4, EpisodeTimes
    <2>9. QED
      BY <2>1, <2>2, <2>6, <2>7, <2>8
  <1>9. QED
    BY <1>4, <1>6, <1>7, <1>8

\* The tally over the episodes in any order of the list.
LEMMA TallyOfAll ==
    ASSUME clock \in Nat, NEW n \in Nat, NEW eps, DOMAIN eps = 1 .. n,
           \A i \in 1 .. n : Timed(eps[i]),
           \A i, j \in 1 .. n : i < j => eps[i].ended \in Nat /\ eps[i].ended < eps[j].started,
           NEW s, Relists(s, eps, n)
    PROVE  /\ DOMAIN s = 1 .. n
           /\ availability_stats(s, clock, Window).up = Cardinality(CoveredBy(eps, n))
           /\ n > 0 => \A y \in 1 .. n : eps[y].ongoing => s[1].ongoing
           /\ n > 0 => \E y \in 1 .. n : s[1] = eps[y]
  <1>1. PICK order \in [1 .. n -> 1 .. n] :
            /\ s = [i \in 1 .. n |-> eps[order[i]]]
            /\ \A i, j \in 1 .. n : order[i] = order[j] => i = j
            /\ \A x \in 1 .. n : \E i \in 1 .. n : order[i] = x
            /\ n > 0 => \A y \in 1 .. n : eps[y].ongoing => eps[order[1]].ongoing
    BY DEF Relists
  <1>2. DOMAIN s = 1 .. n /\ \A i \in 1 .. n : s[i] = eps[order[i]] /\ order[i] \in 1 .. n
    BY <1>1
  <1>3. \A i \in 1 .. n : Timed(s[i])
    BY <1>2
  <1>4. ASSUME NEW x \in 1 .. n, NEW y \in 1 .. n, x < y
        PROVE  Covers(eps[x]) \cap Covers(eps[y]) = {}
    <2>1. eps[x].ended \in Nat /\ eps[y].started \in Nat /\ eps[x].ended < eps[y].started
      BY <1>4 DEF Timed
    <2>2. EndOf(eps[x], clock) = eps[x].ended
      BY <2>1, NullAssumption DEF EndOf
    <2>3. ASSUME NEW t, t \in Covers(eps[x]), t \in Covers(eps[y])
          PROVE  FALSE
      <3>1. t \in Int /\ t < eps[x].ended /\ eps[y].started <= t
        BY <2>2, <2>3, WindowAssumption DEF Covers
      <3>2. PICK d, e : d = eps[x].ended /\ e = eps[y].started
        OBVIOUS
      <3>3. d \in Nat /\ e \in Nat /\ d < e /\ t < d /\ e <= t /\ t \in Int
        BY <2>1, <3>1, <3>2
      <3>4. QED
        BY <3>3
    <2>4. QED
      BY <2>3
  <1>5. ASSUME NEW i \in 1 .. n, NEW j \in 1 .. n, i # j
        PROVE  Covers(s[i]) \cap Covers(s[j]) = {}
    <2>1. PICK x, y : x = order[i] /\ y = order[j]
      OBVIOUS
    <2>2. x \in 1 .. n /\ y \in 1 .. n /\ x # y /\ s[i] = eps[x] /\ s[j] = eps[y]
      BY <1>1, <1>2, <1>5, <2>1
    <2>3. x < y \/ y < x
      BY <2>2
    <2>4. Covers(eps[x]) \cap Covers(eps[y]) = {}
      BY <1>4, <2>2, <2>3
    <2>5. QED
      BY <2>2, <2>4
  <1>6. PICK w : IsTrace("tally", w, s, 1 .. n, n)
    BY TraceExists
  <1>7. w[n].up = Cardinality(CoveredBy(s, n))
    BY <1>3, <1>5, <1>6, TallySums
  <1>8. CoveredBy(s, n) = CoveredBy(eps, n)
    <2>1. ASSUME NEW i \in 1 .. n
          PROVE  \E x \in 1 .. n : Covers(s[i]) = Covers(eps[x])
      BY <1>2
    <2>2. ASSUME NEW x \in 1 .. n
          PROVE  \E i \in 1 .. n : Covers(eps[x]) = Covers(s[i])
      <3>1. PICK i \in 1 .. n : order[i] = x
        BY <1>1
      <3>2. s[i] = eps[x]
        BY <1>2, <3>1
      <3>3. QED
        BY <3>2
    <2>3. QED
      BY <2>1, <2>2 DEF CoveredBy
  <1>9. availability_stats(s, clock, Window).up = w[n].up
    <2>1. PICK acc : acc = FoldLeft(LAMBDA a, ep : Tally(a, ep, Overlap(ep, clock, Window)),
                                    [up |-> 0, durations |-> <<>>], s)
      OBVIOUS
    <2>2. acc = w[n]
      BY <1>2, <1>6, <2>1, TallyIsTrace
    <2>3. availability_stats(s, clock, Window).up = acc.up
      BY <2>1 DEF availability_stats
    <2>4. QED
      BY <2>2, <2>3
  <1>10. n > 0 => 1 \in 1 .. n
    OBVIOUS
  <1>11. QED
    BY <1>1, <1>2, <1>7, <1>8, <1>9, <1>10

\* UptimeIsTimeBuyable, from the invariant.
LEMMA WindowIsCounted == RecordInv => UptimeIsTimeBuyable
  <1> DEFINE Eps(k) == build_episodes(Table(k), clock)
             Covered(k) == {t \in clock - Window .. clock - 1 :
                               \E ep \in ToSet(Eps(k)) :
                                  ep.started <= t /\ t < EndOf(ep, clock)}
             View(k) == HistoryOf(Table(k), clock, Window)
             Counts(k) == IF Eps(k) = <<>> THEN View(k) = None /\ Covered(k) = {}
                          ELSE /\ View(k).stats.up = Cardinality(Covered(k))
                               /\ View(k).episodes[1].ongoing <=>
                                     \E ep \in ToSet(Eps(k)) : ep.ongoing
  <1>1. ASSUME RecordInv, NEW k \in Codes
        PROVE  Counts(k)
    <2>1. PICK h : h = hist[k]
      OBVIOUS
    <2>2. WellFormed(h) /\ IsHistory(h) /\ CutAt(k, gone[k], cut) /\ clock \in Nat
      BY <1>1, <2>1 DEF RecordInv, HistoryInv, Swept, WellFormed
    <2>3. PICK b \in 0 .. Len(h) : gone[k] = Written(k) \cap (1 .. b) /\ Cut(h, b, cut)
      BY <2>1, <2>2 DEF CutAt
    <2>4. Boundary(h, b)
      BY <2>3 DEF Cut
    <2>5. PICK eps, n : eps = EpisodesOf(h, Past(h, b)) /\ n = Cardinality(Past(h, b))
      OBVIOUS
    <2>6. Eps(k) = eps
      BY <2>1, <2>2, <2>3, <2>4, <2>5, TableFrom
    <2>7. /\ n \in Nat /\ DOMAIN eps = 1 .. n
          /\ \A i \in 1 .. n : eps[i].ongoing \in BOOLEAN /\ Timed(eps[i])
          /\ \A i, j \in 1 .. n : i < j => eps[i].ended \in Nat /\ eps[i].ended < eps[j].started
      BY <2>2, <2>5, EpisodesApart
    <2>8. PICK s : s = NewestFirst(eps)
      OBVIOUS
    <2>9. Relists(s, eps, n)
      <3>1. \A i \in 1 .. n : eps[i].ongoing \in BOOLEAN /\ eps[i].started \in Nat
        BY <2>7 DEF Timed
      <3>2. QED
        BY <2>7, <2>8, <3>1, NewestFirstIs
    <2>10. /\ DOMAIN s = 1 .. n
           /\ availability_stats(s, clock, Window).up = Cardinality(CoveredBy(eps, n))
           /\ n > 0 => \A y \in 1 .. n : eps[y].ongoing => s[1].ongoing
           /\ n > 0 => \E y \in 1 .. n : s[1] = eps[y]
      BY <2>2, <2>7, <2>9, TallyOfAll, SMTT(30)
    <2>11. \A ep : ep \in ToSet(eps) <=> \E i \in 1 .. n : ep = eps[i]
      BY <2>7 DEF ToSet
    <2>12. Covered(k) = CoveredBy(eps, n)
      <3>1. Covered(k) = {t \in clock - Window .. clock - 1 :
                             \E i \in 1 .. n : eps[i].started <= t /\ t < EndOf(eps[i], clock)}
        BY <2>6, <2>11
      <3>2. QED
        BY <3>1 DEF CoveredBy, Covers
    <2>13. View(k) = IF s = <<>> THEN None
                     ELSE [count |-> Len(s),
                           buyable |-> MeanOf([i \in DOMAIN Completed(s) |->
                                                  Completed(s)[i].buyable]),
                           lead |-> MeanOf([i \in DOMAIN Led(s) |-> Led(s)[i].lead]),
                           stats |-> availability_stats(s, clock, Window),
                           episodes |-> s]
      BY <2>6, <2>8, Zenon DEF HistoryOf
    <2>14. CASE n = 0
      <3>1. eps = <<>> /\ s = <<>>
        <4>1. 1 .. n = {}
          BY <2>14
        <4>2. eps = [i \in 1 .. n |-> eps[i]] /\ s = [i \in 1 .. n |-> s[i]]
          <5>1. eps = [i \in 1 .. n |-> EpisodeOfSpell(h, Ascending(Past(h, b))[i])]
            BY <2>5 DEF EpisodesOf
          <5>2. \E order : s = [i \in 1 .. n |-> eps[order[i]]]
            BY <2>9 DEF Relists
          <5>3. QED
            BY <5>1, <5>2
        <4>3. QED
          BY <4>1, <4>2
      <3>2. Covered(k) = {}
        BY <2>12, <2>14 DEF CoveredBy
      <3>3. View(k) = None
        BY <2>13, <3>1, Zenon
      <3>4. QED
        BY <2>6, <3>1, <3>2, <3>3, Zenon
    <2>15. CASE n # 0
      <3>1. 1 \in 1 .. n /\ n > 0
        BY <2>7, <2>15
      <3>2. eps # <<>> /\ s # <<>>
        BY <2>7, <2>10, <3>1
      <3>3. PICK stats : stats = availability_stats(s, clock, Window)
        OBVIOUS
      <3>4. View(k).stats = stats /\ View(k).episodes = s
        BY <2>13, <3>2, <3>3
      <3>5. View(k).stats.up = Cardinality(Covered(k))
        BY <2>10, <2>12, <3>3, <3>4, Zenon
      <3>6. View(k).episodes[1].ongoing <=> \E ep \in ToSet(Eps(k)) : ep.ongoing
        BY <2>6, <2>10, <2>11, <3>1, <3>4
      <3>7. QED
        BY <2>6, <3>2, <3>5, <3>6, Zenon
    <2>16. QED
      BY <2>14, <2>15
  <1>2. (\A k \in Codes : Counts(k)) => UptimeIsTimeBuyable
    BY Zenon DEF UptimeIsTimeBuyable
  <1>3. QED
    BY <1>1, <1>2, Zenon

\* uptime_pct counts each instant of the window once.
THEOREM UptimeIsTimeBuyableAlways == RecordsSpec => []UptimeIsTimeBuyable
  <1>1. QED
    BY RecordInvariance, WindowIsCounted, PTL
=============================================================================

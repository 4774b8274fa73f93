---------------------------- MODULE StockLedger ----------------------------
(***************************************************************************)
(* What the stock side promises, with no check, lock, push or failure in   *)
(* it: each product has a history, a sequence of settled moves, and the    *)
(* product row shows what the history says and nothing else.  Poller is    *)
(* shown to implement it (ImplementsLedger).                               *)
(*                                                                         *)
(* A line of the history is a move to another phase.  It has the time the  *)
(* move was seen (at) and the time it was written (ts), which may be much  *)
(* later; all the moves of one check share both and appear together.       *)
(* Availability runs from the time it was seen, and the `oos' line that    *)
(* closes a spell carries the length of that.                              *)
(***************************************************************************)
EXTENDS Naturals, Sequences

CONSTANTS Codes,   \* the products of one watch
          None     \* no time: out of stock, or no spell was closed

VARIABLES clock,   \* the time of day
          hist,    \* the history of each product
          row      \* what the product row shows

ledgerVars == <<clock, hist, row>>

-----------------------------------------------------------------------------
StockPhases == {"oos", "early", "public"}

\* The m-th line opens a spell of availability that is still running.
Running(h, m) ==
    /\ m > 1 => h[m - 1].phase = "oos"
    /\ \A n \in m .. Len(h) : h[n].phase # "oos"

OpenSince(h) == h[CHOOSE m \in 1 .. Len(h) : Running(h, m)].at

Shown(h) ==
    IF h = <<>> THEN [here |-> FALSE, phase |-> "oos", since |-> None]
    ELSE LET phase == h[Len(h)].phase
         IN  [here |-> TRUE, phase |-> phase,
              since |-> IF phase = "oos" THEN None ELSE OpenSince(h)]

KindOf(phase) ==
    CASE phase = "oos" -> "oos"
      [] phase = "early" -> "early_access"
      [] phase = "public" -> "public"

\* The first line of a product: its insertion, silent on a first poll, told
\* as a new product later, and out of stock when nobody could be told.
FirstLines(t, u, blank) ==
    {[kind |-> "new_product", phase |-> p, at |-> t, ts |-> u, secs |-> None] :
        p \in StockPhases}
    \cup {[kind |-> "unannounced", phase |-> "oos", at |-> t, ts |-> u, secs |-> None]}
    \cup {[kind |-> "baseline", phase |-> p, at |-> t, ts |-> u, secs |-> None] :
             p \in {q \in StockPhases : blank}}

\* Any later line: a move to another phase.
MoveLines(h, t, u) ==
    {[kind |-> KindOf(p), phase |-> p, at |-> t, ts |-> u,
      secs |-> IF p = "oos" THEN t - OpenSince(h) ELSE None] :
        p \in StockPhases \ {Shown(h).phase}}

\* What may be seen at time t of a product and written at time u.
Lines(h, t, u, blank) ==
    IF h = <<>> THEN FirstLines(t, u, blank) ELSE MoveLines(h, t, u)

-----------------------------------------------------------------------------
LedgerInit ==
    /\ clock = 0
    /\ hist = [k \in Codes |-> <<>>]
    /\ row = [k \in Codes |-> Shown(<<>>)]

\* One check settles now what it saw of any of the products, and saw it after
\* everything settled before was written.
Settle ==
    \E t \in 1 .. clock :
        /\ \A k \in Codes : \A n \in 1 .. Len(hist[k]) : hist[k][n].ts < t
        /\ \A k \in Codes :
              \/ hist'[k] = hist[k]
              \/ \E line \in Lines(hist[k], t, clock, \A j \in Codes : hist[j] = <<>>) :
                    hist'[k] = Append(hist[k], line)
        /\ DOMAIN hist' = Codes
        /\ row' = [k \in Codes |-> Shown(hist'[k])]
        /\ UNCHANGED clock

\* The watch is deleted: all of it goes at once.
Forget ==
    /\ hist' = [k \in Codes |-> <<>>]
    /\ row' = [k \in Codes |-> Shown(<<>>)]
    /\ UNCHANGED clock

Tick == clock' = clock + 1 /\ UNCHANGED <<hist, row>>

LedgerNext == Settle \/ Forget \/ Tick

LedgerSpec == LedgerInit /\ [][LedgerNext]_ledgerVars
=============================================================================

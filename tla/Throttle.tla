------------------------------ MODULE Throttle ------------------------------
(***************************************************************************)
(* LoginThrottle (api/login_throttle.py) without its clock: what each      *)
(* method makes of the table of failed logins.  A key is a folded          *)
(* username; time starts at 1 and an entry that was never locked has       *)
(* until = 0.                                                              *)
(***************************************************************************)
EXTENDS Integers, FiniteSets, Functions

CONSTANTS MaxFailures, LockoutSeconds, WindowSeconds, MaxEntries

ASSUME ThrottleAssumption ==
    /\ MaxFailures \in Nat \ {0, 1} /\ MaxEntries \in Nat \ {0}
    /\ WindowSeconds \in Nat \ {0} /\ LockoutSeconds \in Nat
    /\ LockoutSeconds >= WindowSeconds

Entry(failures, first) == [failures |-> failures, first |-> first, until |-> 0]

Without(entries, keys) == Restrict(entries, DOMAIN entries \ keys)

IsLocked(entry, now) == entry.until > now

seconds_until_unlocked(entries, key, now) ==
    IF key \in DOMAIN entries /\ IsLocked(entries[key], now)
    THEN entries[key].until - now ELSE 0

\* seconds_until_unlocked drops an entry whose lock has run out.
Looked(entries, key, now) ==
    IF key \in DOMAIN entries /\ entries[key].until \in 1 .. now
    THEN Without(entries, {key}) ELSE entries

Pruned(entries, now) ==
    Without(entries, {k \in DOMAIN entries :
                         /\ ~IsLocked(entries[k], now)
                         /\ now - entries[k].first > WindowSeconds})

Oldest(entries, keys) ==
    {k \in keys : \A j \in keys : entries[k].first <= entries[j].first}

\* mutant: the oldest entry goes, locked or not
VictimsByAge(entries, now) == Oldest(entries, DOMAIN entries)

\* The oldest unlocked entry; a locked one only when all are.
Victims(entries, now) ==
    LET unlocked == {k \in DOMAIN entries : ~IsLocked(entries[k], now)}
    IN  Oldest(entries, IF unlocked = {} THEN DOMAIN entries ELSE unlocked)

\* Tables with room for one more key.  One is over the limit at most.
Evicted(entries, now) ==
    IF Cardinality(DOMAIN entries) < MaxEntries THEN {entries}
    ELSE {Without(entries, {v}) : v \in Victims(entries, now)}

\* mutant: one failure too many
CountedLate(entry, now) ==
    LET counted == IF now - entry.first > WindowSeconds
                   THEN Entry(1, now) ELSE [entry EXCEPT !.failures = @ + 1]
    IN  IF counted.failures > MaxFailures
        THEN [counted EXCEPT !.until = now + LockoutSeconds] ELSE counted

\* An entry after one more failure; the window starts with its first one.
Counted(entry, now) ==
    LET counted == IF now - entry.first > WindowSeconds
                   THEN Entry(1, now) ELSE [entry EXCEPT !.failures = @ + 1]
    IN  IF counted.failures >= MaxFailures
        THEN [counted EXCEPT !.until = now + LockoutSeconds] ELSE counted

With(entries, key, entry) ==
    [k \in DOMAIN entries \cup {key} |-> IF k = key THEN entry ELSE entries[k]]

\* The tables record_failure may leave.
record_failure(entries, key, now) ==
    LET kept == Pruned(entries, now)
    IN  IF key \notin DOMAIN kept
        THEN {With(e, key, Counted(Entry(0, now), now)) : e \in Evicted(kept, now)}
        ELSE IF IsLocked(kept[key], now) THEN {kept}
        ELSE {With(kept, key, Counted(kept[key], now))}

reset(entries, key) == Without(entries, {key})
=============================================================================

------------------------------ MODULE Notices ------------------------------
(***************************************************************************)
(* The notices the scheduler sends of its own accord, over the rows of     *)
(* OfferRows: the digest (services/digest.py) and the heartbeat            *)
(* (services/heartbeat.py), the alert of skipped plugins at a start        *)
(* (services/plugin_alert.py), each through gotify.send with its retries.  *)
(*                                                                         *)
(* A unit of the clock is half a day, so digest_hour is 0 or 1.           *)
(* A job reads, then pushes in a thread, then writes its marker; the       *)
(* process may die and the write may find the database locked in between.  *)
(* The clock stands still meanwhile: a send takes seconds.  Of the         *)
(* server's answers "lost" is a message it took and whose reply was lost.  *)
(*                                                                         *)
(* The digest counts a change in the block of its product's variant, and   *)
(* a variant has a block only while an offer of it is on sale at a price   *)
(* and the watch is enabled.  A disabled watch can still be checked by     *)
(* hand.                                                                   *)
(*                                                                         *)
(* shown, leftOut, sentAt, copies, slips and edits are history variables.  *)
(***************************************************************************)
EXTENDS OfferRows

CONSTANTS Retries,       \* gotify_send_retries
          BeatHours,     \* heartbeat_hours, in clock units; 0 is off
          Week,          \* the days of a week
          MaxSlips,      \* bound: sends of a day whose marker is not written
          MaxEdits       \* bound: saves of the settings page or of the watch

ASSUME NoticesAssumption ==
    /\ Retries \in Nat \ {0} /\ Week \in Nat \ {0}
    /\ BeatHours \in Nat /\ MaxSlips \in Nat /\ MaxEdits \in Nat

VARIABLES
    cadence,      \* digest_cadence
    hour,         \* digest_hour, as the half of the day
    configured,   \* a Gotify url and token are set
    enabled,      \* the watch's switch
    digestSent,   \* digest_last_sent, as a day; None before the first
    beatSent,     \* heartbeat_last_sent
    job,          \* the send in progress, or NoJob
    shown,        \* the moves some digest that was saved has shown
    leftOut,      \* those it could not: nothing on sale, or the watch disabled
    sentAt,       \* when digests were saved
    copies,       \* digests of today the server took
    slips,        \* those of them whose marker was not written
    edits         \* saves of the settings page or of the watch

settings == <<cadence, hour, configured, enabled, edits>>
history == <<shown, leftOut, sentAt, copies, slips>>
noticeVars == <<offerVars, settings, digestSent, beatSent, job, history>>

-----------------------------------------------------------------------------
NoJob == [kind |-> "none", server |-> TRUE, tries |-> 0, took |-> FALSE,
          ok |-> FALSE, body |-> {}, left |-> {}]

NewJob(kind, body, left) ==
    [NoJob EXCEPT !.kind = kind, !.server = configured, !.body = body, !.left = left]

Window == IF cadence = "weekly" THEN 2 * Week ELSE 2

Table == {rows[i] : i \in Ids}

\* The variants with a block in the digest: those of which an offer is priced.
Blocks ==
    {g.variant : g \in {h \in ToSet(group_offers(Table, None, None)) :
                           \E n \in DOMAIN h.offers : h.offers[n].price # None}}

InBlock(c) == enabled /\ has_variants(Table) /\ rows[c.product].variant \in Blocks

\* mutant: a change at the start of the window is left out
ReportSince(since) == {c \in recent_changes(changes, Ids, since + 1) : InBlock(c)}

\* What a digest counts of the changes since a time; those of products without
\* variants are not listed.
Report(since) == {c \in recent_changes(changes, Ids, since) : InBlock(c)}

\* Nothing of a change's variant can be bought at a known price, or the watch
\* is off: what a digest does not show by design.
OffSale(c) ==
    ~enabled \/ ~\E p \in Table : /\ p.variant = rows[c.product].variant
                                  /\ p.stock /\ p.price # None

Move(c) == [ts |-> c.ts, field |-> c.field, old |-> c.old, new |-> c.new]

\* mutant: the marker is forgotten once the digest hour has come
DigestDueByHour ==
    /\ cadence # "off"
    /\ clock % 2 >= hour
    /\ cadence = "weekly" => Day(clock) % Week = 0
    /\ Ids # {}

\* digest_tick's early returns; Mondays are the days divisible by Week.
DigestDue ==
    /\ cadence # "off"
    /\ clock % 2 >= hour
    /\ cadence = "weekly" => Day(clock) % Week = 0
    /\ digestSent # None => digestSent < Day(clock)
    /\ Ids # {}

BeatDue ==
    /\ BeatHours > 0
    /\ beatSent # None => clock - beatSent >= BeatHours

NoticeInit ==
    /\ OfferInit
    /\ cadence \in {"off", "daily", "weekly"} /\ hour \in 0 .. 1 /\ configured = TRUE
    /\ enabled = TRUE /\ edits = 0
    /\ digestSent = None /\ beatSent = None
    /\ job = NoJob
    /\ shown = {} /\ leftOut = {} /\ sentAt = {} /\ copies = 0 /\ slips = 0

Starts(kind, body, left) ==
    /\ job = NoJob
    /\ job' = NewJob(kind, body, left)
    /\ UNCHANGED <<offerVars, settings, digestSent, beatSent, history>>

DigestStarts ==
    /\ DigestDue /\ slips < MaxSlips
    /\ Starts("digest", Report(clock - Window), {c \in changes : OffSale(c)})

BeatStarts == BeatDue /\ Starts("heartbeat", {}, {})

-----------------------------------------------------------------------------
(* gotify.send.                                                            *)

Answers == {"2xx", "lost", "4xx", "5xx", "refused"}

Sending == job # NoJob /\ ~job.ok

\* mutant: an answer is an answer
Acknowledges(answer) == answer \in {"2xx", "4xx"}

Acknowledged(answer) == answer = "2xx"

\* A client error is not tried again, anything else up to Retries times.
GivesUp(answer) == answer = "4xx" \/ job.tries + 1 = Retries

Attempt(answer) ==
    /\ Sending /\ job.server
    /\ LET took == answer \in {"2xx", "lost"}
       IN  /\ copies' = IF took /\ job.kind = "digest" THEN copies + 1 ELSE copies
           /\ slips' = IF job.kind # "digest" THEN slips
                       ELSE slips + (IF answer = "lost" THEN 1 ELSE 0)
           /\ job' = IF ~Acknowledged(answer) /\ GivesUp(answer) THEN NoJob
                     ELSE [job EXCEPT !.tries = @ + 1, !.took = @ \/ took,
                                      !.ok = Acknowledged(answer)]
    /\ UNCHANGED <<offerVars, settings, digestSent, beatSent, shown, leftOut, sentAt>>

\* No server to send to counts as sent.
Unconfigured ==
    /\ Sending /\ ~job.server
    /\ job' = [job EXCEPT !.ok = TRUE]
    /\ UNCHANGED <<offerVars, settings, digestSent, beatSent, history>>

\* set_value and the commit; the plugin alert has nothing to write.
Saves ==
    /\ job.ok
    /\ digestSent' = IF job.kind = "digest" THEN Day(clock) ELSE digestSent
    /\ beatSent' = IF job.kind = "heartbeat" THEN clock ELSE beatSent
    /\ IF job.kind = "digest" /\ job.took
       THEN /\ shown' = shown \cup {Move(c) : c \in job.body}
            /\ leftOut' = leftOut \cup {Move(c) : c \in job.left}
            /\ sentAt' = sentAt \cup {clock}
       ELSE UNCHANGED <<shown, leftOut, sentAt>>
    /\ job' = NoJob
    /\ UNCHANGED <<offerVars, settings, copies, slips>>

\* "database is locked", or the process dies.
Loses ==
    /\ job # NoJob
    /\ job' = NoJob
    /\ slips' = IF job.ok /\ job.kind = "digest" /\ job.took THEN slips + 1 ELSE slips
    /\ UNCHANGED <<offerVars, settings, digestSent, beatSent, shown, leftOut, sentAt, copies>>

-----------------------------------------------------------------------------
\* lifespan: a start tells of the plugins that were skipped.
PluginAlert == Starts("plugins", {}, {})

NewDay == Day(clock') # Day(clock)

\* The clock moves on, with a poll or without.
Advances ==
    /\ job = NoJob
    /\ \/ \E listed \in Listings : Poll(listed)
       \/ clock < MaxClock /\ clock' = clock + 1 /\ UNCHANGED tables
    /\ copies' = IF NewDay THEN 0 ELSE copies
    /\ slips' = IF NewDay THEN 0 ELSE slips
    /\ UNCHANGED <<settings, digestSent, beatSent, job, shown, leftOut, sentAt>>

\* The command runs beside the service, in a process of its own.
Merges ==
    /\ MergeDuplicates
    /\ UNCHANGED <<settings, digestSent, beatSent, job, history>>

\* PUT /settings
PutSettings ==
    /\ cadence' \in {"off", "daily", "weekly"} /\ hour' \in 0 .. 1
    /\ configured' \in BOOLEAN
    /\ edits < MaxEdits /\ edits' = edits + 1
    /\ UNCHANGED <<offerVars, enabled, digestSent, beatSent, job, history>>

\* PUT /watches/{id}
PutWatch ==
    /\ enabled' = ~enabled
    /\ edits < MaxEdits /\ edits' = edits + 1
    /\ UNCHANGED <<offerVars, cadence, hour, configured, digestSent, beatSent, job, history>>

NoticeNext ==
    \/ DigestStarts \/ BeatStarts \/ PluginAlert
    \/ (\E answer \in Answers : Attempt(answer)) \/ Unconfigured
    \/ Saves \/ Loses
    \/ Advances \/ Merges \/ PutSettings \/ PutWatch

NoticeSpec == NoticeInit /\ [][NoticeNext]_noticeVars

-----------------------------------------------------------------------------
(* Properties.                                                             *)

\* A digest is sent once a day, however often the job runs, whatever the
\* settings do, and save for the pushes nobody could know had been taken.
OneDigestADay == copies <= 1 + slips

\* "The marker only advances when the push is delivered" (digest.py:7), and
\* so for the heartbeat, through all of a send's retries.
MarkerIsEarned ==
    [][digestSent' # digestSent \/ beatSent' # beatSent =>
          job.took \/ ~job.server]_noticeVars

\* Each recorded move is in some digest, as long as they follow each other
\* within a day: also one recorded between the reading of a digest and the
\* next poll, and one of an offer that can no longer be bought while another
\* of its variant can.  Left out is only what a digest found of variants with
\* nothing on sale at a known price, or of a watch that was off.
MovesAreDigested ==
    \A t \in sentAt, u \in sentAt :
        t < u /\ u - t <= 2 =>
            \A c \in changes : c.ts \in t .. u - 1 => Move(c) \in shown \cup leftOut
=============================================================================

------------------------------- MODULE Access -------------------------------
(***************************************************************************)
(* The user, the sessions and the API tokens: POST /setup, /auth/login and *)
(* /auth/logout, the token routes, and the middleware in front of them     *)
(* (api/auth_middleware.py, api/csrf.py).                                  *)
(*                                                                         *)
(* A client is a browser, or for UseStarts a machine with tokens, that     *)
(* waits for one answer before it asks again.  A request is cut at its     *)
(* awaits, so two requests interleave between what one reads and writes.   *)
(* Requests that change nothing (a 401, 403, 409 or 429 on sight) are left *)
(* out.  A nonce is fresh, so a number.  Passwords are right or wrong.     *)
(*                                                                         *)
(* sent, tries and ended are history variables.                            *)
(***************************************************************************)
EXTENDS Throttle, Sequences

CONSTANTS
    None,
    Clients,
    Names,           \* the usernames that are typed
    Key,             \* the key each folds to
    Owner,           \* the user's, in an installation that is in use
    Slots,           \* ARGON2_CONCURRENCY
    SessionAge,      \* session_max_age_seconds
    TokenNames,
    MaxTokens,       \* bound: rows of api_token
    MaxClock,        \* bound: the clock stops here
    MaxRequests,     \* bound: requests of a behaviour
    Mixes            \* bound: the kinds of request a behaviour may contain

ASSUME AccessAssumption ==
    /\ Key \in [Names -> Names] /\ Owner \in Names /\ Slots \in Nat \ {0}
    /\ SessionAge \in Nat /\ MaxClock \in Nat
    /\ MaxRequests \in Nat /\ MaxTokens \in Nat
    /\ None \notin Nat

VARIABLES
    clock,
    entries,     \* login_throttle
    users,       \* the rows [id, name, nonce] of the table user
    tokens,      \* the rows [name, expires, revoked, used] of api_token, by id
    req,         \* what each client waits for
    queue,       \* requests waiting for an argon2 slot
    hashing,     \* those that hold one
    cookie,      \* the session cookie of each browser: [user, nonce, at]
    csrf,        \* the browsers with a CSRF cookie
    mix, sent,   \* the kinds of request, and how many there were
    tries,       \* by key: when passwords were tried since the last good one
    ended        \* the nonces given out before a sign-out

bounds == <<mix, sent>>
slots == <<queue, hashing>>
browser == <<cookie, csrf>>
vars == <<clock, entries, users, tokens, req, slots, browser, bounds, tries, ended>>

-----------------------------------------------------------------------------
Idle == [stage |-> "idle"]

Takes(c, kind) ==
    /\ req[c] = Idle
    /\ kind \in mix /\ sent < MaxRequests
    /\ sent' = sent + 1 /\ UNCHANGED mix

Waits(c, request) == req' = [req EXCEPT ![c] = request]

Answered(c) == req' = [req EXCEPT ![c] = Idle]

\* A mutating request echoes the cookie the browser has.
PassesCsrf(c) == c \in csrf

\* _read_session and _session_matches.
Accepted(k) ==
    /\ k # None
    /\ clock - k.at <= SessionAge
    /\ \E u \in users : u.id = k.user /\ u.nonce = k.nonce

Authed(c) == Accepted(cookie[c])

\* Before the setup, or in use with everybody signed in.
AccessInit ==
    /\ clock = 1
    /\ entries = <<>> /\ tokens = <<>>
    /\ req = [c \in Clients |-> Idle]
    /\ queue = <<>> /\ hashing = {}
    /\ \/ users = {} /\ cookie = [c \in Clients |-> None] /\ csrf = {}
       \/ /\ users = {[id |-> 1, name |-> Owner, nonce |-> 0]}
          /\ cookie = [c \in Clients |-> [user |-> 1, nonce |-> 0, at |-> 1]]
          /\ csrf = Clients
    /\ mix \in Mixes /\ sent = 0
    /\ tries = [k \in Names |-> <<>>] /\ ended = {}

-----------------------------------------------------------------------------
(* The page.                                                               *)

\* Any safe request; the client makes one when it has no CSRF cookie.
Visit(c) ==
    /\ req[c] = Idle /\ ~PassesCsrf(c)
    /\ csrf' = csrf \cup {c}
    /\ UNCHANGED <<clock, entries, users, tokens, req, slots, cookie, bounds, tries, ended>>

-----------------------------------------------------------------------------
(* Login and setup, which hash a password in one of a few slots.           *)

\* A key that is evicted or signs in starts anew.
Tried(key, after) ==
    [k \in Names |->
        IF k = key THEN Append(tries[k], clock)
        ELSE IF k \in DOMAIN Pruned(Looked(entries, key, clock), clock) \ DOMAIN after
             THEN <<>> ELSE tries[k]]

\* Checked against the throttle, then counted as a failure at once.
LoginStarts(c, name) ==
    /\ Takes(c, "login") /\ PassesCsrf(c)
    /\ seconds_until_unlocked(entries, Key[name], clock) = 0
    /\ entries' \in record_failure(Looked(entries, Key[name], clock), Key[name], clock)
    /\ tries' = Tried(Key[name], entries')
    /\ Waits(c, [stage |-> "looking", name |-> name])
    /\ UNCHANGED <<clock, users, tokens, slots, browser, ended>>

Queues(c) == queue' = Append(queue, c)

\* find_user_by_username: the password is good or not; for an unknown name it
\* is not, and waits for a slot all the same.
LoginLooks(c) ==
    /\ req[c].stage = "looking"
    /\ LET found == {u \in users : u.name = req[c].name}
           request(u, good) == [stage |-> "hashing", kind |-> "login",
                                name |-> req[c].name, good |-> good, user |-> u]
       IN  \E answer \in {request(u, TRUE) : u \in found} \cup {request(None, FALSE)} :
              Waits(c, answer)
    /\ Queues(c)
    /\ UNCHANGED <<clock, entries, users, tokens, hashing, browser, bounds, tries, ended>>

\* A setup that finds no user yet.
SetupStarts(c, name) ==
    /\ Takes(c, "setup") /\ PassesCsrf(c)
    /\ users = {}
    /\ Waits(c, [stage |-> "hashing", kind |-> "setup", name |-> name])
    /\ Queues(c)
    /\ UNCHANGED <<clock, entries, users, tokens, hashing, browser, tries, ended>>

\* The semaphore wakes its waiters in turn.
Acquire ==
    /\ queue # <<>> /\ Cardinality(hashing) < Slots
    /\ hashing' = hashing \cup {Head(queue)} /\ queue' = Tail(queue)
    /\ UNCHANGED <<clock, entries, users, tokens, req, browser, bounds, tries, ended>>

\* mutant: a wrong password keeps its slot
ReleasedIfGood(c) ==
    IF req[c].kind = "login" /\ ~req[c].good THEN hashing ELSE hashing \ {c}

Released(c) == hashing \ {c}

Hashes(c, kind) ==
    c \in hashing /\ req[c].stage = "hashing" /\ req[c].kind = kind

\* A wrong password is a 401: the failure is counted already.
LoginFails(c) ==
    /\ Hashes(c, "login") /\ ~req[c].good
    /\ hashing' = Released(c) /\ Answered(c)
    /\ UNCHANGED <<clock, entries, users, tokens, queue, browser, bounds, tries, ended>>

\* The cookie carries the nonce of the row as it was read.
LoginSucceeds(c) ==
    /\ Hashes(c, "login") /\ req[c].good
    /\ hashing' = Released(c) /\ Answered(c)
    /\ entries' = reset(entries, Key[req[c].name])
    /\ tries' = [tries EXCEPT ![Key[req[c].name]] = <<>>]
    /\ cookie' = [cookie EXCEPT ![c] = [user |-> req[c].user.id,
                                        nonce |-> req[c].user.nonce, at |-> clock]]
    /\ UNCHANGED <<clock, users, tokens, queue, csrf, bounds, ended>>

\* mutant: only the username is unique
NameIsFree(name) == \A u \in users : u.name # name

\* The column singleton is 1 in every row, and unique.
InsertAllowed(name) == users = {}

\* The loser of a race gets the 409 of a setup that came late.
SetupCommits(c) ==
    /\ Hashes(c, "setup")
    /\ hashing' = Released(c) /\ Answered(c)
    /\ users' = IF InsertAllowed(req[c].name)
                THEN users \cup {[id |-> Cardinality(users) + 1,
                                  name |-> req[c].name, nonce |-> 0]}
                ELSE users
    /\ UNCHANGED <<clock, entries, tokens, queue, browser, bounds, tries, ended>>

-----------------------------------------------------------------------------
(* Logout.                                                                 *)

LogoutStarts(c) ==
    /\ Takes(c, "logout") /\ PassesCsrf(c) /\ Authed(c)
    /\ Waits(c, [stage |-> "leaving", user |-> cookie[c].user])
    /\ UNCHANGED <<clock, entries, users, tokens, slots, browser, tries, ended>>

\* mutant: only this browser is signed out
NonceKept(u) == u

\* The nonces that cookies carry, and those that logins under way have read.
GivenOut ==
    {cookie[d].nonce : d \in {e \in Clients : cookie[e] # None}}
    \cup {req[d].user.nonce : d \in {e \in Clients : /\ req[e].stage = "hashing"
                                                    /\ req[e].kind = "login"
                                                    /\ req[e].good}}

NonceRotated(u) == [u EXCEPT !.nonce = @ + 1]

LogoutCommits(c) ==
    /\ req[c].stage = "leaving"
    /\ users' = {IF u.id = req[c].user THEN NonceRotated(u) ELSE u : u \in users}
    /\ ended' = ended \cup GivenOut
    /\ cookie' = [cookie EXCEPT ![c] = None]
    /\ Answered(c)
    /\ UNCHANGED <<clock, entries, tokens, slots, csrf, bounds, tries>>

-----------------------------------------------------------------------------
(* API tokens: managed with a session, used without one.                   *)

Active(t) == t.revoked = None /\ (t.expires # None => t.expires > clock)

\* create_token's check: revoked tokens do not hold their names.
NameTaken(name) ==
    \E i \in DOMAIN tokens : tokens[i].name = name /\ tokens[i].revoked = None

CreateStarts(c, name, expires) ==
    /\ Takes(c, "create") /\ PassesCsrf(c) /\ Authed(c)
    /\ Len(tokens) < MaxTokens
    /\ ~NameTaken(name)
    /\ Waits(c, [stage |-> "creating", token |-> [name |-> name, expires |-> expires,
                                        revoked |-> None, used |-> None]])
    /\ UNCHANGED <<clock, entries, users, tokens, slots, browser, tries, ended>>

\* mutant: there is no index
NoIndex(name) == TRUE

\* uq_api_token_active_name
IndexAllows(name) == ~NameTaken(name)

CreateCommits(c) ==
    /\ req[c].stage = "creating"
    /\ tokens' = IF IndexAllows(req[c].token.name)
                 THEN Append(tokens, req[c].token) ELSE tokens
    /\ Answered(c)
    /\ UNCHANGED <<clock, entries, users, slots, browser, bounds, tries, ended>>

\* A token that is revoked already is answered as it is.
RevokeStarts(c, i) ==
    /\ Takes(c, "revoke") /\ PassesCsrf(c) /\ Authed(c)
    /\ tokens[i].revoked = None
    /\ Waits(c, [stage |-> "revoking", id |-> i])
    /\ UNCHANGED <<clock, entries, users, tokens, slots, browser, tries, ended>>

RevokeCommits(c) ==
    /\ req[c].stage = "revoking"
    /\ tokens' = [tokens EXCEPT ![req[c].id].revoked = clock]
    /\ Answered(c)
    /\ UNCHANGED <<clock, entries, users, slots, browser, bounds, tries, ended>>

\* verify_token: the token is active, and not marked as used just now.
UseStarts(c, i) ==
    /\ Takes(c, "use")
    /\ Active(tokens[i]) /\ tokens[i].used # clock
    /\ Waits(c, [stage |-> "using", id |-> i, row |-> tokens[i], at |-> clock])
    /\ UNCHANGED <<clock, entries, users, tokens, slots, browser, tries, ended>>

\* mutant: the row is written back as it was read
WrittenBack(now, read, at) == [read EXCEPT !.used = at]

\* Only the changed column is written.
Touched(now, read, at) == [now EXCEPT !.used = at]

UseCommits(c) ==
    /\ req[c].stage = "using"
    /\ tokens' = [tokens EXCEPT ![req[c].id] = Touched(@, req[c].row, req[c].at)]
    /\ Answered(c)
    /\ UNCHANGED <<clock, entries, users, slots, browser, bounds, tries, ended>>

-----------------------------------------------------------------------------
\* The throttle and the requests are in memory, the rest is not.
Restart ==
    /\ entries' = <<>> /\ tries' = [k \in Names |-> <<>>]
    /\ req' = [c \in Clients |-> Idle] /\ queue' = <<>> /\ hashing' = {}
    /\ UNCHANGED <<clock, users, tokens, browser, bounds, ended>>

Tick ==
    /\ clock < MaxClock /\ clock' = clock + 1
    /\ UNCHANGED <<entries, users, tokens, req, slots, browser, bounds, tries, ended>>

Starts(c) ==
    \/ Visit(c)
    \/ (\E name \in Names : LoginStarts(c, name) \/ SetupStarts(c, name))
    \/ LogoutStarts(c)
    \/ (\E name \in TokenNames, expires \in {None, clock + 1} :
           CreateStarts(c, name, expires))
    \/ (\E i \in DOMAIN tokens : RevokeStarts(c, i) \/ UseStarts(c, i))

GoesOn(c) ==
    \/ LoginLooks(c) \/ LoginFails(c) \/ LoginSucceeds(c) \/ SetupCommits(c)
    \/ LogoutCommits(c) \/ CreateCommits(c) \/ RevokeCommits(c) \/ UseCommits(c)

AccessNext ==
    \/ (\E c \in Clients : Starts(c) \/ GoesOn(c))
    \/ Acquire \/ Restart \/ Tick

\* Coroutines and threads are scheduled; nobody has to ask.
AccessSpec ==
    /\ AccessInit /\ [][AccessNext]_vars
    /\ WF_vars(Acquire)
    /\ \A c \in Clients : WF_vars(GoesOn(c))

-----------------------------------------------------------------------------
(* Properties.                                                             *)

\* Of setups that race, all passed the test for a user and one wins: there is
\* never a second user, whatever names they chose.
OneUser == Cardinality(users) <= 1

\* A lock lasts its time, however many names are typed meanwhile.  Nothing is
\* asked while the right password of that name is being verified, at a restart,
\* or once every entry of the table is locked and one has to go.
LocksHold ==
    [][\A k \in DOMAIN entries : IsLocked(entries[k], clock) =>
          \/ k \in DOMAIN entries' /\ entries'[k].until >= entries[k].until
          \/ \E c \in Clients : Hashes(c, "login") /\ req[c].good /\ Key[req[c].name] = k
          \/ \A j \in DOMAIN entries : IsLocked(entries[j], clock)
          \/ Restart]_vars

\* However logins of one name overlap, no more passwords are tried within a
\* window than those short of the limit in one and all in the next.  Tries are
\* counted anew after a success, a restart or an eviction from the full table.
AttemptsAreBounded ==
    \A k \in Names : \A t \in 1 .. clock :
        Cardinality({i \in DOMAIN tries[k] : /\ tries[k][i] >= t
                                            /\ tries[k][i] < t + WindowSeconds})
            <= 2 * MaxFailures - 2

\* After a sign-out no cookie of before it works, in any browser, nor one that
\* a login sets afterwards from a row it had read before (auth.py:61).
LogoutEndsAll == \A c \in Clients : Authed(c) => cookie[c].nonce \notin ended

\* Names of live tokens are unique under racing creates (token_service.py:44).
TokensStayDistinct ==
    \A i, j \in DOMAIN tokens :
        i # j /\ tokens[i].name = tokens[j].name =>
            tokens[i].revoked # None \/ tokens[j].revoked # None

\* A token once revoked stays so, although a request that was verifying it
\* writes the row afterwards (token_service.py:104).
RevokeSticks ==
    [][\A i \in DOMAIN tokens :
          tokens[i].revoked # None => tokens'[i].revoked # None]_vars

\* Every request is answered, through the queue for the slots.
EveryRequestEnds == \A c \in Clients : req[c] # Idle ~> req[c] = Idle
=============================================================================

---------------------------- MODULE AccessProofs ----------------------------
(***************************************************************************)
(* The safety of Access for every number of clients, names, tokens and     *)
(* slots: one user, sign-outs that reach every cookie, distinct names of   *)
(* live tokens, revocations that stay, locks that hold, and few attempts   *)
(* at a name, which need an argument of their own (Attempts).              *)
(*                                                                         *)
(* What makes it inductive is what the requests in flight carry from one   *)
(* await to the next: a row that was read long ago has no later nonce than *)
(* the user's (Nonces), a token about to be written is where it was found  *)
(* (InFlight), and the table of failed logins is within its limit, so an   *)
(* eviction that finds nobody unlocked finds everybody locked (Table).     *)
(***************************************************************************)
EXTENDS Access, FiniteSetTheorems, TLAPS

User == [id : {1}, name : Names, nonce : Nat]

Cookie == [user : {1}, nonce : Nat, at : Nat]

Moment == Nat \cup {None}

Token == [name : TokenNames, expires : Moment, revoked : Moment, used : Moment]

-----------------------------------------------------------------------------
(* The inductive invariant.                                                *)

\* The user has had this nonce.
Issued(nonce) == \E u \in users : nonce <= u.nonce

People == users = {} \/ \E u \in User : users = {u}

Nonces ==
    /\ \A c \in Clients : cookie[c] # None =>
          cookie[c] \in Cookie /\ Issued(cookie[c].nonce)
    /\ \A n \in ended : n \in Nat /\ \E u \in users : n < u.nonce

\* What a request in flight has read is still so, but for the nonce.
Fits(r) ==
    /\ r.stage = "hashing" /\ r.kind = "setup" => r.name \in Names
    /\ r.stage = "hashing" /\ r.kind = "login" /\ r.good =>
          r.user \in User /\ Issued(r.user.nonce)
    /\ r.stage = "leaving" => r.user = 1
    /\ r.stage = "creating" => r.token \in Token /\ r.token.revoked = None
    /\ r.stage \in {"revoking", "using"} => r.id \in DOMAIN tokens
    /\ r.stage = "using" => r.at \in Nat

InFlight == \A c \in Clients : Fits(req[c])

Tokens == tokens \in Seq(Token) /\ TokensStayDistinct

Failure == [failures : Nat, first : Nat, until : Nat]

\* A table of failures within its limit, as a fact about any table.
Fit(table) ==
    /\ IsFiniteSet(DOMAIN table) /\ Cardinality(DOMAIN table) <= MaxEntries
    /\ table = [k \in DOMAIN table |-> table[k]]
    /\ \A k \in DOMAIN table : table[k] \in Failure

Table == Fit(entries)

Inv ==
    /\ clock \in Nat
    /\ DOMAIN req = Clients /\ req = [c \in Clients |-> req[c]]
    /\ cookie = [c \in Clients |-> cookie[c]]
    /\ People /\ Nonces /\ InFlight /\ Tokens /\ Table

-----------------------------------------------------------------------------
(* Which actions write which variables.                                    *)

\* A request that starts writes no user, no token and no cookie.
LEMMA StartsFrame ==
    ASSUME NEW c \in Clients, Starts(c)
    PROVE  /\ UNCHANGED <<clock, users, tokens, cookie, ended>>
           /\ \/ UNCHANGED entries
              \/ \E name \in Names : LoginStarts(c, name)
  <1>1. CASE Visit(c)
    BY <1>1 DEF Visit, slots, bounds
  <1>2. CASE \E name \in Names : LoginStarts(c, name)
    BY <1>2 DEF LoginStarts, slots, browser
  <1>3. CASE \E name \in Names : SetupStarts(c, name)
    BY <1>3 DEF SetupStarts, browser
  <1>4. CASE LogoutStarts(c)
    BY <1>4 DEF LogoutStarts, slots, browser
  <1>5. CASE \E name \in TokenNames, expires \in {None, clock + 1} :
                CreateStarts(c, name, expires)
    BY <1>5 DEF CreateStarts, slots, browser
  <1>6. CASE \E i \in DOMAIN tokens : RevokeStarts(c, i) \/ UseStarts(c, i)
    BY <1>6 DEF RevokeStarts, UseStarts, slots, browser
  <1> QED
    BY <1>1, <1>2, <1>3, <1>4, <1>5, <1>6 DEF Starts

\* Which steps of a request in flight write which variables.
LEMMA GoesOnFrame ==
    ASSUME NEW c \in Clients, GoesOn(c)
    PROVE  /\ UNCHANGED clock
           /\ Answered(c) \/ LoginLooks(c)
           /\ \/ UNCHANGED <<users, cookie, ended>>
              \/ LoginSucceeds(c) \/ SetupCommits(c) \/ LogoutCommits(c)
           /\ \/ UNCHANGED tokens
              \/ CreateCommits(c) \/ RevokeCommits(c) \/ UseCommits(c)
           /\ UNCHANGED entries \/ LoginSucceeds(c)
  <1>1. CASE LoginLooks(c)
    BY <1>1 DEF LoginLooks, browser, bounds
  <1>2. CASE LoginFails(c) \/ LoginSucceeds(c) \/ SetupCommits(c)
    BY <1>2 DEF LoginFails, LoginSucceeds, SetupCommits, browser, bounds
  <1>3. CASE LogoutCommits(c)
    BY <1>3 DEF LogoutCommits, slots, bounds
  <1>4. CASE CreateCommits(c) \/ RevokeCommits(c) \/ UseCommits(c)
    BY <1>4 DEF CreateCommits, RevokeCommits, UseCommits, slots, browser, bounds
  <1> QED
    BY <1>1, <1>2, <1>3, <1>4 DEF GoesOn

\* Nothing else writes the users, the tokens or the cookies.
LEMMA OtherFrame ==
    ASSUME Acquire \/ Restart \/ Tick \/ UNCHANGED vars
    PROVE  /\ UNCHANGED <<users, tokens, cookie, ended>>
           /\ UNCHANGED <<entries, req>> \/ Restart
           /\ UNCHANGED clock \/ Tick
  BY DEF Acquire, Restart, Tick, vars, slots, browser, bounds

-----------------------------------------------------------------------------
(* The user, the cookies and their nonces.                                 *)

\* A step keeps the user, the cookies and their nonces.
LEMMA PeopleKept ==
    ASSUME Inv, [AccessNext]_vars
    PROVE  People' /\ Nonces'
  <1> USE DEF Inv
  <1>1. CASE UNCHANGED <<users, cookie, ended>>
    BY <1>1 DEF People, Nonces, Issued
  <1>2. ASSUME NEW c \in Clients, LoginSucceeds(c)
        PROVE  People' /\ Nonces'
    <2>1. UNCHANGED <<users, ended>>
      BY <1>2 DEF LoginSucceeds, bounds
    <2>2. req[c].user \in User /\ Issued(req[c].user.nonce)
      BY <1>2 DEF LoginSucceeds, Hashes, InFlight, Fits
    <2> DEFINE given == [user |-> req[c].user.id, nonce |-> req[c].user.nonce, at |-> clock]
    <2>3. given \in Cookie
      BY <2>2 DEF User, Cookie
    <2>4. cookie' = [cookie EXCEPT ![c] = given]
      BY <1>2 DEF LoginSucceeds
    <2>5. ASSUME NEW d \in Clients, cookie'[d] # None
          PROVE  cookie'[d] \in Cookie /\ Issued(cookie'[d].nonce)
      <3>1. CASE d = c
        BY <3>1, <2>2, <2>3, <2>4
      <3>2. CASE d # c
        BY <3>2, <2>4, <2>5 DEF Nonces
      <3> QED
        BY <3>1, <3>2
    <2> QED
      BY <2>1, <2>5 DEF People, Nonces, Issued
  <1>3. ASSUME NEW c \in Clients, SetupCommits(c)
        PROVE  People' /\ Nonces'
    <2>1. UNCHANGED <<cookie, ended>>
      BY <1>3 DEF SetupCommits, browser, bounds
    <2>2. CASE users' = users
      BY <2>1, <2>2 DEF People, Nonces, Issued
    <2>3. CASE users' # users
      <3>1. /\ users = {}
            /\ users' = users \cup {[id |-> Cardinality(users) + 1,
                                     name |-> req[c].name, nonce |-> 0]}
        BY <1>3, <2>3 DEF SetupCommits, InsertAllowed
      <3>2. req[c].name \in Names
        BY <1>3 DEF SetupCommits, Hashes, InFlight, Fits
      <3> DEFINE new == [id |-> 1, name |-> req[c].name, nonce |-> 0]
      <3>3. users' = {new} /\ new \in User
        BY <3>1, <3>2, FS_EmptySet DEF User
      <3>4. People'
        BY <3>3 DEF People
      <3>5. Nonces'
        BY <3>1, <2>1 DEF Nonces, Issued
      <3> QED
        BY <3>4, <3>5
    <2> QED
      BY <2>2, <2>3
  <1>4. ASSUME NEW c \in Clients, LogoutCommits(c)
        PROVE  People' /\ Nonces'
    <2>1. /\ users' = {IF u.id = req[c].user THEN NonceRotated(u) ELSE u : u \in users}
          /\ ended' = ended \cup GivenOut
          /\ cookie' = [cookie EXCEPT ![c] = None]
          /\ req[c].user = 1
      BY <1>4 DEF LogoutCommits, InFlight, Fits
    <2>2. CASE users = {}
      <3>1. \A d \in Clients : cookie[d] = None
        BY <2>2 DEF Nonces, Issued
      <3>2. GivenOut = {}
        BY <2>2, <3>1 DEF GivenOut, InFlight, Fits, Issued
      <3>3. users' = {} /\ ended' = ended /\ \A d \in Clients : cookie'[d] = None
        BY <2>1, <2>2, <3>1, <3>2
      <3> QED
        BY <2>2, <3>3 DEF People, Nonces
    <2>3. CASE users # {}
      <3>1. PICK u \in User : users = {u}
        BY <2>3 DEF People
      <3> DEFINE rotated == [u EXCEPT !.nonce = @ + 1]
      <3>2. rotated \in User /\ rotated.nonce = u.nonce + 1 /\ u.nonce \in Nat
        BY DEF User
      <3>3. users' = {rotated}
        BY <2>1, <3>1 DEF NonceRotated, User
      <3>4. ASSUME NEW d \in Clients, cookie[d] # None
            PROVE  cookie[d] \in Cookie /\ cookie[d].nonce \in Nat
                   /\ cookie[d].nonce < rotated.nonce
        BY <3>1, <3>2, <3>4 DEF Nonces, Issued, Cookie
      <3>5. ASSUME NEW n \in ended'
            PROVE  n \in Nat /\ n < rotated.nonce
        <4>1. CASE n \in ended
          BY <4>1, <3>1, <3>2 DEF Nonces
        <4>2. CASE n \notin ended
          <5>1. n \in GivenOut
            BY <4>2, <3>5, <2>1
          <5>2. CASE \E d \in Clients : cookie[d] # None /\ n = cookie[d].nonce
            BY <5>2, <3>4
          <5>3. CASE \E d \in Clients : /\ req[d].stage = "hashing"
                                       /\ req[d].kind = "login" /\ req[d].good
                                       /\ n = req[d].user.nonce
            <6>1. PICK d \in Clients : /\ req[d].stage = "hashing"
                                       /\ req[d].kind = "login" /\ req[d].good
                                       /\ n = req[d].user.nonce
              BY <5>3
            <6>2. req[d].user \in User /\ Issued(n)
              BY <6>1 DEF InFlight, Fits
            <6>3. n \in Nat /\ n <= u.nonce
              BY <6>1, <6>2, <3>1 DEF User, Issued
            <6> QED
              BY <6>3, <3>2
          <5> QED
            BY <5>1, <5>2, <5>3 DEF GivenOut
        <4> QED
          BY <4>1, <4>2
      <3>6. ASSUME NEW d \in Clients, cookie'[d] # None
            PROVE  cookie'[d] \in Cookie /\ cookie'[d].nonce <= rotated.nonce
        <4>1. cookie'[d] = cookie[d]
          BY <3>6, <2>1
        <4> QED
          BY <4>1, <3>4, <3>6, <3>2
      <3>7. People'
        BY <3>2, <3>3 DEF People
      <3>8. Nonces'
        BY <3>3, <3>5, <3>6 DEF Nonces, Issued
      <3> QED
        BY <3>7, <3>8
    <2> QED
      BY <2>2, <2>3
  <1> QED
    BY <1>1, <1>2, <1>3, <1>4, StartsFrame, GoesOnFrame, OtherFrame DEF AccessNext

-----------------------------------------------------------------------------
(* The tokens.                                                             *)

\* A step loses no token and revives none.
LEMMA TokensKept ==
    ASSUME Inv, [AccessNext]_vars
    PROVE  /\ Tokens' /\ DOMAIN tokens \subseteq DOMAIN tokens'
           /\ \A i \in DOMAIN tokens :
                 tokens[i].revoked # None => tokens'[i].revoked # None
  <1> DEFINE Goal ==
        /\ Tokens' /\ DOMAIN tokens \subseteq DOMAIN tokens'
        /\ \A i \in DOMAIN tokens :
              tokens[i].revoked # None => tokens'[i].revoked # None
  <1>0. /\ tokens \in Seq(Token) /\ TokensStayDistinct
        /\ DOMAIN tokens = 1 .. Len(tokens) /\ Len(tokens) \in Nat
        /\ \A i \in DOMAIN tokens : tokens[i] \in Token
    BY DEF Inv, Tokens
  <1>1. CASE UNCHANGED tokens
    BY <1>0, <1>1 DEF Tokens, TokensStayDistinct
  <1>2. ASSUME NEW c \in Clients, CreateCommits(c)
        PROVE  Goal
    <2> DEFINE t == req[c].token
    <2>1. t \in Token /\ t.revoked = None
      BY <1>2 DEF CreateCommits, Inv, InFlight, Fits
    <2>2. CASE IndexAllows(t.name)
      <3>1. tokens' = Append(tokens, t)
        BY <1>2, <2>2 DEF CreateCommits
      <3>2. tokens' \in Seq(Token) /\ DOMAIN tokens' = 1 .. Len(tokens) + 1
        BY <1>0, <2>1, <3>1
      <3>3. \A i \in DOMAIN tokens : tokens'[i] = tokens[i]
        BY <1>0, <3>1
      <3>4. tokens'[Len(tokens) + 1] = t
        BY <1>0, <2>1, <3>1
      <3>5. \A i \in DOMAIN tokens : tokens[i].name = t.name => tokens[i].revoked # None
        BY <2>2 DEF IndexAllows, NameTaken
      <3>6. ASSUME NEW i \in DOMAIN tokens', NEW j \in DOMAIN tokens',
                   i # j, tokens'[i].name = tokens'[j].name
            PROVE  tokens'[i].revoked # None \/ tokens'[j].revoked # None
        <4>1. CASE i \in DOMAIN tokens /\ j \in DOMAIN tokens
          BY <4>1, <3>3, <3>6, <1>0 DEF TokensStayDistinct
        <4>2. CASE i \notin DOMAIN tokens
          <5>1. i = Len(tokens) + 1 /\ j \in DOMAIN tokens
            BY <4>2, <3>6, <3>2, <1>0
          <5> QED
            BY <5>1, <3>3, <3>4, <3>5, <3>6
        <4>3. CASE j \notin DOMAIN tokens
          <5>1. j = Len(tokens) + 1 /\ i \in DOMAIN tokens
            BY <4>3, <3>6, <3>2, <1>0
          <5> QED
            BY <5>1, <3>3, <3>4, <3>5, <3>6
        <4> QED
          BY <4>1, <4>2, <4>3
      <3>7. TokensStayDistinct'
        BY <3>6 DEF TokensStayDistinct
      <3> QED
        BY <1>0, <3>2, <3>3, <3>7 DEF Tokens
    <2>3. CASE ~IndexAllows(t.name)
      <3>1. tokens' = tokens
        BY <1>2, <2>3 DEF CreateCommits
      <3> QED
        BY <3>1, <1>1
    <2> QED
      BY <2>2, <2>3
  <1>3. ASSUME NEW id \in DOMAIN tokens, NEW t \in Token,
               tokens' = [tokens EXCEPT ![id] = t],
               t.name = tokens[id].name,
               tokens[id].revoked # None => t.revoked # None
        PROVE  Goal
    <2>1. tokens' \in Seq(Token) /\ DOMAIN tokens' = DOMAIN tokens
      BY <1>0, <1>3
    <2>2. \A i \in DOMAIN tokens : tokens'[i] = IF i = id THEN t ELSE tokens[i]
      BY <1>0, <1>3
    <2>3. \A i \in DOMAIN tokens :
            /\ tokens'[i].name = tokens[i].name
            /\ tokens[i].revoked # None => tokens'[i].revoked # None
      BY <1>3, <2>2
    <2>4. TokensStayDistinct'
      BY <1>0, <2>1, <2>3 DEF TokensStayDistinct
    <2> QED
      BY <2>1, <2>3, <2>4 DEF Tokens
  <1>4. ASSUME NEW c \in Clients, RevokeCommits(c)
        PROVE  Goal
    <2> DEFINE t == [tokens[req[c].id] EXCEPT !.revoked = clock]
    <2>1. req[c].id \in DOMAIN tokens /\ clock \in Nat
      BY <1>4 DEF RevokeCommits, Inv, InFlight, Fits
    <2>2. tokens' = [tokens EXCEPT ![req[c].id] = t]
      BY <1>4 DEF RevokeCommits
    <2>3. t \in Token /\ t.name = tokens[req[c].id].name /\ t.revoked = clock
      BY <2>1, <1>0 DEF Token, Moment
    <2>4. clock # None
      BY <2>1, AccessAssumption
    <2> HIDE DEF t
    <2> QED
      BY <2>1, <2>2, <2>3, <2>4, <1>3
  <1>5. ASSUME NEW c \in Clients, UseCommits(c)
        PROVE  Goal
    <2> DEFINE t == [tokens[req[c].id] EXCEPT !.used = req[c].at]
    <2>1. req[c].id \in DOMAIN tokens /\ req[c].at \in Nat
      BY <1>5 DEF UseCommits, Inv, InFlight, Fits
    <2>2. tokens' = [tokens EXCEPT ![req[c].id] = t]
      BY <1>5 DEF UseCommits, Touched
    <2>3. t \in Token /\ t.name = tokens[req[c].id].name
          /\ t.revoked = tokens[req[c].id].revoked
      BY <2>1, <1>0 DEF Token, Moment
    <2> HIDE DEF t
    <2> QED
      BY <2>1, <2>2, <2>3, <1>3
  <1> QED
    BY <1>1, <1>2, <1>4, <1>5, StartsFrame, GoesOnFrame, OtherFrame DEF AccessNext

-----------------------------------------------------------------------------
(* The requests in flight.                                                 *)

\* Nonces only grow and the user is never gone.
LEMMA IssuedStays ==
    ASSUME Inv, [AccessNext]_vars, NEW nonce \in Nat, Issued(nonce)
    PROVE  Issued(nonce)'
  <1>1. CASE UNCHANGED users
    BY <1>1 DEF Issued
  <1>2. ASSUME NEW c \in Clients, SetupCommits(c)
        PROVE  Issued(nonce)'
    BY <1>2 DEF SetupCommits, Issued
  <1>3. ASSUME NEW c \in Clients, LogoutCommits(c)
        PROVE  Issued(nonce)'
    <2>1. PICK u \in User : users = {u} /\ nonce <= u.nonce
      BY DEF Inv, People, Issued
    <2>2. users' = {IF v.id = req[c].user THEN NonceRotated(v) ELSE v : v \in users}
      BY <1>3 DEF LogoutCommits
    <2> DEFINE after == IF u.id = req[c].user THEN NonceRotated(u) ELSE u
    <2>3. users' = {after} /\ nonce <= after.nonce
      BY <2>1, <2>2 DEF NonceRotated, User
    <2> QED
      BY <2>3 DEF Issued
  <1> QED
    BY <1>1, <1>2, <1>3, StartsFrame, GoesOnFrame, OtherFrame,
       SMT DEF AccessNext, LoginSucceeds

\* What a request carries stays true while others move.
LEMMA FitsStays ==
    ASSUME Inv, [AccessNext]_vars, NEW r, Fits(r)
    PROVE  Fits(r)'
  <1>1. r.user \in User /\ Issued(r.user.nonce) => Issued(r.user.nonce)'
    BY IssuedStays DEF User
  <1>2. DOMAIN tokens \subseteq DOMAIN tokens'
    BY TokensKept
  <1> QED
    BY <1>1, <1>2 DEF Fits

\* What a request carries when it is sent, or sent on.
LEMMA WaitsKeepsInFlight ==
    ASSUME Inv, [AccessNext]_vars, NEW c \in Clients, NEW r, Waits(c, r), Fits(r)'
    PROVE  InFlight' /\ DOMAIN req' = Clients /\ req' = [d \in Clients |-> req'[d]]
  <1>1. \A d \in Clients : req'[d] = IF d = c THEN r ELSE req[d]
    BY DEF Waits, Inv
  <1>2. DOMAIN req' = Clients /\ req' = [d \in Clients |-> req'[d]]
    BY DEF Waits, Inv
  <1>3. ASSUME NEW d \in Clients
        PROVE  Fits(req[d])'
    <2>1. CASE d = c
      <3>1. req'[d] = r
        BY <1>1, <2>1
      <3> QED
        BY <3>1 DEF Fits, Issued
    <2>2. CASE d # c
      <3>1. PICK q : q = req[d]
        OBVIOUS
      <3>2. Fits(q)'
        BY <3>1, FitsStays DEF Inv, InFlight
      <3>3. req'[d] = q
        BY <1>1, <2>2, <3>1
      <3> QED
        BY <3>2, <3>3 DEF Fits, Issued
    <2> QED
      BY <2>1, <2>2
  <1> QED
    BY <1>2, <1>3 DEF InFlight

\* A client without a request fits any tables.
LEMMA IdleFits == Fits(Idle)'
  BY DEF Fits, Idle

\* What the requests in flight have read stays true of the tables.
LEMMA InFlightKept ==
    ASSUME Inv, [AccessNext]_vars
    PROVE  InFlight' /\ DOMAIN req' = Clients /\ req' = [d \in Clients |-> req'[d]]
  <1> DEFINE Goal == InFlight' /\ DOMAIN req' = Clients /\ req' = [d \in Clients |-> req'[d]]
  <1>1. CASE UNCHANGED req
    <2>1. ASSUME NEW d \in Clients
          PROVE  Fits(req[d])'
      <3>1. PICK q : q = req[d]
        OBVIOUS
      <3>2. Fits(q)'
        BY <3>1, FitsStays DEF Inv, InFlight
      <3> QED
        BY <3>1, <3>2, <1>1 DEF Fits, Issued
    <2> QED
      BY <1>1, <2>1 DEF InFlight, Inv
  <1>2. CASE Restart
    <2>1. req' = [d \in Clients |-> Idle]
      BY <1>2 DEF Restart
    <2> QED
      BY <2>1 DEF InFlight, Fits, Idle
  <1>3. ASSUME NEW c \in Clients, GoesOn(c)
        PROVE  Goal
    <2>1. CASE Answered(c)
      BY <2>1, IdleFits, WaitsKeepsInFlight DEF Answered, Waits
    <2>2. CASE LoginLooks(c)
      <3> DEFINE request(u, good) == [stage |-> "hashing", kind |-> "login",
                                name |-> req[c].name, good |-> good, user |-> u]
      <3>1. PICK answer \in {request(u, TRUE) : u \in {u \in users : u.name = req[c].name}}
                               \cup {request(None, FALSE)} : Waits(c, answer)
        BY <2>2 DEF LoginLooks
      <3>2. users' = users
        BY <2>2 DEF LoginLooks
      <3>3. CASE answer = request(None, FALSE)
        <4>1. Fits(answer)'
          BY <3>3 DEF Fits
        <4> QED
          BY <4>1, <3>1, WaitsKeepsInFlight
      <3>4. ASSUME NEW u \in users, answer = request(u, TRUE)
            PROVE  Goal
        <4>1. u \in User /\ u.nonce \in Nat
          BY DEF Inv, People, User
        <4>2. Fits(answer)'
          BY <3>2, <3>4, <4>1 DEF Fits, Issued
        <4> QED
          BY <4>2, <3>1, WaitsKeepsInFlight
      <3> QED
        BY <3>1, <3>3, <3>4
    <2> QED
      BY <1>3, <2>1, <2>2, GoesOnFrame
  <1>4. ASSUME NEW c \in Clients, Starts(c)
        PROVE  Goal
    <2>1. CASE Visit(c)
      BY <2>1, <1>1 DEF Visit
    <2>2. ASSUME NEW name \in Names, LoginStarts(c, name)
          PROVE  Goal
      <3> DEFINE r == [stage |-> "looking", name |-> name]
      <3>1. Waits(c, r) /\ Fits(r)'
        BY <2>2 DEF LoginStarts, Fits
      <3> QED
        BY <3>1, WaitsKeepsInFlight
    <2>3. ASSUME NEW name \in Names, SetupStarts(c, name)
          PROVE  Goal
      <3> DEFINE r == [stage |-> "hashing", kind |-> "setup", name |-> name]
      <3>1. Waits(c, r) /\ Fits(r)'
        BY <2>3 DEF SetupStarts, Fits
      <3> QED
        BY <3>1, WaitsKeepsInFlight
    <2>4. CASE LogoutStarts(c)
      <3>1. PICK user : user = cookie[c].user
        OBVIOUS
      <3>2. user = 1
        BY <3>1, <2>4 DEF LogoutStarts, Authed, Accepted, Inv, Nonces, Cookie
      <3> DEFINE r == [stage |-> "leaving", user |-> user]
      <3>3. Waits(c, r) /\ Fits(r)'
        BY <2>4, <3>1, <3>2 DEF LogoutStarts, Fits
      <3> QED
        BY <3>3, WaitsKeepsInFlight
    <2>5. ASSUME NEW name \in TokenNames, NEW expires \in {None, clock + 1},
                 CreateStarts(c, name, expires)
          PROVE  Goal
      <3>1. PICK t : t = [name |-> name, expires |-> expires,
                          revoked |-> None, used |-> None]
        OBVIOUS
      <3>2. expires \in Moment
        BY DEF Moment, Inv
      <3>3. t \in Token /\ t.revoked = None
        BY <3>1, <3>2 DEF Token, Moment
      <3> DEFINE r == [stage |-> "creating", token |-> t]
      <3>4. Waits(c, r) /\ Fits(r)'
        BY <2>5, <3>1, <3>3 DEF CreateStarts, Fits
      <3> QED
        BY <3>4, WaitsKeepsInFlight
    <2>6. ASSUME NEW i \in DOMAIN tokens, RevokeStarts(c, i)
          PROVE  Goal
      <3> DEFINE r == [stage |-> "revoking", id |-> i]
      <3>1. Waits(c, r) /\ Fits(r)'
        BY <2>6 DEF RevokeStarts, Fits
      <3> QED
        BY <3>1, WaitsKeepsInFlight
    <2>7. ASSUME NEW i \in DOMAIN tokens, UseStarts(c, i)
          PROVE  Goal
      <3>1. PICK row, at : row = tokens[i] /\ at = clock
        OBVIOUS
      <3> DEFINE r == [stage |-> "using", id |-> i, row |-> row, at |-> at]
      <3>2. Waits(c, r) /\ Fits(r)'
        BY <2>7, <3>1 DEF UseStarts, Fits, Inv
      <3> QED
        BY <3>2, WaitsKeepsInFlight
    <2> QED
      BY <1>4, <2>1, <2>2, <2>3, <2>4, <2>5, <2>6, <2>7 DEF Starts
  <1> QED
    BY <1>1, <1>2, <1>3, <1>4, OtherFrame DEF AccessNext

-----------------------------------------------------------------------------
(* The table of failed logins.                                             *)

\* Taking keys out leaves the others as they are.
LEMMA WithoutFits ==
    ASSUME NEW table, Fit(table), NEW keys
    PROVE  /\ Fit(Without(table, keys))
           /\ DOMAIN Without(table, keys) = DOMAIN table \ keys
           /\ \A k \in DOMAIN table \ keys : Without(table, keys)[k] = table[k]
           /\ Cardinality(DOMAIN table \ keys) <= Cardinality(DOMAIN table)
           /\ Cardinality(DOMAIN table \ keys) \in Nat
  <1> DEFINE left == Without(table, keys)
  <1>1. left = [k \in DOMAIN table \ keys |-> table[k]]
    BY DEF Without, Restrict
  <1>2. /\ IsFiniteSet(DOMAIN table \ keys)
        /\ Cardinality(DOMAIN table \ keys) <= Cardinality(DOMAIN table)
    BY FS_Subset, DOMAIN table \ keys \in SUBSET DOMAIN table DEF Fit
  <1>3. Cardinality(DOMAIN table \ keys) \in Nat /\ Cardinality(DOMAIN table) \in Nat
    BY <1>2, FS_CardinalityType DEF Fit
  <1>4. MaxEntries \in Nat
    BY ThrottleAssumption
  <1> QED
    BY <1>1, <1>2, <1>3, <1>4 DEF Fit

\* Putting one in keeps to the limit when there is room or it was there.
LEMMA WithFits ==
    ASSUME NEW table, Fit(table), NEW key, NEW entry \in Failure,
           key \in DOMAIN table \/ Cardinality(DOMAIN table) < MaxEntries
    PROVE  /\ Fit(With(table, key, entry))
           /\ DOMAIN With(table, key, entry) = DOMAIN table \cup {key}
           /\ \A k \in DOMAIN table \ {key} : With(table, key, entry)[k] = table[k]
  <1> DEFINE more == With(table, key, entry)
  <1>1. more = [k \in DOMAIN table \cup {key} |-> IF k = key THEN entry ELSE table[k]]
    BY DEF With
  <1>2. /\ IsFiniteSet(DOMAIN table \cup {key})
        /\ Cardinality(DOMAIN table \cup {key}) =
              IF key \in DOMAIN table THEN Cardinality(DOMAIN table)
              ELSE Cardinality(DOMAIN table) + 1
    BY FS_AddElement DEF Fit
  <1>3. Cardinality(DOMAIN table) \in Nat /\ MaxEntries \in Nat
    BY FS_CardinalityType, ThrottleAssumption DEF Fit
  <1>4. Cardinality(DOMAIN table \cup {key}) <= MaxEntries
    BY <1>2, <1>3 DEF Fit
  <1> QED
    BY <1>1, <1>2, <1>4 DEF Fit

\* One failure more is a failure the throttle can hold.
LEMMA CountedFits ==
    ASSUME NEW now \in Nat, NEW entry \in Failure
    PROVE  Counted(entry, now) \in Failure
  BY ThrottleAssumption DEF Counted, Entry, Failure

\* A failure that is recorded keeps every lock, or found no room and nobody
\* unlocked.
LEMMA FailureKeepsLocks ==
    ASSUME NEW table, Fit(table), NEW key, NEW now \in Nat,
           NEW after \in record_failure(table, key, now)
    PROVE  /\ Fit(after)
           /\ \A k \in DOMAIN table : IsLocked(table[k], now) =>
                 \/ k \in DOMAIN after /\ after[k] = table[k]
                 \/ /\ \A j \in DOMAIN table : IsLocked(table[j], now)
                    /\ Cardinality(DOMAIN table) = MaxEntries
  <1> DEFINE stale == {k \in DOMAIN table : /\ ~IsLocked(table[k], now)
                                           /\ now - table[k].first > WindowSeconds}
  <1>1. PICK kept : kept = Pruned(table, now)
    OBVIOUS
  <1>2. kept = Without(table, stale)
    BY <1>1 DEF Pruned
  <1>3. /\ Fit(kept) /\ DOMAIN kept = DOMAIN table \ stale
        /\ \A k \in DOMAIN kept : kept[k] = table[k]
        /\ Cardinality(DOMAIN kept) <= Cardinality(DOMAIN table)
        /\ Cardinality(DOMAIN kept) \in Nat
    <2>1. /\ Fit(Without(table, stale))
          /\ DOMAIN Without(table, stale) = DOMAIN table \ stale
          /\ \A k \in DOMAIN table \ stale : Without(table, stale)[k] = table[k]
          /\ Cardinality(DOMAIN table \ stale) <= Cardinality(DOMAIN table)
          /\ Cardinality(DOMAIN table \ stale) \in Nat
      BY WithoutFits
    <2> QED
      BY <1>2, <2>1
  <1>4. \A k \in DOMAIN table : IsLocked(table[k], now) => k \in DOMAIN kept
    BY <1>3
  <1> HIDE DEF stale
  <1>5. CASE key \notin DOMAIN kept
    <2>1. PICK e \in Evicted(kept, now) : after = With(e, key, Counted(Entry(0, now), now))
      BY <1>1, <1>5 DEF record_failure
    <2>2. Counted(Entry(0, now), now) \in Failure
      BY CountedFits DEF Entry, Failure
    <2>3. CASE Cardinality(DOMAIN kept) < MaxEntries
      <3>1. e = kept
        BY <2>1, <2>3 DEF Evicted
      <3>2. PICK entry \in Failure : after = With(kept, key, entry)
        BY <2>1, <2>2, <3>1
      <3>3. /\ Fit(With(kept, key, entry))
            /\ \A k \in DOMAIN kept \ {key} : With(kept, key, entry)[k] = kept[k]
            /\ DOMAIN With(kept, key, entry) = DOMAIN kept \cup {key}
        BY <1>3, <2>3, WithFits
      <3> QED
        BY <3>2, <3>3, <1>3, <1>4, <1>5
    <2>4. CASE ~(Cardinality(DOMAIN kept) < MaxEntries)
      <3>1. PICK v \in Victims(kept, now) : e = Without(kept, {v})
        BY <2>1, <2>4 DEF Evicted
      <3>2. v \in DOMAIN kept
        BY <3>1 DEF Victims, Oldest
      <3>3. /\ Fit(e) /\ DOMAIN e = DOMAIN kept \ {v}
            /\ \A k \in DOMAIN kept \ {v} : e[k] = kept[k]
        <4>1. /\ Fit(Without(kept, {v})) /\ DOMAIN Without(kept, {v}) = DOMAIN kept \ {v}
              /\ \A k \in DOMAIN kept \ {v} : Without(kept, {v})[k] = kept[k]
          BY <1>3, WithoutFits
        <4> QED
          BY <3>1, <4>1, Zenon
      <3>4. Cardinality(DOMAIN e) < MaxEntries
        <4>1. /\ IsFiniteSet(DOMAIN kept) /\ Cardinality(DOMAIN kept) <= MaxEntries
          BY <1>3 DEF Fit
        <4>2. Cardinality(DOMAIN e) = Cardinality(DOMAIN kept) - 1
          BY <4>1, <3>2, <3>3, FS_RemoveElement
        <4> QED
          BY <4>1, <4>2, <1>3, ThrottleAssumption
      <3>5. /\ Fit(after) /\ DOMAIN after = DOMAIN e \cup {key}
            /\ \A k \in DOMAIN e \ {key} : after[k] = e[k]
        <4>1. PICK entry \in Failure : after = With(e, key, entry)
          BY <2>1, <2>2
        <4>2. /\ Fit(With(e, key, entry))
              /\ \A k \in DOMAIN e \ {key} : With(e, key, entry)[k] = e[k]
              /\ DOMAIN With(e, key, entry) = DOMAIN e \cup {key}
          BY <3>3, <3>4, WithFits
        <4> QED
          BY <4>1, <4>2
      <3>6. ASSUME NEW k \in DOMAIN table, IsLocked(table[k], now)
            PROVE  \/ k \in DOMAIN after /\ after[k] = table[k]
                   \/ /\ \A j \in DOMAIN table : IsLocked(table[j], now)
                      /\ Cardinality(DOMAIN table) = MaxEntries
        <4>1. k \in DOMAIN kept /\ k # key
          BY <3>6, <1>4, <1>5
        <4>2. CASE k # v
          BY <4>1, <4>2, <3>3, <3>5, <1>3
        <4>3. CASE k = v
          <5>1. \A j \in DOMAIN kept : IsLocked(kept[j], now)
            BY <4>3, <3>1, <3>6, <1>3 DEF Victims, Oldest
          <5>2. /\ Cardinality(DOMAIN kept) = Cardinality(DOMAIN table)
                /\ Cardinality(DOMAIN table) = MaxEntries
            BY <2>4, <1>3, FS_CardinalityType, ThrottleAssumption DEF Fit
          <5>3. DOMAIN kept = DOMAIN table
            BY <5>2, <1>3, FS_Subset DEF Fit
          <5> QED
            BY <5>1, <5>2, <5>3, <1>3
        <4> QED
          BY <4>2, <4>3
      <3> QED
        BY <3>5, <3>6
    <2> QED
      BY <2>3, <2>4
  <1>6. CASE key \in DOMAIN kept /\ IsLocked(kept[key], now)
    <2>1. after = kept
      BY <1>1, <1>6 DEF record_failure
    <2> QED
      BY <2>1, <1>3, <1>4
  <1>7. CASE key \in DOMAIN kept /\ ~IsLocked(kept[key], now)
    <2>1. after = With(kept, key, Counted(kept[key], now))
      BY <1>1, <1>7 DEF record_failure
    <2>2. Counted(kept[key], now) \in Failure
      BY <1>3, <1>7, CountedFits DEF Fit
    <2>3. PICK entry \in Failure : after = With(kept, key, entry)
      BY <2>1, <2>2
    <2>4. /\ Fit(With(kept, key, entry))
          /\ \A k \in DOMAIN kept \ {key} : With(kept, key, entry)[k] = kept[k]
          /\ DOMAIN With(kept, key, entry) = DOMAIN kept \cup {key}
      BY <1>3, <1>7, WithFits
    <2> QED
      BY <2>3, <2>4, <1>3, <1>4, <1>7
  <1> QED
    BY <1>5, <1>6, <1>7

\* The locks of a login that starts: Looked drops an entry that is not locked
\* any more, and that makes room.
LEMMA LoginKeepsLocks ==
    ASSUME NEW table, Fit(table), NEW key, NEW now \in Nat,
           NEW after \in record_failure(Looked(table, key, now), key, now)
    PROVE  /\ Fit(after)
           /\ \A k \in DOMAIN table : IsLocked(table[k], now) =>
                 \/ k \in DOMAIN after /\ after[k] = table[k]
                 \/ \A j \in DOMAIN table : IsLocked(table[j], now)
  <1>1. PICK seen : seen = Looked(table, key, now)
    OBVIOUS
  <1>2. CASE seen = table
    BY <1>1, <1>2, FailureKeepsLocks
  <1>3. CASE seen # table
    <2>1. /\ key \in DOMAIN table /\ table[key].until \in 1 .. now
          /\ seen = Without(table, {key})
      BY <1>1, <1>3 DEF Looked
    <2>2. /\ Fit(Without(table, {key}))
          /\ DOMAIN Without(table, {key}) = DOMAIN table \ {key}
          /\ \A k \in DOMAIN table \ {key} : Without(table, {key})[k] = table[k]
      BY WithoutFits
    <2>3. /\ Fit(seen) /\ DOMAIN seen = DOMAIN table \ {key}
          /\ \A k \in DOMAIN table \ {key} : seen[k] = table[k]
      BY <2>1, <2>2
    <2>4. Cardinality(DOMAIN seen) # MaxEntries
      <3>1. /\ IsFiniteSet(DOMAIN table) /\ Cardinality(DOMAIN table) <= MaxEntries
            /\ Cardinality(DOMAIN table) \in Nat
        BY FS_CardinalityType DEF Fit
      <3>2. Cardinality(DOMAIN seen) = Cardinality(DOMAIN table) - 1
        BY <2>1, <2>3, <3>1, FS_RemoveElement
      <3> QED
        BY <3>1, <3>2, ThrottleAssumption
    <2>5. /\ Fit(after)
          /\ \A k \in DOMAIN seen : IsLocked(seen[k], now) =>
                 \/ k \in DOMAIN after /\ after[k] = seen[k]
                 \/ /\ \A j \in DOMAIN seen : IsLocked(seen[j], now)
                    /\ Cardinality(DOMAIN seen) = MaxEntries
      BY <1>1, <2>3, FailureKeepsLocks
    <2>6. ~IsLocked(table[key], now)
      BY <2>1 DEF IsLocked
    <2> QED
      BY <2>3, <2>4, <2>5, <2>6
  <1> QED
    BY <1>2, <1>3

\* A step keeps the table bounded, and a lock unless a good login ends it.
LEMMA TableKept ==
    ASSUME Inv, [AccessNext]_vars
    PROVE  /\ Fit(entries')
           /\ \A k \in DOMAIN entries : IsLocked(entries[k], clock) =>
                 \/ k \in DOMAIN entries' /\ entries'[k] = entries[k]
                 \/ \E c \in Clients : /\ Hashes(c, "login") /\ req[c].good
                                      /\ Key[req[c].name] = k
                 \/ \A j \in DOMAIN entries : IsLocked(entries[j], clock)
                 \/ Restart
  <1>0. Fit(entries) /\ clock \in Nat
    BY DEF Inv, Table
  <1>1. CASE UNCHANGED entries
    BY <1>0, <1>1
  <1>2. ASSUME NEW c \in Clients, NEW name \in Names, LoginStarts(c, name)
        PROVE  /\ Fit(entries')
               /\ \A k \in DOMAIN entries : IsLocked(entries[k], clock) =>
                     \/ k \in DOMAIN entries' /\ entries'[k] = entries[k]
                     \/ \A j \in DOMAIN entries : IsLocked(entries[j], clock)
    <2>1. PICK table, key, now, after :
             /\ table = entries /\ key = Key[name] /\ now = clock /\ after = entries'
             /\ after \in record_failure(Looked(table, key, now), key, now)
      BY <1>2 DEF LoginStarts
    <2> QED
      BY <2>1, <1>0, LoginKeepsLocks
  <1>3. ASSUME NEW c \in Clients, LoginSucceeds(c)
        PROVE  /\ Fit(entries')
               /\ \A k \in DOMAIN entries : IsLocked(entries[k], clock) =>
                     \/ k \in DOMAIN entries' /\ entries'[k] = entries[k]
                     \/ Hashes(c, "login") /\ req[c].good /\ Key[req[c].name] = k
    <2>1. PICK table, key : table = entries /\ key = Key[req[c].name]
      OBVIOUS
    <2>2. entries' = Without(table, {key}) /\ Hashes(c, "login") /\ req[c].good
      BY <1>3, <2>1 DEF LoginSucceeds, reset
    <2>3. /\ Fit(Without(table, {key}))
          /\ DOMAIN Without(table, {key}) = DOMAIN table \ {key}
          /\ \A k \in DOMAIN table \ {key} : Without(table, {key})[k] = table[k]
      BY <1>0, <2>1, WithoutFits, SMTT(30)
    <2> QED
      BY <2>1, <2>2, <2>3
  <1>4. CASE Restart
    <2>1. DOMAIN entries' = {} /\ entries' = [k \in {} |-> entries'[k]]
      BY <1>4 DEF Restart
    <2>2. Fit(entries')
      BY <2>1, FS_EmptySet, ThrottleAssumption DEF Fit
    <2> QED
      BY <1>4, <2>2
  <1> QED
    BY <1>1, <1>2, <1>3, <1>4, StartsFrame, GoesOnFrame, OtherFrame DEF AccessNext

-----------------------------------------------------------------------------
(* The passwords tried for a name, beside its entry in the table.          *)

\* The tries up to the n-th that came after a time.
Recent(times, n, t) == {i \in 1 .. n : times[i] > t}

\* Those of a window that starts at t.
Within(times, t) ==
    {i \in DOMAIN times : times[i] >= t /\ times[i] < t + WindowSeconds}

TriesFit(times, now) ==
    /\ times \in Seq(Nat)
    /\ \A i \in DOMAIN times : times[i] <= now
    /\ \A t \in Nat : Cardinality(Within(times, t)) <= 2 * MaxFailures - 2

\* An entry stands for the last tries; few of those before are near its first,
\* for the entry they were counted in had started longer ago than a window.
Spell(times, entry) ==
    \E m \in 0 .. Len(times) :
       /\ entry.failures >= 1 /\ entry.failures <= MaxFailures
       /\ Len(times) = m + entry.failures
       /\ times[m + 1] = entry.first
       /\ \A i \in 1 .. m : times[i] <= entry.first
       /\ \A i \in m + 1 .. Len(times) : times[i] >= entry.first
       /\ Cardinality(Recent(times, m, entry.first - WindowSeconds)) <= MaxFailures - 2
       /\ entry.until = 0 => entry.failures < MaxFailures
       /\ entry.until # 0 =>
             \A i \in 1 .. Len(times) : times[i] <= entry.until - LockoutSeconds

\* A name without an entry has room for two more failures before the limit.
Quiet(times, now) ==
    Cardinality(Recent(times, Len(times), now - WindowSeconds)) <= MaxFailures - 2

Attempts ==
    /\ tries = [k \in Names |-> tries[k]]
    /\ \A k \in Names :
          /\ TriesFit(tries[k], clock)
          /\ IF k \in DOMAIN entries THEN Spell(tries[k], entries[k])
                                     ELSE Quiet(tries[k], clock)

\* Sets of positions are finite.
LEMMA Positions ==
    ASSUME NEW n \in Nat, NEW S \in SUBSET (1 .. n)
    PROVE  /\ IsFiniteSet(S) /\ Cardinality(S) \in Nat
           /\ \A U \in SUBSET S : /\ Cardinality(U) \in Nat
                                  /\ Cardinality(U) <= Cardinality(S)
  <1>1. IsFiniteSet(1 .. n)
    BY FS_Interval
  <1>2. IsFiniteSet(S) /\ Cardinality(S) \in Nat
    BY <1>1, FS_Subset, FS_CardinalityType
  <1>3. ASSUME NEW U \in SUBSET S
        PROVE  Cardinality(U) \in Nat /\ Cardinality(U) <= Cardinality(S)
    BY <1>2, FS_Subset, FS_CardinalityType
  <1> QED
    BY <1>2, <1>3

\* What lies among few early positions and the last ones is no more than both.
LEMMA FewAndLast ==
    ASSUME NEW n \in Nat, NEW m \in 0 .. n, NEW few \in SUBSET (1 .. m), NEW c \in Nat,
           Cardinality(few) <= c,
           NEW S \in SUBSET (1 .. n), S \subseteq few \cup (m + 1 .. n)
    PROVE  Cardinality(S) <= c + (n - m)
  <1> DEFINE last == m + 1 .. n
  <1>0. m \in Nat /\ m <= n /\ m + 1 \in Int
    OBVIOUS
  <1>1. /\ IsFiniteSet(few) /\ Cardinality(few) \in Nat
    BY <1>0, Positions
  <1>2. IsFiniteSet(last) /\ Cardinality(last) = n - m
    <2>1. /\ IsFiniteSet(m + 1 .. n)
          /\ Cardinality(m + 1 .. n) = IF m + 1 > n THEN 0 ELSE n - (m + 1) + 1
      BY <1>0, FS_Interval
    <2>2. (IF m + 1 > n THEN 0 ELSE n - (m + 1) + 1) = n - m
      BY <1>0
    <2> QED
      BY <2>1, <2>2
  <1>3. few \cap last = {}
    BY <1>0
  <1>4. S \subseteq few \cup last
    OBVIOUS
  <1> HIDE DEF last
  <1>5. IsFiniteSet(few \cup last) /\ Cardinality(few \cup last) = Cardinality(few) + (n - m)
    <2>1. /\ IsFiniteSet(few \cup last)
          /\ Cardinality(few \cup last) =
                Cardinality(few) + Cardinality(last) - Cardinality(few \cap last)
      BY <1>1, <1>2, FS_Union
    <2>2. Cardinality(few \cap last) = 0
      BY <1>3, FS_EmptySet
    <2> QED
      BY <1>0, <1>1, <1>2, <2>1, <2>2
  <1>6. Cardinality(S) <= Cardinality(few \cup last)
    BY <1>5, <1>4, FS_Subset
  <1>7. Cardinality(S) \in Nat
    BY Positions
  <1>8. PICK all, some, these :
           /\ all = Cardinality(few \cup last) /\ some = Cardinality(few)
           /\ these = Cardinality(S)
    OBVIOUS
  <1>9. these <= c + (n - m)
    BY <1>0, <1>1, <1>5, <1>6, <1>7, <1>8
  <1> QED
    BY <1>8, <1>9

\* An entry that is dropped or pruned leaves room: its first failure is out of
\* the window by now, or its lock has outlasted the window.
LEMMA SpellGoesQuiet ==
    ASSUME NEW now \in Nat, NEW times, TriesFit(times, now),
           NEW entry \in Failure, Spell(times, entry),
           ~IsLocked(entry, now),
           entry.until \in 1 .. now \/ now - entry.first > WindowSeconds
    PROVE  Quiet(times, now)
  <1> DEFINE near == Recent(times, Len(times), now - WindowSeconds)
  <1>1. PICK n : n = Len(times)
    OBVIOUS
  <1>2. /\ n \in Nat /\ \A i \in 1 .. n : times[i] \in Nat
        /\ MaxFailures - 2 \in Nat /\ WindowSeconds \in Nat /\ LockoutSeconds \in Nat
        /\ LockoutSeconds >= WindowSeconds
    BY <1>1, ThrottleAssumption DEF TriesFit
  <1>3. near \in SUBSET (1 .. n)
    BY <1>1 DEF Recent
  <1>4. PICK failures, first, until :
           /\ failures = entry.failures /\ first = entry.first /\ until = entry.until
           /\ failures \in Nat /\ first \in Nat /\ until \in Nat
    BY DEF Failure
  <1>5. PICK m \in 0 .. n :
           /\ failures >= 1 /\ failures <= MaxFailures
           /\ n = m + failures
           /\ times[m + 1] = first
           /\ \A i \in 1 .. m : times[i] <= first
           /\ until = 0 => failures < MaxFailures
           /\ until # 0 => \A i \in 1 .. n : times[i] <= until - LockoutSeconds
    BY <1>1, <1>4 DEF Spell
  <1>6. CASE until # 0
    <2>1. until <= now
      BY <1>4 DEF IsLocked
    <2>2. ASSUME NEW i \in 1 .. n PROVE ~(times[i] > now - WindowSeconds)
      <3>1. PICK u : u = times[i]
        OBVIOUS
      <3>2. u \in Nat /\ u <= until - LockoutSeconds
        BY <1>2, <1>5, <1>6, <3>1
      <3>3. ~(u > now - WindowSeconds)
        BY <1>2, <1>4, <2>1, <3>2
      <3> QED
        BY <3>1, <3>3
    <2>3. near = {}
      BY <1>1, <2>2 DEF Recent
    <2>4. Cardinality({}) <= MaxFailures - 2
      BY <1>2, FS_EmptySet
    <2> QED
      BY <2>3, <2>4 DEF Quiet
  <1>7. CASE until = 0
    <2>1. now - first > WindowSeconds
      BY <1>4, <1>7
    <2>4. PICK b : b = m + 1 /\ b \in 0 .. n
      BY <1>5, <1>4
    <2>2. ASSUME NEW i \in 1 .. b PROVE ~(times[i] > now - WindowSeconds)
      <3>1. PICK u : u = times[i]
        OBVIOUS
      <3>2. i \in 1 .. m \/ i = m + 1
        BY <2>4
      <3>3. u <= first /\ u \in Nat
        BY <1>2, <1>4, <1>5, <2>4, <3>1, <3>2
      <3>4. ~(u > now - WindowSeconds)
        BY <1>2, <1>4, <2>1, <3>3
      <3> QED
        BY <3>1, <3>4
    <2>3. near \subseteq {} \cup (b + 1 .. n)
      <3>1. \A i \in 1 .. n : i \in 1 .. b \/ i \in b + 1 .. n
        BY <2>4, <1>2
      <3> QED
        BY <1>1, <2>2, <3>1 DEF Recent
    <2> HIDE DEF near
    <2>5. Cardinality(near) <= 0 + (n - b)
      <3>1. PICK few : few \in SUBSET (1 .. b) /\ Cardinality(few) <= 0 /\ few = {}
        BY FS_EmptySet
      <3>2. PICK zero : zero \in Nat /\ zero = 0
        OBVIOUS
      <3>3. near \subseteq few \cup (b + 1 .. n) /\ Cardinality(few) <= zero
        BY <2>3, <3>1, <3>2
      <3>4. Cardinality(near) <= zero + (n - b)
        BY <2>4, <3>1, <3>2, <3>3, <1>2, <1>3, FewAndLast
      <3> QED
        BY <3>2, <3>4
    <2>6. Cardinality(near) \in Nat
      BY <1>2, <1>3, Positions
    <2>7. 0 + (n - b) <= MaxFailures - 2
      <3>1. MaxFailures \in Nat /\ m \in Nat
        BY <1>2, ThrottleAssumption
      <3> QED
        BY <3>1, <2>4, <1>2, <1>4, <1>5, <1>7
    <2>8. PICK x : x = Cardinality(near)
      OBVIOUS
    <2>9. x <= MaxFailures - 2
      BY <2>4, <2>5, <2>6, <2>7, <2>8, <1>2
    <2> QED
      BY <2>8, <2>9 DEF Quiet, near
  <1> QED
    BY <1>6, <1>7

\* Few tries before a position and at most the limit since: so is any window.
LEMMA OneMoreTry ==
    ASSUME NEW now \in Nat, NEW times, TriesFit(times, now),
           NEW m \in 0 .. Len(times), NEW t \in Int, t <= now - WindowSeconds,
           Cardinality(Recent(times, m, t)) <= MaxFailures - 2,
           Len(times) + 1 - m <= MaxFailures
    PROVE  TriesFit(Append(times, now), now)
  <1>1. PICK n, more : n = Len(times) /\ more = Append(times, now)
    OBVIOUS
  <1>2. /\ n \in Nat /\ \A i \in 1 .. n : times[i] \in Nat /\ times[i] <= now
        /\ MaxFailures - 2 \in Nat /\ WindowSeconds \in Nat
    <2>1. /\ times \in Seq(Nat) /\ \A i \in DOMAIN times : times[i] <= now
      BY DEF TriesFit
    <2>2. n \in Nat /\ DOMAIN times = 1 .. n /\ \A i \in 1 .. n : times[i] \in Nat
      BY <1>1, <2>1
    <2>3. MaxFailures - 2 \in Nat /\ WindowSeconds \in Nat
      BY ThrottleAssumption
    <2> QED
      BY <2>1, <2>2, <2>3
  <1>3. /\ more \in Seq(Nat) /\ Len(more) = n + 1 /\ DOMAIN more = 1 .. n + 1
        /\ more[n + 1] = now /\ \A i \in 1 .. n : more[i] = times[i]
    BY <1>1 DEF TriesFit
  <1>4. ASSUME NEW s \in Nat
        PROVE  Cardinality(Within(more, s)) <= 2 * MaxFailures - 2
    <2> DEFINE S == Within(more, s)
    <2>1. S \in SUBSET (1 .. n + 1)
      BY <1>3 DEF Within
    <2>2. CASE s <= now /\ now < s + WindowSeconds
      <3> DEFINE few == Recent(times, m, t)
      <3>1. few \in SUBSET (1 .. m)
        BY DEF Recent
      <3>2. ASSUME NEW i \in S PROVE i \in few \cup (m + 1 .. n + 1)
        <4>1. i \in 1 .. n + 1 /\ more[i] >= s
          BY <1>3 DEF Within
        <4>2. CASE i \in m + 1 .. n + 1
          BY <4>2
        <4>3. CASE i \notin m + 1 .. n + 1
          <5>1. i \in 1 .. m /\ i \in 1 .. n
            BY <1>1, <1>2, <4>1, <4>3
          <5>2. PICK u : u = times[i]
            OBVIOUS
          <5>3. u \in Nat /\ u >= s
            BY <1>2, <1>3, <4>1, <5>1, <5>2
          <5>4. u > t
            BY <1>2, <2>2, <5>3
          <5> QED
            BY <5>1, <5>2, <5>4 DEF Recent
        <4> QED
          BY <4>2, <4>3
      <3>3. m \in 0 .. n + 1 /\ n + 1 \in Nat
        BY <1>1, <1>2
      <3>4. Cardinality(few) <= MaxFailures - 2
        OBVIOUS
      <3> HIDE DEF few, S
      <3>5. PICK c, size : c = MaxFailures - 2 /\ c \in Nat /\ size = n + 1 /\ size \in Nat
        BY <1>2, <3>3
      <3>6. Cardinality(S) <= c + (size - m)
        <4>1. /\ m \in 0 .. size /\ S \in SUBSET (1 .. size)
              /\ S \subseteq few \cup (m + 1 .. size) /\ Cardinality(few) <= c
          BY <2>1, <3>2, <3>3, <3>4, <3>5
        <4> QED
          BY <3>1, <3>5, <4>1, FewAndLast
      <3>7. Cardinality(S) \in Nat
        BY <2>1, <3>3, Positions
      <3>8. n + 1 - m <= MaxFailures /\ m \in Nat
        BY <1>1, <1>2
      <3>9. PICK x : x = Cardinality(S)
        OBVIOUS
      <3>10. x <= 2 * MaxFailures - 2
        <4>1. MaxFailures \in Nat
          BY ThrottleAssumption
        <4> QED
          BY <1>2, <3>3, <3>6, <3>7, <3>8, <3>9, <3>5, <4>1
      <3> QED
        BY <3>9, <3>10 DEF S
    <2>3. CASE ~(s <= now /\ now < s + WindowSeconds)
      <3>1. n + 1 \notin S
        BY <1>3, <2>3 DEF Within
      <3>2. S = Within(times, s)
        BY <1>1, <1>3, <3>1, <2>1 DEF Within
      <3> QED
        BY <3>2 DEF TriesFit
    <2> QED
      BY <2>2, <2>3
  <1>5. \A i \in DOMAIN more : more[i] <= now
    BY <1>2, <1>3
  <1> QED
    BY <1>1, <1>3, <1>4, <1>5 DEF TriesFit

\* A first failure opens a spell.
LEMMA SpellOpens ==
    ASSUME NEW now \in Nat, NEW times, TriesFit(times, now), Quiet(times, now)
    PROVE  /\ TriesFit(Append(times, now), now)
           /\ Spell(Append(times, now), Counted(Entry(0, now), now))
  <1>1. PICK n, more : n = Len(times) /\ more = Append(times, now)
    OBVIOUS
  <1>2. n \in Nat /\ n + 1 - n <= MaxFailures /\ now - WindowSeconds \in Int
    BY <1>1, ThrottleAssumption DEF TriesFit
  <1>3. TriesFit(more, now)
    <2>1. PICK t : t = now - WindowSeconds
      OBVIOUS
    <2>2. t \in Int /\ t <= now - WindowSeconds
      BY <1>2, <2>1
    <2>3. Cardinality(Recent(times, n, t)) <= MaxFailures - 2
      BY <1>1, <2>1 DEF Quiet
    <2> QED
      BY <1>1, <1>2, <2>2, <2>3, OneMoreTry
  <1>4. PICK entry : entry = Counted(Entry(0, now), now)
    OBVIOUS
  <1>5. /\ entry.failures = 1 /\ entry.first = now /\ entry.until = 0
    BY <1>4, ThrottleAssumption DEF Counted, Entry
  <1>6. /\ Len(more) = n + 1 /\ more[n + 1] = now
        /\ \A i \in 1 .. n : more[i] = times[i] /\ times[i] <= now
    BY <1>1 DEF TriesFit
  <1>7. Recent(more, n, now - WindowSeconds) = Recent(times, n, now - WindowSeconds)
    BY <1>6 DEF Recent
  <1>8. Spell(more, entry)
    <2>1. n \in 0 .. Len(more) /\ 1 <= MaxFailures /\ 1 < MaxFailures
      BY <1>2, <1>6, ThrottleAssumption
    <2>2. Cardinality(Recent(more, n, entry.first - WindowSeconds)) <= MaxFailures - 2
      BY <1>1, <1>5, <1>7 DEF Quiet
    <2>3. \A i \in n + 1 .. Len(more) : more[i] >= entry.first
      BY <1>2, <1>5, <1>6
    <2> QED
      BY <1>5, <1>6, <2>1, <2>2, <2>3 DEF Spell
  <1> QED
    BY <1>1, <1>3, <1>4, <1>8

\* A further failure within the window lengthens it, and at the limit locks.
LEMMA SpellGrows ==
    ASSUME NEW now \in Nat, NEW times, TriesFit(times, now),
           NEW entry \in Failure, Spell(times, entry), entry.until = 0,
           ~(now - entry.first > WindowSeconds)
    PROVE  /\ TriesFit(Append(times, now), now)
           /\ Spell(Append(times, now), Counted(entry, now))
  <1>1. PICK n, more : n = Len(times) /\ more = Append(times, now)
    OBVIOUS
  <1>2. PICK failures, first :
           /\ failures = entry.failures /\ first = entry.first
           /\ failures \in Nat /\ first \in Nat
    BY DEF Failure
  <1>3. /\ n \in Nat /\ MaxFailures \in Nat /\ WindowSeconds \in Nat
        /\ LockoutSeconds \in Nat /\ LockoutSeconds >= WindowSeconds
        /\ WindowSeconds >= 1
    BY <1>1, ThrottleAssumption DEF TriesFit
  <1>4. PICK m \in 0 .. n :
           /\ failures >= 1 /\ failures < MaxFailures
           /\ n = m + failures
           /\ times[m + 1] = first
           /\ \A i \in 1 .. m : times[i] <= first
           /\ \A i \in m + 1 .. n : times[i] >= first
           /\ Cardinality(Recent(times, m, first - WindowSeconds)) <= MaxFailures - 2
    BY <1>1, <1>2 DEF Spell
  <1>5. /\ DOMAIN more = 1 .. n + 1 /\ Len(more) = n + 1 /\ more[n + 1] = now
        /\ \A i \in 1 .. n : more[i] = times[i] /\ times[i] <= now /\ times[i] \in Nat
    <2>1. times \in Seq(Nat) /\ \A i \in DOMAIN times : times[i] <= now
      BY DEF TriesFit
    <2>2. DOMAIN times = 1 .. n /\ \A i \in 1 .. n : times[i] \in Nat
      BY <1>1, <2>1
    <2>3. more \in Seq(Nat) /\ Len(more) = n + 1 /\ more[n + 1] = now
      BY <1>1, <2>1
    <2>4. \A i \in 1 .. n : more[i] = times[i]
      BY <1>1, <2>1
    <2> QED
      BY <2>1, <2>2, <2>3, <2>4, SMTT(30)
  <1>6. first <= now
    <2>1. m + 1 \in 1 .. n
      BY <1>2, <1>3, <1>4
    <2> QED
      BY <1>4, <1>5, <2>1
  <1>7. TriesFit(more, now)
    <2>1. PICK t : t = first - WindowSeconds
      OBVIOUS
    <2>2. t \in Int /\ t <= now - WindowSeconds
      BY <1>2, <1>3, <1>6, <2>1
    <2>3. m \in 0 .. n /\ n + 1 - m <= MaxFailures
      BY <1>2, <1>3, <1>4
    <2> QED
      BY <1>1, <1>4, <2>1, <2>2, <2>3, OneMoreTry
  <1>8. PICK grown : grown = Counted(entry, now)
    OBVIOUS
  <1>9. /\ grown.failures = failures + 1 /\ grown.first = first
        /\ grown.until = IF failures + 1 >= MaxFailures THEN now + LockoutSeconds ELSE 0
    <2>1. /\ DOMAIN entry = {"failures", "first", "until"}
          /\ entry = [f \in {"failures", "first", "until"} |-> entry[f]]
      BY DEF Failure
    <2> QED
      BY <1>2, <1>8, <2>1 DEF Counted
  <1>10. \A i \in 1 .. m : more[i] <= first
    BY <1>3, <1>4, <1>5
  <1>11. \A i \in m + 1 .. n + 1 : more[i] >= first
    <2>1. \A i \in m + 1 .. n + 1 : i \in m + 1 .. n \/ i = n + 1
      BY <1>3
    <2>2. \A i \in m + 1 .. n : i \in 1 .. n
      BY <1>3
    <2> QED
      BY <1>4, <1>5, <1>6, <2>1, <2>2
  <1>12. Recent(more, m, first - WindowSeconds) = Recent(times, m, first - WindowSeconds)
    <2>1. \A i \in 1 .. m : more[i] = times[i]
      BY <1>3, <1>5
    <2> QED
      BY <2>1 DEF Recent
  <1>13. \A i \in 1 .. n + 1 : more[i] <= now
    <2>1. \A i \in 1 .. n + 1 : i \in 1 .. n \/ i = n + 1
      BY <1>3
    <2> QED
      BY <1>5, <2>1
  <1>14. Spell(more, grown)
    <2>1. m \in 0 .. Len(more) /\ n + 1 = m + (failures + 1) /\ more[m + 1] = first
      <3>1. m + 1 \in 1 .. n /\ m \in 0 .. n + 1 /\ n + 1 = m + (failures + 1)
        BY <1>2, <1>3, <1>4
      <3> QED
        BY <1>4, <1>5, <3>1
    <2>2. /\ failures + 1 >= 1 /\ failures + 1 <= MaxFailures
          /\ grown.until = 0 => failures + 1 < MaxFailures
      <3>1. failures + 1 >= MaxFailures => now + LockoutSeconds # 0
        BY <1>3
      <3> QED
        BY <1>2, <1>3, <1>4, <1>9, <3>1
    <2>3. grown.until # 0 =>
             \A i \in 1 .. n + 1 : more[i] <= grown.until - LockoutSeconds
      <3>1. grown.until # 0 => grown.until - LockoutSeconds = now
        BY <1>3, <1>9
      <3> QED
        BY <1>13, <3>1
    <2>4. Cardinality(Recent(more, m, first - WindowSeconds)) <= MaxFailures - 2
      BY <1>4, <1>12
    <2> QED
      BY <1>5, <1>9, <1>10, <1>11, <2>1, <2>2, <2>3, <2>4 DEF Spell
  <1> QED
    BY <1>1, <1>7, <1>8, <1>14

\* Quiet stays quiet as time goes by, and with no tries.
LEMMA QuietLasts ==
    ASSUME NEW now \in Nat, NEW times, TriesFit(times, now)
    PROVE  /\ TriesFit(times, now + 1)
           /\ Quiet(times, now) => Quiet(times, now + 1)
  <1>1. PICK n : n = Len(times) /\ n \in Nat /\ \A i \in 1 .. n : times[i] \in Nat
    BY DEF TriesFit
  <1>2. PICK old, new :
           /\ old = Recent(times, n, now - WindowSeconds)
           /\ new = Recent(times, n, (now + 1) - WindowSeconds)
    OBVIOUS
  <1>3. new \in SUBSET old /\ old \in SUBSET (1 .. n)
    BY <1>1, <1>2, ThrottleAssumption DEF Recent
  <1>4. /\ Cardinality(new) \in Nat /\ Cardinality(old) \in Nat
        /\ Cardinality(new) <= Cardinality(old)
    BY <1>1, <1>3, Positions
  <1>5. MaxFailures - 2 \in Nat
    BY ThrottleAssumption
  <1>6. Cardinality(old) <= MaxFailures - 2 => Cardinality(new) <= MaxFailures - 2
    <2>1. \A a, b, c \in Int : a <= b /\ b <= c => a <= c
      OBVIOUS
    <2> QED
      BY <1>4, <1>5, <2>1
  <1>7. TriesFit(times, now + 1)
    <2>1. \A i \in 1 .. n : times[i] <= now => times[i] <= now + 1
      BY <1>1
    <2>2. DOMAIN times = 1 .. n
      BY <1>1 DEF TriesFit
    <2> QED
      BY <2>1, <2>2 DEF TriesFit
  <1>8. /\ Quiet(times, now) => Cardinality(old) <= MaxFailures - 2
        /\ Cardinality(new) <= MaxFailures - 2 => Quiet(times, now + 1)
    BY <1>1, <1>2, Zenon DEF Quiet
  <1> QED
    BY <1>6, <1>7, <1>8

\* No tries at all are within bounds.
LEMMA NoTries ==
    ASSUME NEW now \in Nat
    PROVE  TriesFit(<<>>, now) /\ Quiet(<<>>, now)
  <1>1. /\ Recent(<<>>, Len(<<>>), now - WindowSeconds) = {}
        /\ \A t \in Nat : Within(<<>>, t) = {}
    BY DEF Recent, Within
  <1>2. Cardinality({}) <= MaxFailures - 2 /\ Cardinality({}) <= 2 * MaxFailures - 2
    BY FS_EmptySet, ThrottleAssumption
  <1>3. <<>> \in Seq(Nat) /\ DOMAIN <<>> = {}
    OBVIOUS
  <1> QED
    BY <1>1, <1>2, <1>3 DEF TriesFit, Quiet

\* What the table looks like after a login that was let in: the entries that
\* went were not locked and too old, the name's own counts one more.
LEMMA LoginTable ==
    ASSUME NEW table, Fit(table), NEW key, NEW now \in Nat,
           seconds_until_unlocked(table, key, now) = 0,
           NEW kept, kept = Pruned(Looked(table, key, now), now),
           NEW after \in record_failure(Looked(table, key, now), key, now)
    PROVE  /\ DOMAIN kept \subseteq DOMAIN table
           /\ \A k \in DOMAIN kept : kept[k] = table[k]
           /\ \A k \in DOMAIN table \ DOMAIN kept :
                 /\ ~IsLocked(table[k], now)
                 /\ \/ table[k].until \in 1 .. now
                    \/ now - table[k].first > WindowSeconds
           /\ key \in DOMAIN kept =>
                 table[key].until = 0 /\ ~(now - table[key].first > WindowSeconds)
           /\ key \in DOMAIN after /\ DOMAIN after \subseteq DOMAIN kept \cup {key}
           /\ \A k \in DOMAIN after \ {key} : after[k] = kept[k]
           /\ key \in DOMAIN kept => after[key] = Counted(table[key], now)
           /\ key \notin DOMAIN kept => after[key] = Counted(Entry(0, now), now)
  <1>1. PICK seen : seen = Looked(table, key, now)
    OBVIOUS
  <1>2. key \in DOMAIN table => ~IsLocked(table[key], now)
    <2>1. ASSUME key \in DOMAIN table, IsLocked(table[key], now) PROVE FALSE
      <3>1. PICK until : until = table[key].until /\ until \in Nat
        BY <2>1 DEF Fit, Failure
      <3>2. until > now /\ until - now = 0
        BY <2>1, <3>1 DEF seconds_until_unlocked, IsLocked
      <3> QED
        BY <3>1, <3>2
    <2> QED
      BY <2>1
  <1>3. /\ Fit(seen) /\ DOMAIN seen \subseteq DOMAIN table
        /\ \A k \in DOMAIN seen : seen[k] = table[k]
        /\ DOMAIN table \ DOMAIN seen \subseteq {key}
        /\ key \in DOMAIN table \ DOMAIN seen => table[key].until \in 1 .. now
        /\ key \in DOMAIN seen => table[key].until \notin 1 .. now
    <2>1. CASE key \in DOMAIN table /\ table[key].until \in 1 .. now
      <3>1. seen = Without(table, {key})
        BY <1>1, <2>1 DEF Looked
      <3>2. /\ Fit(Without(table, {key}))
            /\ DOMAIN Without(table, {key}) = DOMAIN table \ {key}
            /\ \A k \in DOMAIN table \ {key} : Without(table, {key})[k] = table[k]
        BY WithoutFits
      <3> QED
        BY <2>1, <3>1, <3>2
    <2>2. CASE ~(key \in DOMAIN table /\ table[key].until \in 1 .. now)
      <3>1. seen = table
        BY <1>1, <2>2 DEF Looked
      <3> QED
        BY <2>2, <3>1
    <2> QED
      BY <2>1, <2>2
  <1>4. /\ Fit(kept) /\ DOMAIN kept \subseteq DOMAIN seen
        /\ \A k \in DOMAIN kept : kept[k] = seen[k]
        /\ \A k \in DOMAIN seen :
              k \in DOMAIN kept <=> ~(/\ ~IsLocked(seen[k], now)
                                      /\ now - seen[k].first > WindowSeconds)
    <2> DEFINE stale == {k \in DOMAIN seen : /\ ~IsLocked(seen[k], now)
                                            /\ now - seen[k].first > WindowSeconds}
    <2>1. kept = Without(seen, stale)
      BY <1>1 DEF Pruned
    <2>2. /\ Fit(Without(seen, stale))
          /\ DOMAIN Without(seen, stale) = DOMAIN seen \ stale
          /\ \A k \in DOMAIN seen \ stale : Without(seen, stale)[k] = seen[k]
      BY <1>3, WithoutFits
    <2> QED
      BY <2>1, <2>2
  <1>5. key \in DOMAIN kept =>
           table[key].until = 0 /\ ~(now - table[key].first > WindowSeconds)
    <2> SUFFICES ASSUME key \in DOMAIN kept
                 PROVE  table[key].until = 0 /\ ~(now - table[key].first > WindowSeconds)
      OBVIOUS
    <2>1. key \in DOMAIN seen /\ key \in DOMAIN table /\ seen[key] = table[key]
      BY <1>3, <1>4
    <2>2. ~(now - table[key].first > WindowSeconds)
      BY <1>2, <1>4, <2>1
    <2>3. PICK until : until = table[key].until /\ until \in Nat
      BY <2>1 DEF Fit, Failure
    <2>4. ~(until > now) /\ until \notin 1 .. now
      BY <1>2, <1>3, <2>1, <2>3 DEF IsLocked
    <2>5. until = 0
      BY <2>3, <2>4
    <2> QED
      BY <2>2, <2>3, <2>5
  <1>6. \A k \in DOMAIN table \ DOMAIN kept :
           /\ ~IsLocked(table[k], now)
           /\ \/ table[k].until \in 1 .. now
              \/ now - table[k].first > WindowSeconds
    BY <1>2, <1>3, <1>4
  <1>7. after \in (IF key \notin DOMAIN kept
                   THEN {With(e, key, Counted(Entry(0, now), now)) : e \in Evicted(kept, now)}
                   ELSE IF IsLocked(kept[key], now) THEN {kept}
                   ELSE {With(kept, key, Counted(kept[key], now))})
    BY DEF record_failure
  <1>8. CASE key \in DOMAIN kept
    <2>1. kept[key] = table[key] /\ ~IsLocked(kept[key], now)
      BY <1>2, <1>3, <1>4, <1>8
    <2>2. after = With(kept, key, Counted(table[key], now))
      BY <1>7, <1>8, <2>1
    <2>3. PICK entry : entry = Counted(table[key], now)
      OBVIOUS
    <2>4. after = [k \in DOMAIN kept \cup {key} |-> IF k = key THEN entry ELSE kept[k]]
      BY <2>2, <2>3 DEF With
    <2> QED
      BY <1>3, <1>4, <1>5, <1>6, <1>8, <2>3, <2>4
  <1>9. CASE key \notin DOMAIN kept
    <2>1. PICK e \in Evicted(kept, now) : after = With(e, key, Counted(Entry(0, now), now))
      BY <1>7, <1>9
    <2>2. DOMAIN e \subseteq DOMAIN kept /\ \A k \in DOMAIN e : e[k] = kept[k]
      <3>1. CASE e = kept
        BY <3>1
      <3>2. ASSUME NEW v, e = Without(kept, {v})
            PROVE  DOMAIN e \subseteq DOMAIN kept /\ \A k \in DOMAIN e : e[k] = kept[k]
        <4>1. /\ DOMAIN Without(kept, {v}) = DOMAIN kept \ {v}
              /\ \A k \in DOMAIN kept \ {v} : Without(kept, {v})[k] = kept[k]
          <5>1. Fit(kept)
            BY <1>4
          <5> QED
            BY <5>1, WithoutFits
        <4> QED
          BY <3>2, <4>1
      <3>3. e = kept \/ \E v \in Victims(kept, now) : e = Without(kept, {v})
        BY DEF Evicted
      <3> QED
        BY <3>1, <3>2, <3>3
    <2>3. PICK entry : entry = Counted(Entry(0, now), now)
      OBVIOUS
    <2>4. after = [k \in DOMAIN e \cup {key} |-> IF k = key THEN entry ELSE e[k]]
      BY <2>1, <2>3 DEF With
    <2> QED
      BY <1>3, <1>4, <1>5, <1>6, <1>9, <2>2, <2>3, <2>4
  <1> QED
    BY <1>8, <1>9

\* Only a login that starts, one that succeeds and a restart touch the tries.
LEMMA TriesFrame ==
    ASSUME [AccessNext]_vars
    PROVE  \/ UNCHANGED <<tries, entries>> /\ (UNCHANGED clock \/ Tick)
           \/ \E c \in Clients : \E name \in Names : LoginStarts(c, name)
           \/ \E c \in Clients : LoginSucceeds(c)
           \/ Restart
  <1>1. ASSUME NEW c \in Clients, Starts(c)
        PROVE  \/ UNCHANGED <<tries, entries, clock>>
               \/ \E name \in Names : LoginStarts(c, name)
    BY <1>1 DEF Starts, Visit, SetupStarts, LogoutStarts, CreateStarts, RevokeStarts, UseStarts
  <1>2. ASSUME NEW c \in Clients, GoesOn(c)
        PROVE  UNCHANGED <<tries, entries, clock>> \/ LoginSucceeds(c)
    BY <1>2 DEF GoesOn, LoginLooks, LoginFails, SetupCommits, LogoutCommits, CreateCommits,
                RevokeCommits, UseCommits
  <1>3. CASE Acquire \/ Tick \/ UNCHANGED vars
    BY <1>3 DEF Acquire, Tick, vars
  <1> QED
    BY <1>1, <1>2, <1>3 DEF AccessNext

\* A login that starts keeps the tries of every name within bounds.
LEMMA LoginKeepsAttempts ==
    ASSUME Inv, Attempts, NEW c \in Clients, NEW name \in Names, LoginStarts(c, name)
    PROVE  Attempts'
  <1>1. PICK key, now, kept, after :
           /\ key = Key[name] /\ now = clock
           /\ kept = Pruned(Looked(entries, key, now), now) /\ after = entries'
    OBVIOUS
  <1>2. now \in Nat /\ Fit(entries) /\ key \in Names /\ clock' = now
    BY <1>1, AccessAssumption DEF LoginStarts, Inv, Table
  <1>3. /\ seconds_until_unlocked(entries, key, now) = 0
        /\ after \in record_failure(Looked(entries, key, now), key, now)
        /\ tries' = [k \in Names |->
                        IF k = key THEN Append(tries[k], now)
                        ELSE IF k \in DOMAIN kept \ DOMAIN after THEN <<>> ELSE tries[k]]
    BY <1>1 DEF LoginStarts, Tried
  <1>4. /\ DOMAIN kept \subseteq DOMAIN entries
        /\ \A k \in DOMAIN kept : kept[k] = entries[k]
        /\ \A k \in DOMAIN entries \ DOMAIN kept :
              /\ ~IsLocked(entries[k], now)
              /\ \/ entries[k].until \in 1 .. now
                 \/ now - entries[k].first > WindowSeconds
        /\ key \in DOMAIN kept =>
              entries[key].until = 0 /\ ~(now - entries[key].first > WindowSeconds)
        /\ key \in DOMAIN after /\ DOMAIN after \subseteq DOMAIN kept \cup {key}
        /\ \A k \in DOMAIN after \ {key} : after[k] = kept[k]
        /\ key \in DOMAIN kept => after[key] = Counted(entries[key], now)
        /\ key \notin DOMAIN kept => after[key] = Counted(Entry(0, now), now)
    BY <1>1, <1>2, <1>3, LoginTable
  <1>5. \A k \in DOMAIN entries : entries[k] \in Failure
    BY <1>2 DEF Fit
  <1>6. ASSUME NEW k \in Names
        PROVE  /\ TriesFit(tries[k], now)
               /\ k \in DOMAIN entries => Spell(tries[k], entries[k])
               /\ k \notin DOMAIN entries => Quiet(tries[k], now)
    BY <1>1 DEF Attempts
  <1>7. ASSUME NEW k \in Names, k \notin DOMAIN kept
        PROVE  Quiet(tries[k], now)
    <2>1. CASE k \in DOMAIN entries
      <3>1. PICK entry, times : entry = entries[k] /\ times = tries[k]
        OBVIOUS
      <3>2. /\ TriesFit(times, now) /\ entry \in Failure /\ Spell(times, entry)
            /\ ~IsLocked(entry, now)
            /\ entry.until \in 1 .. now \/ now - entry.first > WindowSeconds
        BY <1>4, <1>5, <1>6, <1>7, <2>1, <3>1
      <3> QED
        BY <1>2, <3>1, <3>2, SpellGoesQuiet
    <2>2. CASE k \notin DOMAIN entries
      BY <1>6, <2>2
    <2> QED
      BY <2>1, <2>2
  <1>8. ASSUME NEW k \in Names
        PROVE  /\ TriesFit(tries'[k], now)
               /\ k \in DOMAIN after => Spell(tries'[k], after[k])
               /\ k \notin DOMAIN after => Quiet(tries'[k], now)
    <2>1. CASE k = key /\ key \in DOMAIN kept
      <3>1. PICK entry, times : entry = entries[key] /\ times = tries[key]
        OBVIOUS
      <3>2. /\ TriesFit(times, now) /\ entry \in Failure /\ Spell(times, entry)
            /\ entry.until = 0 /\ ~(now - entry.first > WindowSeconds)
        BY <1>2, <1>4, <1>5, <1>6, <2>1, <3>1
      <3>3. /\ TriesFit(Append(times, now), now)
            /\ Spell(Append(times, now), Counted(entry, now))
        BY <1>2, <3>2, SpellGrows
      <3>4. tries'[k] = Append(times, now) /\ after[k] = Counted(entry, now)
        BY <1>3, <1>4, <2>1, <3>1
      <3> QED
        BY <1>4, <2>1, <3>3, <3>4
    <2>2. CASE k = key /\ key \notin DOMAIN kept
      <3>1. PICK times : times = tries[key]
        OBVIOUS
      <3>2. TriesFit(times, now) /\ Quiet(times, now)
        BY <1>2, <1>6, <1>7, <2>2, <3>1
      <3>3. /\ TriesFit(Append(times, now), now)
            /\ Spell(Append(times, now), Counted(Entry(0, now), now))
        BY <1>2, <3>2, SpellOpens
      <3>4. tries'[k] = Append(times, now) /\ after[k] = Counted(Entry(0, now), now)
        BY <1>3, <1>4, <2>2, <3>1
      <3> QED
        BY <1>4, <2>2, <3>3, <3>4
    <2>3. CASE k # key /\ k \in DOMAIN kept \ DOMAIN after
      <3>1. tries'[k] = <<>>
        BY <1>3, <2>3
      <3> QED
        BY <1>2, <2>3, <3>1, NoTries
    <2>4. CASE k # key /\ k \in DOMAIN kept /\ k \in DOMAIN after
      <3>1. tries'[k] = tries[k] /\ after[k] = entries[k] /\ k \in DOMAIN entries
        BY <1>3, <1>4, <2>4
      <3> QED
        BY <1>6, <2>4, <3>1
    <2>5. CASE k # key /\ k \notin DOMAIN kept
      <3>1. tries'[k] = tries[k] /\ k \notin DOMAIN after
        BY <1>3, <1>4, <2>5
      <3> QED
        BY <1>6, <1>7, <2>5, <3>1
    <2> QED
      BY <2>1, <2>2, <2>3, <2>4, <2>5
  <1>9. tries' = [k \in Names |-> tries'[k]]
    BY <1>3
  <1> QED
    BY <1>1, <1>2, <1>8, <1>9 DEF Attempts

\* So does every other step.
LEMMA AttemptsKept ==
    ASSUME Inv, Attempts, [AccessNext]_vars
    PROVE  Attempts'
  <1>1. clock \in Nat
    BY DEF Inv
  <1>2. CASE UNCHANGED <<tries, entries, clock>>
    BY <1>2 DEF Attempts
  <1>3. CASE UNCHANGED <<tries, entries>> /\ Tick
    <2>1. clock' = clock + 1
      BY <1>3 DEF Tick
    <2>2. ASSUME NEW k \in Names
          PROVE  /\ TriesFit(tries[k], clock + 1)
                 /\ k \in DOMAIN entries => Spell(tries[k], entries[k])
                 /\ k \notin DOMAIN entries => Quiet(tries[k], clock + 1)
      <3>1. PICK times, now : times = tries[k] /\ now = clock
        OBVIOUS
      <3>2. /\ now \in Nat /\ TriesFit(times, now)
            /\ k \notin DOMAIN entries => Quiet(times, now)
            /\ k \in DOMAIN entries => Spell(tries[k], entries[k])
        BY <1>1, <3>1 DEF Attempts
      <3>3. TriesFit(times, now + 1) /\ (Quiet(times, now) => Quiet(times, now + 1))
        BY <3>2, QuietLasts
      <3> QED
        BY <3>1, <3>2, <3>3
    <2> QED
      BY <1>3, <2>1, <2>2 DEF Attempts
  <1>4. ASSUME NEW c \in Clients, LoginSucceeds(c)
        PROVE  Attempts'
    <2>1. PICK key, table : key = Key[req[c].name] /\ table = entries
      OBVIOUS
    <2>2. /\ entries' = Without(table, {key}) /\ clock' = clock
          /\ tries' = [tries EXCEPT ![key] = <<>>]
      BY <1>4, <2>1 DEF LoginSucceeds, reset
    <2>3. /\ DOMAIN Without(table, {key}) = DOMAIN table \ {key}
          /\ \A k \in DOMAIN table \ {key} : Without(table, {key})[k] = table[k]
      <3>1. Fit(table)
        BY <2>1 DEF Inv, Table
      <3> QED
        BY <3>1, WithoutFits
    <2>4. ASSUME NEW k \in Names
          PROVE  /\ TriesFit(tries'[k], clock)
                 /\ k \in DOMAIN entries' => Spell(tries'[k], entries'[k])
                 /\ k \notin DOMAIN entries' => Quiet(tries'[k], clock)
      <3>1. tries'[k] = IF k = key THEN <<>> ELSE tries[k]
        BY <2>2 DEF Attempts
      <3>2. CASE k = key
        BY <1>1, <2>2, <2>3, <3>1, <3>2, NoTries
      <3>3. CASE k # key
        BY <2>1, <2>2, <2>3, <3>1, <3>3 DEF Attempts
      <3> QED
        BY <3>2, <3>3
    <2>5. tries' = [k \in Names |-> tries'[k]]
      BY <2>2 DEF Attempts
    <2> QED
      BY <2>2, <2>4, <2>5 DEF Attempts
  <1>5. CASE Restart
    <2>1. /\ tries' = [k \in Names |-> <<>>] /\ DOMAIN entries' = {} /\ clock' = clock
      BY <1>5 DEF Restart
    <2>2. TriesFit(<<>>, clock) /\ Quiet(<<>>, clock)
      BY <1>1, NoTries
    <2> QED
      BY <2>1, <2>2 DEF Attempts
  <1> QED
    BY <1>2, <1>3, <1>4, <1>5, LoginKeepsAttempts, TriesFrame

\* At first nobody has tried.
LEMMA InitAttempts == AccessInit => Attempts
  <1> SUFFICES ASSUME AccessInit PROVE Attempts
    OBVIOUS
  <1>1. tries = [k \in Names |-> <<>>] /\ DOMAIN entries = {} /\ clock \in Nat
    BY DEF AccessInit
  <1>2. TriesFit(<<>>, clock) /\ Quiet(<<>>, clock)
    BY <1>1, NoTries
  <1> QED
    BY <1>1, <1>2 DEF Attempts

-----------------------------------------------------------------------------
(* The theorems.                                                           *)

\* The invariant holds at first.
LEMMA InitInv == AccessInit => Inv
  <1> SUFFICES ASSUME AccessInit PROVE Inv
    OBVIOUS
  <1>1. /\ clock \in Nat /\ DOMAIN req = Clients /\ req = [c \in Clients |-> req[c]]
        /\ cookie = [c \in Clients |-> cookie[c]]
    BY DEF AccessInit
  <1>2. People /\ Nonces
    <2>1. ended = {} /\ None \notin Nat /\ Owner \in Names
      BY AccessAssumption DEF AccessInit
    <2>2. CASE users = {} /\ cookie = [c \in Clients |-> None]
      BY <2>1, <2>2 DEF People, Nonces
    <2>3. CASE /\ users = {[id |-> 1, name |-> Owner, nonce |-> 0]}
               /\ cookie = [c \in Clients |-> [user |-> 1, nonce |-> 0, at |-> 1]]
      <3> DEFINE u == [id |-> 1, name |-> Owner, nonce |-> 0]
      <3>1. u \in User /\ u \in users /\ u.nonce = 0 /\ users = {u}
        BY <2>1, <2>3 DEF User
      <3>2. \A c \in Clients : cookie[c] \in Cookie /\ cookie[c].nonce = 0
        BY <2>3 DEF Cookie
      <3>3. People
        BY <3>1 DEF People
      <3>4. Issued(0)
        BY <3>1 DEF Issued
      <3> QED
        BY <2>1, <3>2, <3>3, <3>4 DEF Nonces
    <2> QED
      BY <2>2, <2>3 DEF AccessInit
  <1>3. InFlight
    BY DEF AccessInit, InFlight, Fits, Idle
  <1>4. Tokens
    BY DEF AccessInit, Tokens, TokensStayDistinct
  <1>5. Table
    <2>1. DOMAIN entries = {} /\ entries = [k \in {} |-> entries[k]]
      BY DEF AccessInit
    <2> QED
      BY <2>1, FS_EmptySet, ThrottleAssumption DEF Table, Fit
  <1> QED
    BY <1>1, <1>2, <1>3, <1>4, <1>5 DEF Inv

\* Every step keeps it.
LEMMA StepKeepsInv ==
    ASSUME Inv, [AccessNext]_vars
    PROVE  Inv'
  <1>1. clock' \in Nat
    BY StartsFrame, GoesOnFrame, OtherFrame DEF AccessNext, Tick, Inv
  <1>2. cookie' = [c \in Clients |-> cookie'[c]]
    BY StartsFrame, GoesOnFrame, OtherFrame
       DEF AccessNext, LoginSucceeds, SetupCommits, LogoutCommits, browser, Inv
  <1>3. Table'
    BY TableKept DEF Table, Fit
  <1> QED
    BY <1>1, <1>2, <1>3, PeopleKept, InFlightKept, TokensKept DEF Inv

\* The inductive invariant holds in every reachable state: whatever was read
\* before an await still fits what is there after it.
THEOREM Invariance == AccessSpec => []Inv
  BY InitInv, StepKeepsInv, PTL DEF AccessSpec

\* However many setups race, under whatever names, there is one user.
THEOREM SingleUser == AccessSpec => []OneUser
  <1>1. ASSUME Inv PROVE OneUser
    <2>1. CASE users = {}
      BY <2>1, FS_EmptySet DEF OneUser
    <2>2. CASE \E u \in User : users = {u}
      <3>1. Cardinality(users) = 1
        BY <2>2, FS_Singleton
      <3> QED
        BY <3>1 DEF OneUser
    <2> QED
      BY <1>1, <2>1, <2>2 DEF Inv, People
  <1> QED
    BY <1>1, Invariance, PTL

\* A sign-out ends every cookie there was, and those that logins which read
\* the nonce before it set after it.
THEOREM SignOut == AccessSpec => []LogoutEndsAll
  <1>1. ASSUME Inv, NEW c \in Clients, Authed(c), cookie[c].nonce \in ended
        PROVE  FALSE
    <2>1. PICK u \in User : users = {u}
      BY <1>1 DEF Inv, People, Authed, Accepted
    <2>2. cookie[c].nonce = u.nonce
      BY <1>1, <2>1 DEF Authed, Accepted
    <2>3. cookie[c].nonce < u.nonce
      BY <1>1, <2>1 DEF Inv, Nonces
    <2> QED
      BY <2>2, <2>3 DEF User
  <1> QED
    <2>1. Inv => LogoutEndsAll
      BY <1>1 DEF LogoutEndsAll
    <2> QED
      BY <2>1, Invariance, PTL

\* Names of live tokens are unique, however many creates race.
THEOREM LiveNames == AccessSpec => []TokensStayDistinct
  BY Invariance, PTL DEF Inv, Tokens

\* A revoked token stays revoked.
THEOREM Revocation == AccessSpec => RevokeSticks
  <1>1. Inv /\ [AccessNext]_vars =>
          [\A i \in DOMAIN tokens :
              tokens[i].revoked # None => tokens'[i].revoked # None]_vars
    BY TokensKept
  <1> QED
    BY <1>1, Invariance, PTL DEF AccessSpec, RevokeSticks

\* A lock is lifted early for the right password, by a restart, or when
\* everybody in the table is locked.
THEOREM Lockout == AccessSpec => LocksHold
  <1> DEFINE Kept ==
        \A k \in DOMAIN entries : IsLocked(entries[k], clock) =>
          \/ k \in DOMAIN entries' /\ entries'[k].until >= entries[k].until
          \/ \E c \in Clients : Hashes(c, "login") /\ req[c].good /\ Key[req[c].name] = k
          \/ \A j \in DOMAIN entries : IsLocked(entries[j], clock)
          \/ Restart
  <1>1. Inv /\ [AccessNext]_vars => Kept
    <2>1. Inv => \A k \in DOMAIN entries : entries[k].until \in Nat
      BY DEF Inv, Table, Fit, Failure
    <2> QED
      BY <2>1, TableKept
  <1>2. Inv /\ [AccessNext]_vars => [Kept]_vars
    BY <1>1
  <1> QED
    BY <1>2, Invariance, PTL DEF AccessSpec, LocksHold

\* However logins of one name overlap, a window of any start sees no more
\* passwords than those short of the limit in one entry and all of the next.
THEOREM Guesses == AccessSpec => []AttemptsAreBounded
  <1>1. Inv /\ Attempts /\ [AccessNext]_vars => Attempts'
    BY AttemptsKept
  <1>2. AccessSpec => []Attempts
    BY <1>1, InitAttempts, Invariance, PTL DEF AccessSpec
  <1>3. Inv /\ Attempts => AttemptsAreBounded
    <2> SUFFICES ASSUME Inv, Attempts, NEW k \in Names, NEW t \in 1 .. clock
                 PROVE  Cardinality({i \in DOMAIN tries[k] :
                                        /\ tries[k][i] >= t
                                        /\ tries[k][i] < t + WindowSeconds})
                            <= 2 * MaxFailures - 2
      BY DEF AttemptsAreBounded
    <2>1. PICK times : times = tries[k]
      OBVIOUS
    <2>2. t \in Nat /\ TriesFit(times, clock)
      BY <2>1 DEF Inv, Attempts
    <2>3. Cardinality(Within(times, t)) <= 2 * MaxFailures - 2
      BY <2>2 DEF TriesFit
    <2> QED
      BY <2>1, <2>3 DEF Within
  <1> QED
    BY <1>2, <1>3, Invariance, PTL
=============================================================================

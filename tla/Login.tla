-------------------------------- MODULE Login --------------------------------
(***************************************************************************)
(* Logging in and out of one account: the budget of password attempts      *)
(* (middleware/limiter.go), the link that is mailed and the code it is     *)
(* exchanged for (EmailChallengeStore, controller/user.go), the token the  *)
(* code buys and its revocation (auth/, middleware/auth.go).               *)
(*                                                                         *)
(* Everything but the tokens lives in memory: a restart forgets it.  A     *)
(* code is known by the link it was given for.                             *)
(***************************************************************************)
EXTENDS Integers, Sequences

CONSTANTS
    Clients,            \* requests that may be in progress at once
    Attempts, Window,   \* loginAttemptsPerWindow, loginAttemptWindow
    ChallengeTTL,       \* how long a link is good
    ExchangeTTL,        \* how long the code is good
    TokenLife,          \* TokenExpireSecond
    Horizon,            \* bound: the last point in time
    Links               \* the links there are to be minted

LoginAssumption ==
    /\ Attempts \in Nat \ {0}
    /\ {Window, ChallengeTTL, ExchangeTTL, TokenLife, Horizon} \subseteq Nat
    /\ "none" \notin Links
ASSUME LoginAssumption

VARIABLES
    now,        \* the clock
    attempts,   \* the limiter's queue for the account, oldest first
    challenge,  \* the pending link
    exchange,   \* the pending code
    mailed,     \* links that were sent
    given,      \* codes that were handed to a browser
    client,     \* the requests in progress
    sessions,   \* the tokens that were issued, in order
    revoked,    \* the registry: until when each revoked token is kept
    leaving,    \* tokens that were accepted for a logout not yet served
    guesses,    \* history: when passwords were tried, since the last start
    loggedOut   \* history: tokens logged out since the last start

vars == <<now, attempts, challenge, exchange, mailed, given, client, sessions, revoked,
          leaving, guesses, loggedOut>>

None == [link |-> "none", createdAt |-> 0]
Idle == [step |-> "idle", link |-> "none"]

Expired(entry, ttl) == now > entry.createdAt + ttl

Set(c, step, link) == client' = [client EXCEPT ![c] = [step |-> step, link |-> link]]
Leave(c) == client' = [client EXCEPT ![c] = Idle]

----------------------------------------------------------------------------
(***************************************************************************)
(* RateLimiter                                                             *)
(***************************************************************************)
\* Request: a free place in the queue, or the oldest attempt is a window ago.
Allowed == Len(attempts) = Attempts => now - Head(attempts) >= Window

Admitted == Append(IF Len(attempts) < Attempts THEN attempts ELSE Tail(attempts), now)

\* Mutant: a queue is forgotten when its oldest attempt has expired.
ForgetByOldest ==
    /\ attempts # <<>> /\ now - Head(attempts) > Window
    /\ attempts' = <<>>
    /\ UNCHANGED <<now, challenge, exchange, mailed, given, client,
                   sessions, revoked, leaving, guesses, loggedOut>>

\* clearExpiredItems, at a time that has nothing to do with the attempts.
Forget ==
    /\ attempts # <<>> /\ now - attempts[Len(attempts)] > Window
    /\ attempts' = <<>>
    /\ UNCHANGED <<now, challenge, exchange, mailed, given, client,
                   sessions, revoked, leaving, guesses, loggedOut>>

----------------------------------------------------------------------------
(***************************************************************************)
(* ChallengeLogin                                                          *)
(***************************************************************************)
\* The attempt is counted, then the password is compared.
TryPassword(c) ==
    /\ client[c] = Idle
    /\ Allowed
    /\ attempts' = Admitted
    /\ guesses' = Append(guesses, now)
    /\ Set(c, "mailing", "none") \/ UNCHANGED client
    /\ UNCHANGED <<now, challenge, exchange, mailed, given,
                   sessions, revoked, leaving, loggedOut>>

\* CreateLoginChallenge, and the mail: a link that is good is sent again.
Mail(c) ==
    /\ client[c].step = "mailing"
    /\ IF challenge # None /\ ~Expired(challenge, ChallengeTTL)
         THEN UNCHANGED <<challenge, mailed>>
         ELSE \E link \in Links \ mailed : /\ challenge' = [link |-> link, createdAt |-> now]
                                           /\ mailed' = mailed \cup {link}
    /\ Leave(c)
    /\ UNCHANGED <<now, attempts, exchange, given,
                   sessions, revoked, leaving, guesses, loggedOut>>

----------------------------------------------------------------------------
(***************************************************************************)
(* UrlVerifyLogin: the entry is looked up, the link compared and taken,    *)
(* the code stored; the store is locked for each of them.                  *)
(***************************************************************************)
Follow(c, link) ==
    /\ client[c] = Idle
    /\ challenge # None
    /\ Set(c, "found", link)
    /\ UNCHANGED <<now, attempts, challenge, exchange, mailed, given,
                   sessions, revoked, leaving, guesses, loggedOut>>

\* Mutant: the link is compared and not taken.
ConfirmOnly(c) ==
    LET good == challenge.link = client[c].link /\ ~Expired(challenge, ChallengeTTL) IN
    /\ client[c].step = "found"
    /\ IF good THEN Set(c, "confirmed", client[c].link) ELSE Leave(c)
    /\ UNCHANGED <<now, attempts, challenge, exchange, mailed, given,
                   sessions, revoked, leaving, guesses, loggedOut>>

\* valid
Confirm(c) ==
    LET good == challenge.link = client[c].link /\ ~Expired(challenge, ChallengeTTL) IN
    /\ client[c].step = "found"
    /\ IF good THEN Set(c, "confirmed", client[c].link) ELSE Leave(c)
    /\ challenge' = IF good THEN None ELSE challenge
    /\ UNCHANGED <<now, attempts, exchange, mailed, given,
                   sessions, revoked, leaving, guesses, loggedOut>>

\* setVerifyToken replaces a code that is pending; without a code or a URL to
\* send the browser to, the link is spent for nothing.
Redirect(c) ==
    /\ client[c].step = "confirmed"
    /\ \/ /\ exchange' = [link |-> client[c].link, createdAt |-> now]
          /\ given' = given \cup {client[c].link}
       \/ UNCHANGED <<exchange, given>>
    /\ Leave(c)
    /\ UNCHANGED <<now, attempts, challenge, mailed,
                   sessions, revoked, leaving, guesses, loggedOut>>

----------------------------------------------------------------------------
(***************************************************************************)
(* ExchangeToken: the code is taken under the lock, and the token issued   *)
(* after it; an error in between costs the code.                           *)
(***************************************************************************)
Exchange(c, link) ==
    /\ client[c] = Idle
    /\ exchange # None
    /\ IF Expired(exchange, ExchangeTTL) THEN exchange' = None /\ UNCHANGED client
       ELSE exchange.link = link /\ exchange' = None /\ Set(c, "entering", link)
    /\ UNCHANGED <<now, attempts, challenge, mailed, given,
                   sessions, revoked, leaving, guesses, loggedOut>>

Enter(c) ==
    /\ client[c].step = "entering"
    /\ \/ sessions' = Append(sessions, [link |-> client[c].link, expireAt |-> now + TokenLife])
       \/ UNCHANGED sessions
    /\ Leave(c)
    /\ UNCHANGED <<now, attempts, challenge, exchange, mailed, given,
                   revoked, leaving, guesses, loggedOut>>

----------------------------------------------------------------------------
(***************************************************************************)
(* Tokens.                                                                 *)
(***************************************************************************)
\* ValidateJWT: revoked tokens first, then the token itself.
Accepted(k) == k \notin DOMAIN revoked /\ now < sessions[k].expireAt

\* Mutant: kept as long as a code.
KeptAsCode == now + ExchangeTTL

\* How long a revoked token is kept.
KeptUntil == now + TokenLife

\* A logout is let through by ValidateJWT ...
Logout(k) ==
    /\ Accepted(k)
    /\ leaving' = leaving \cup {k}
    /\ UNCHANGED <<now, attempts, challenge, exchange, mailed, given, client, sessions, revoked,
                   guesses, loggedOut>>

\* ... and served later: the token is added, then the registry pruned.  More
\* than one request may have been let through with the token.
Revoke(k) ==
    LET entries == [j \in DOMAIN revoked \cup {k} |-> IF j = k THEN KeptUntil ELSE revoked[j]] IN
    /\ k \in leaving
    /\ revoked' = [j \in {i \in DOMAIN entries : now <= entries[i]} |-> entries[j]]
    /\ loggedOut' = loggedOut \cup {k}
    /\ leaving' \in {leaving, leaving \ {k}}
    /\ UNCHANGED <<now, attempts, challenge, exchange, mailed, given, client,
                   sessions, guesses>>

----------------------------------------------------------------------------
Tick ==
    /\ now < Horizon
    /\ now' = now + 1
    /\ UNCHANGED <<attempts, challenge, exchange, mailed, given, client,
                   sessions, revoked, leaving, guesses, loggedOut>>

Restart ==
    /\ attempts' = <<>> /\ challenge' = None /\ exchange' = None
    /\ client' = [c \in Clients |-> Idle]
    /\ revoked' = <<>> /\ leaving' = {}
    /\ guesses' = <<>> /\ loggedOut' = {}
    /\ UNCHANGED <<now, mailed, given, sessions>>

Init ==
    /\ now = 0
    /\ attempts = <<>> /\ challenge = None /\ exchange = None
    /\ mailed = {} /\ given = {}
    /\ client = [c \in Clients |-> Idle]
    /\ sessions = <<>> /\ revoked = <<>> /\ leaving = {}
    /\ guesses = <<>> /\ loggedOut = {}

Next ==
    \/ \E c \in Clients :
          \/ TryPassword(c) \/ Mail(c)
          \/ \E link \in mailed : Follow(c, link)
          \/ Confirm(c) \/ Redirect(c)
          \/ \E link \in given : Exchange(c, link)
          \/ Enter(c)
    \/ \E k \in DOMAIN sessions : Logout(k) \/ Revoke(k)
    \/ Forget \/ Tick \/ Restart

Spec == Init /\ [][Next]_vars

----------------------------------------------------------------------------
Entry == [link : Links \cup {"none"}, createdAt : Nat]
Steps == {"idle", "mailing", "found", "confirmed", "entering"}

TypeOK ==
    /\ now \in Nat
    /\ attempts \in Seq(Nat) /\ guesses \in Seq(Nat)
    /\ challenge \in Entry /\ exchange \in Entry
    /\ mailed \subseteq Links /\ given \subseteq Links
    /\ client \in [Clients -> [step : Steps, link : Links \cup {"none"}]]
    /\ \A c \in Clients :
          client[c].step \in {"found", "confirmed", "entering"} => client[c].link \in Links
    /\ sessions \in Seq([link : Links, expireAt : Nat])
    /\ DOMAIN revoked \subseteq DOMAIN sessions /\ revoked \in [DOMAIN revoked -> Nat]
    /\ loggedOut \subseteq DOMAIN sessions /\ leaving \subseteq DOMAIN sessions

\* A link lets one session begin, whatever requests run at once, are repeated
\* or fail half way ("只能用一次", controller/user.go:403).
OneSessionPerLink ==
    \A j, k \in DOMAIN sessions : sessions[j].link = sessions[k].link => j = k

\* A token that was logged out is not accepted again by this process, although
\* its entry in the registry is dropped in the end (auth/token_mgr.go:43-59) and
\* however long the logout took; a restart forgets every logout.
LoggedOutStaysOut == \A k \in loggedOut : ~Accepted(k)

\* More than Attempts passwords are never tried within a window, wherever it
\* begins and whenever the limiter forgets (middleware/limiter.go:32-74), by one
\* process: a restart begins anew.
GuessesWithinBudget ==
    \A j \in 1..(Len(guesses) - Attempts) : guesses[j + Attempts] - guesses[j] >= Window
=============================================================================

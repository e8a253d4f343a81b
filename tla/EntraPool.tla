----------------------------- MODULE EntraPool -----------------------------
(***************************************************************************)
(* The connection pool of the Entra mode (app/core/database.py): logins    *)
(* use an access token that _PostgresTokenProvider caches, and the         *)
(* "checkout" listener discards a connection whose token is near expiry.   *)
(*                                                                         *)
(* A slot is a connection record of SQLAlchemy's pool together with the    *)
(* checkout that is using it.  get_token and the listener are synchronous; *)
(* the login and the pre-ping are awaited, and time passes there.          *)
(* SQLAlchemy retries a checkout whose listener raised DisconnectionError  *)
(* with a new connection, and gives up after the second refusal.           *)
(***************************************************************************)
EXTENDS Integers

CONSTANTS Slots,             \* pool_size + max_overflow connection records
          SkewSettings,      \* values of ENTRA_DB_TOKEN_REFRESH_SKEW_SECONDS
          LifetimeSetting,   \* ENTRA_DB_TOKEN_LIFETIME_SECONDS
          RecycleSetting,    \* DATABASE_POOL_RECYCLE
          Guard,             \* CONNECTION_EXPIRY_GUARD_SECONDS
          MinSkew, MinLifetime, MinRecycle,    \* 30, 120 and 60 in the code
          Lifetimes,         \* validity left in tokens the credential returns
          MaxLogin,          \* longest login
          MaxTime            \* bound of the clock

ASSUME SettingsAssumption ==
    /\ SkewSettings \cup {LifetimeSetting, RecycleSetting} \subseteq Int
    /\ {Guard, MinSkew, MinLifetime, MinRecycle, MaxLogin, MaxTime} \subseteq Nat
    /\ Lifetimes \subseteq Nat \ {0}

VARIABLES
    skew,      \* the setting this replica was started with
    now,
    cached,    \* _expires_on of the cached token; 0 before the first
    state,     \* slot -> where it is
    expires,   \* slot -> entra_token_expires_on of its connection
    since,     \* slot -> when its connection was begun (starttime)
    tries      \* slot -> attempts left in the checkout, 0 outside one

vars == <<skew, now, cached, state, expires, since, tries>>

States == {"empty", "idle", "pinging", "opening", "login", "connected",
           "used", "refused"}

TypeOK ==
    /\ skew \in SkewSettings
    /\ now \in Nat
    /\ cached \in Nat
    /\ state \in [Slots -> States]
    /\ expires \in [Slots -> Nat]
    /\ since \in [Slots -> Nat]
    /\ tries \in [Slots -> 0 .. 2]

Init ==
    /\ skew \in SkewSettings
    /\ now = 1
    /\ cached = 0
    /\ state = [s \in Slots |-> "empty"]
    /\ expires = [s \in Slots |-> 0]
    /\ since = [s \in Slots |-> 0]
    /\ tries = [s \in Slots |-> 0]

-----------------------------------------------------------------------------

Larger(a, b) == IF a > b THEN a ELSE b
Smaller(a, b) == IF a < b THEN a ELSE b

RefreshSkew == Larger(MinSkew, skew)

\* _safe_entra_pool_recycle_seconds
PoolRecycle ==
    Smaller(RecycleSetting,
            Larger(MinRecycle, Larger(MinLifetime, LifetimeSetting) - RefreshSkew))

\* Mutant: the cached token is used until it expires.
ReusableToTheEnd == cached # 0 /\ now < cached

\* get_token returns the cached token.
Reusable == cached # 0 /\ now < cached - RefreshSkew

NearExpiry(s) == now >= expires[s] - Guard

Go(s, from, to) == state[s] \in from /\ state' = [state EXCEPT ![s] = to]

-----------------------------------------------------------------------------
(* A checkout.                                                             *)

\* A request takes a pooled connection; one older than pool_recycle is closed
\* and opened anew.
CheckOut(s) ==
    /\ Go(s, {"idle"}, IF now - since[s] > PoolRecycle THEN "opening" ELSE "pinging")
    /\ tries' = [tries EXCEPT ![s] = 2]
    /\ UNCHANGED <<skew, now, cached, expires, since>>

\* A request takes a record without a connection.
CheckOutNew(s) ==
    /\ Go(s, {"empty"}, "opening")
    /\ tries' = [tries EXCEPT ![s] = 2]
    /\ UNCHANGED <<skew, now, cached, expires, since>>

\* do_connect: the login begins with the token of get_token.
Open(s) ==
    /\ Go(s, {"opening"}, "login")
    /\ \/ Reusable /\ UNCHANGED cached
       \/ ~ Reusable /\ \E l \in Lifetimes : cached' = now + l
    /\ expires' = [expires EXCEPT ![s] = cached']
    /\ since' = [since EXCEPT ![s] = now]
    /\ UNCHANGED <<skew, now, tries>>

\* The credential raises: the cached token stays, the request fails.
CredentialFails(s) ==
    /\ ~ Reusable
    /\ Go(s, {"opening"}, "empty")
    /\ tries' = [tries EXCEPT ![s] = 0]
    /\ UNCHANGED <<skew, now, cached, expires, since>>

Login(s) ==
    /\ now < expires[s]
    /\ Go(s, {"login"}, "connected")
    /\ UNCHANGED <<skew, now, cached, expires, since, tries>>

\* The server checks the token when the login reaches it.
LoginWithExpiredToken(s) ==
    /\ now >= expires[s]
    /\ Go(s, {"login"}, "refused")
    /\ tries' = [tries EXCEPT ![s] = 0]
    /\ UNCHANGED <<skew, now, cached, expires, since>>

LoginFails(s) ==
    /\ Go(s, {"login"}, "empty")
    /\ tries' = [tries EXCEPT ![s] = 0]
    /\ UNCHANGED <<skew, now, cached, expires, since>>

\* The pre-ping of a pooled connection fails; with it go the other pooled ones.
PingFails(s) ==
    /\ state[s] = "pinging"
    /\ state' = [t \in Slots |->
                    IF t = s THEN "opening"
                    ELSE IF state[t] = "idle" THEN "empty" ELSE state[t]]
    /\ tries' = [tries EXCEPT ![s] = @ - 1]
    /\ UNCHANGED <<skew, now, cached, expires, since>>

\* The checkout listener lets the connection pass.
GuardPasses(s) ==
    /\ tries[s] > 0
    /\ ~ NearExpiry(s)
    /\ Go(s, {"pinging", "connected"}, "used")
    /\ tries' = [tries EXCEPT ![s] = 0]
    /\ UNCHANGED <<skew, now, cached, expires, since>>

\* Mutant: a refused connection is replaced without counting the attempt.
GuardRetriesForever(s) ==
    /\ tries[s] > 0
    /\ NearExpiry(s)
    /\ Go(s, {"pinging", "connected"}, "opening")
    /\ UNCHANGED <<skew, now, cached, expires, since, tries>>

\* DisconnectionError: the connection is invalidated and replaced.
GuardRefuses(s) ==
    /\ tries[s] > 0
    /\ NearExpiry(s)
    /\ Go(s, {"pinging", "connected"}, "opening")
    /\ tries' = [tries EXCEPT ![s] = @ - 1]
    /\ UNCHANGED <<skew, now, cached, expires, since>>

\* Both attempts are used up: the last replacement is dropped unused.
GiveUp(s) ==
    /\ tries[s] = 0
    /\ Go(s, {"connected"}, "refused")
    /\ UNCHANGED <<skew, now, cached, expires, since, tries>>

\* The request is done with its connection, which is pooled or, as overflow
\* or broken, closed; a refused request leaves an empty record.
CheckIn(s) ==
    /\ \/ Go(s, {"used"}, "idle")
       \/ Go(s, {"used", "refused"}, "empty")
    /\ UNCHANGED <<skew, now, cached, expires, since, tries>>

\* Time passes, but not beyond the longest login.
Tick ==
    /\ now < MaxTime
    /\ \A s \in Slots : state[s] \in {"login", "connected"} => now < since[s] + MaxLogin
    /\ now' = now + 1
    /\ UNCHANGED <<skew, cached, state, expires, since, tries>>

CheckoutStep(s) ==
    \/ Open(s) \/ CredentialFails(s) \/ Login(s) \/ LoginWithExpiredToken(s)
    \/ LoginFails(s) \/ PingFails(s) \/ GuardPasses(s) \/ GuardRefuses(s) \/ GiveUp(s)

SlotStep(s) == CheckOut(s) \/ CheckOutNew(s) \/ CheckoutStep(s) \/ CheckIn(s)

Next == Tick \/ \E s \in Slots : SlotStep(s)

Spec == Init /\ [][Next]_vars

\* A checkout's awaits end; nothing forces requests to come or time to pass.
FairSpec == Spec /\ \A s \in Slots : WF_vars(CheckoutStep(s))

-----------------------------------------------------------------------------
(* Properties.                                                             *)

\* The refresh skew covers the guard of the listener and the login between
\* get_token and the listener, and so do the credential's own tokens.
SkewCoversGuard ==
    /\ RefreshSkew >= Guard + MaxLogin
    /\ \A l \in Lifetimes : l > Guard + MaxLogin

\* Where the skew covers the guard, a replaced connection always passes: no
\* request is refused because the cached token is between the skew of
\* get_token and the guard of the listener, or expires during a login.
NoRefusal == SkewCoversGuard => \A s \in Slots : state[s] # "refused"

\* A connection that replaces another is begun with a token that outlasts both
\* the login and the guard, and there is an attempt left to hand it out.
Fresh(s) ==
    /\ state[s] \in {"opening", "login", "connected"} => tries[s] > 0
    /\ state[s] \in {"login", "connected"} =>
          /\ now <= since[s] + MaxLogin
          /\ expires[s] > since[s] + MaxLogin + Guard
    /\ state[s] # "refused"

\* The inductive invariant behind NoRefusal.
PoolInv ==
    /\ TypeOK
    /\ \A s \in Slots : state[s] = "pinging" => tries[s] = 2
    /\ SkewCoversGuard => \A s \in Slots : Fresh(s)

\* How many steps a checkout has before it at most: each attempt it has left
\* may open a connection, log in and reach the listener.
Underway == {"pinging", "opening", "login", "connected"}

StagesLeft(at) ==
    CASE at = "opening" -> 3
      [] at = "login" -> 2
      [] at = "connected" -> 1
      [] OTHER -> 0

StepsLeft(s) == IF state[s] \in Underway THEN 4 * tries[s] + StagesLeft(state[s]) ELSE 0

Nearer(s) ==
    /\ StepsLeft(s)' <= StepsLeft(s)
    /\ state'[s] # state[s] => StepsLeft(s)' < StepsLeft(s)

\* Each step of a checkout, one that replaces the connection too, leaves it with
\* fewer steps, and no step of another throws it back: the pre-ping, the
\* listener and the logins that fail share two attempts.
CheckoutsGetNearer ==
    [][\A s \in Slots : state[s] \in Underway => Nearer(s)]_vars

\* Every checkout ends, also while every connection is refused: the listener
\* cannot keep a request reconnecting for ever.
EveryCheckoutEnds ==
    \A s \in Slots : state[s] \in Underway ~> state[s] \in {"used", "refused", "empty"}
=============================================================================
